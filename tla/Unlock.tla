--------------------------------- MODULE Unlock ---------------------------------
(***************************************************************************)
(* What boot1 promises the person at the keyboard: one answer is read, and *)
(* it opens the volume exactly when it is the passphrase its header was    *)
(* made from and the header is sound, unless the disk could not be read    *)
(* when the header's turn came.                                            *)
(***************************************************************************)
CONSTANTS
  Volumes,     \* the volumes that can be on the disk
  Lines,       \* the lines that can be typed
  Cancelled,   \* the answer that gives up
  Opens(_, _), \* whether a line opens a volume
  ReadErrors   \* a read from the disk may fail

VARIABLES
  volume,   \* the volume on the disk
  answer,   \* the set of what was typed, empty before that
  lost,     \* the header could not be read when its turn came
  verdict   \* "none", "cancelled", "opened" or "refused"

vars == <<volume, answer, lost, verdict>>

Init == volume \in Volumes /\ answer = {} /\ ~lost /\ verdict = "none"

Answer(a) == /\ answer = {}
             /\ answer' = {a}
             /\ UNCHANGED <<volume, lost, verdict>>

Cancel == /\ answer = {Cancelled}
          /\ verdict = "none"
          /\ verdict' = "cancelled"
          /\ UNCHANGED <<volume, answer, lost>>

LoseHeader == /\ ReadErrors
              /\ answer # {} /\ answer # {Cancelled}
              /\ verdict = "none"
              /\ lost' = TRUE
              /\ UNCHANGED <<volume, answer, verdict>>

Decide(l) == /\ answer = {l}
             /\ verdict = "none"
             /\ verdict' = IF Opens(volume, l) /\ ~lost THEN "opened" ELSE "refused"
             /\ UNCHANGED <<volume, answer, lost>>

Next == \/ \E a \in Lines \cup {Cancelled} : Answer(a)
        \/ Cancel
        \/ LoseHeader
        \/ \E l \in Lines : Decide(l)

Spec == Init /\ [][Next]_vars
=============================================================================
