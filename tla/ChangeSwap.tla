------------------------------- MODULE ChangeSwap -------------------------------
(***************************************************************************)
(* What the materializer promises about the directory of a Change,         *)
(* whatever stops it half-way: a Change is not rewritten where it stands.  *)
(* It is set aside, and a whole new one comes where there is none; what    *)
(* was set aside is put back as it was, or forgotten.  Only what an        *)
(* external command got wrong, and what is being removed, is ever broken,  *)
(* and nothing but its removal follows.  A command may also have written   *)
(* more than was approved: that goes as any other file may, and then a     *)
(* Change that is whole is left, until the rest has gone.                  *)
(***************************************************************************)
CONSTANTS Existing,   \* the contents a Change may have at first
          Proposals,  \* the contents it may be given
          Trim,       \* what is left of a content with more than was approved, without it
          Absent,     \* there is no Change
          Broken,     \* there is one that nobody has written or approved
          Pids        \* the processes that may set one aside

VARIABLES content, kept

Overdone == DOMAIN Trim

Init == content \in Existing \cup {Absent} /\ kept = [pid \in Pids |-> Absent]

SetAside(pid) ==
  /\ content \notin {Absent, Broken} /\ kept[pid] = Absent
  /\ content' = Absent
  /\ kept' = [kept EXCEPT ![pid] = content]

Install ==
  /\ content = Absent
  /\ content' \in Proposals \cup Overdone \cup {Broken}
  /\ UNCHANGED kept

PutBack(pid) ==
  /\ content = Absent /\ kept[pid] # Absent
  /\ content' = kept[pid]
  /\ kept' = [kept EXCEPT ![pid] = Absent]

\* A backup that has begun to go is not put back.
Forget(pid) ==
  /\ kept' = [kept EXCEPT ![pid] = Absent]
  /\ UNCHANGED content

\* A Change that is not what was approved is taken away, file by file.
Discard == content' \in {Absent, Broken} /\ content # Absent /\ UNCHANGED kept

\* What is too much goes first, where the Change stands or from the backup.
TakeSurplus == content \in Overdone /\ content' = Trim[content] /\ UNCHANGED kept

TakeKeptSurplus(pid) ==
  /\ kept[pid] \in Overdone
  /\ kept' = [kept EXCEPT ![pid] = Trim[kept[pid]]]
  /\ UNCHANGED content

Next == \/ Install \/ Discard \/ TakeSurplus
        \/ \E pid \in Pids :
             SetAside(pid) \/ PutBack(pid) \/ Forget(pid) \/ TakeKeptSurplus(pid)

Spec == Init /\ [][Next]_<<content, kept>>

================================================================================
