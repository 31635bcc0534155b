----------------------------- MODULE HexHistory -----------------------------
(***************************************************************************)
(* What Undo and Redo promise: the data is one point of a line of          *)
(* versions, with the versions before it in past and those it was undone   *)
(* from in future.  A change remembers the version it leaves and forgets   *)
(* the future; Undo and Redo move along the line and reproduce versions    *)
(* exactly.  HexUndoHistory shows that the snapshots of CHexCtrl implement *)
(* it.                                                                     *)
(***************************************************************************)
EXTENDS Naturals, Sequences

CONSTANTS
  Offset,  \* the offsets of the data
  Byte,    \* the values of a byte
  Limit,   \* the most versions remembered
  Drop     \* how many of the oldest are forgotten at the limit

VARIABLES
  version,  \* the data
  past,     \* the versions before it, the oldest first
  future    \* the versions after it, the next one last

historyVars == <<version, past, future>>

Version == [Offset -> Byte]

Front(s) == SubSeq(s, 1, Len(s) - 1)
Top(s) == s[Len(s)]

Kept(versions) ==
  IF Len(versions) >= Limit THEN SubSeq(versions, Drop + 1, Len(versions)) ELSE versions

Remember(versions) == Append(Kept(versions), version)

Init ==
  /\ version \in Version
  /\ past = <<>>
  /\ future = <<>>

\* Other data, or a change without the memory for the version it leaves:
\* nothing to go back to.
Replace ==
  /\ version' \in Version
  /\ past' = <<>>
  /\ future' = <<>>

Change ==
  /\ version' \in Version
  /\ past' = Remember(past)
  /\ future' = <<>>

\* An assignment goes through ModifyData twice and is remembered twice.
Assign ==
  /\ version' \in Version
  /\ \/ past' = Remember(Remember(past))
     \/ past' = Remember(<<>>)   \* no memory the first time
  /\ future' = <<>>

Undo ==
  /\ past # <<>>
  /\ version' = Top(past)
  /\ past' = Front(past)
  /\ future' = Append(future, version)

\* Without memory for the version it leaves, Undo stops somewhere between the
\* two versions and forgets the future; going back is still possible.
UndoHalfway ==
  /\ past # <<>>
  /\ version' \in {v \in Version : \A o \in Offset : v[o] \in {version[o], Top(past)[o]}}
  /\ future' = <<>>
  /\ UNCHANGED past

Redo ==
  /\ future # <<>>
  /\ version' = Top(future)
  /\ future' = Front(future)
  /\ past' = Append(past, version)

Next == Replace \/ Change \/ Assign \/ Undo \/ UndoHalfway \/ Redo

Spec == Init /\ [][Next]_historyVars

=============================================================================
