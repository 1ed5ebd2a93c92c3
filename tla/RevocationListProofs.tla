------------------------- MODULE RevocationListProofs -------------------------
(***************************************************************************)
(* Proofs about the denylist, for any serials and any number of saves, and *)
(* from which assumptions on the file system they follow.                  *)
(***************************************************************************)
EXTENDS RevocationList, FiniteSetTheorems, TLAPS

\* A list of serials has a size.
LEMMA ListSize == \A list \in SUBSET Serials : Cardinality(list) \in Nat
  BY SerialsFinite, FS_Subset, FS_CardinalityType

FileType == [is : {"absent", "garbled", "list"}, serials : SUBSET Serials, mtime : Nat, size : Nat]

\* What the operator leaves on disk is a file, complete or halfway.
LEMMA Written ==
  ASSUME NEW list \in SUBSET Serials, NEW t \in Nat
  PROVE  /\ Complete(list, t) \in FileType /\ Complete(list, t).mtime = t
         /\ \A f \in Halfway(list, t) : f \in FileType /\ f.mtime = t
<1>1. \A l \in SUBSET Serials : Complete(l, t) \in FileType /\ Complete(l, t).mtime = t
  BY ListSize DEF Complete, FileType
<1>2. ASSUME NEW f \in Halfway(list, t) PROVE f \in FileType /\ f.mtime = t
  <2>1. CASE \E l \in SUBSET Serials : f = Complete(l, t)
    BY <1>1, <2>1
  <2>2. CASE f = [is |-> "absent", serials |-> {}, mtime |-> t, size |-> 0]
    BY <2>2 DEF FileType
  <2>3. CASE f = [is |-> "garbled", serials |-> {}, mtime |-> t, size |-> 1]
    BY <2>3 DEF FileType
  <2>4. QED
    BY <2>1, <2>2, <2>3 DEF Halfway
<1>3. QED
  BY <1>1, <1>2

\* Types and the order of the mtimes, together with the stat of a running check.
TypeInv == TypeOK /\ stat.mtime <= file.mtime

\* Every step keeps the types.
LEMMA TypeStep == TypeInv /\ [Next]_vars => TypeInv'
<1> SUFFICES ASSUME TypeInv, [Next]_vars PROVE TypeInv'
  OBVIOUS
<1> USE BoundAssumption, FlagsAssumption
    DEF TypeInv, TypeOK, Exists, Readable, States, Stamp, NoStamp, WriteTimes, fileVars, listVars, checkVars, histVars
<1>1. ASSUME NEW list \in SUBSET Serials, Save(list) PROVE TypeInv'
  <2>1. PICK t \in WriteTimes : file' = Complete(list, t)
    BY <1>1 DEF Save
  <2>2. t \in Nat /\ t >= file.mtime
    BY <2>1
  <2>3. file' \in FileType /\ file'.mtime = t
    BY <2>1, <2>2, Written
  <2>4. stamp.mtime <= file'.mtime /\ stat.mtime <= file'.mtime
    BY <2>2, <2>3
  <2>5. edits' \in 0..MaxEdits
    BY <1>1 DEF Save, MayEdit
  <2>6. kept' \in SUBSET Serials /\ listed' \in SUBSET Serials
    BY <1>1 DEF Save, StillListed
  <2>7. QED
    BY <1>1, <2>3, <2>4, <2>5, <2>6 DEF Save, FileType
<1>2. ASSUME NEW list \in SUBSET Serials, BeginSave(list) PROVE TypeInv'
  <2>1. PICK t \in WriteTimes : file' \in Halfway(list, t)
    BY <1>2 DEF BeginSave
  <2>2. t \in Nat /\ t >= file.mtime
    BY <2>1
  <2>3. file' \in FileType /\ file'.mtime = t
    BY <2>1, <2>2, Written
  <2>4. stamp.mtime <= file'.mtime /\ stat.mtime <= file'.mtime
    BY <2>2, <2>3
  <2>5. edits' \in 0..MaxEdits
    BY <1>2 DEF BeginSave, MayEdit
  <2>6. kept' \in SUBSET Serials /\ listed' \in SUBSET Serials
    BY <1>2 DEF BeginSave, StillListed
  <2>7. QED
    BY <1>2, <2>3, <2>4, <2>5, <2>6 DEF BeginSave, FileType
<1>3. CASE FinishSave
  <2>1. PICK t \in WriteTimes : file' = Complete(target, t)
    BY <1>3 DEF FinishSave
  <2>2. t \in Nat /\ t >= file.mtime
    BY <2>1
  <2>3. file' \in FileType /\ file'.mtime = t
    BY <2>1, <2>2, Written
  <2>4. stamp.mtime <= file'.mtime /\ stat.mtime <= file'.mtime
    BY <2>2, <2>3
  <2>5. listed' \in SUBSET Serials
    BY <1>3 DEF FinishSave, StillListed
  <2>6. QED
    BY <1>3, <2>3, <2>4, <2>5 DEF FinishSave, FileType
<1>4. CASE NewLoad
  BY <1>4 DEF NewLoad
<1>5. CASE NewStat
  BY <1>5 DEF NewStat
<1>6. CASE Restart
  BY <1>6 DEF Restart
<1>7. ASSUME NEW c \in Serials, StatFile(c) PROVE TypeInv'
  BY <1>7 DEF StatFile
<1>8. CASE Reload
  BY <1>8 DEF Reload
<1>9. CASE Lookup
  BY <1>9 DEF Lookup
<1>10. CASE Return
  BY <1>10 DEF Return
<1>11. CASE UNCHANGED vars
  BY <1>11 DEF vars
<1>12. QED
  BY <1>1, <1>2, <1>3, <1>4, <1>5, <1>6, <1>7, <1>8, <1>9, <1>10, <1>11 DEF Next

\* The types hold in every behaviour.
LEMMA TypeInvariance == Spec => []TypeInv
<1>1. Init => TypeInv
  <2> SUFFICES ASSUME Init PROVE TypeInv
    OBVIOUS
  <2>1. file \in FileType /\ file.mtime = 1
    BY Written DEF Init
  <2>2. edits \in 0..MaxEdits
    BY BoundAssumption DEF Init
  <2>3. stamp = NoStamp /\ stat = NoStamp /\ NoStamp \in [mtime : Nat, size : Nat]
        /\ NoStamp.mtime = 0
    BY DEF Init, NoStamp
  <2>4. lpc \in States /\ serials \in SUBSET Serials /\ kept \in SUBSET Serials
        /\ listed \in SUBSET Serials
    BY DEF Init, States
  <2>5. stamp.mtime <= file.mtime /\ stat.mtime <= file.mtime
    BY <2>1, <2>3
  <2>6. base \in SUBSET Serials /\ target \in SUBSET Serials /\ asked \in Serials
        /\ answer \in BOOLEAN /\ untouched \in BOOLEAN
    BY DEF Init
  <2>7. QED
    BY <2>1, <2>2, <2>3, <2>4, <2>5, <2>6, Zenon DEF TypeInv, TypeOK, FileType
<1>2. QED
  BY <1>1, TypeStep, PTL DEF Spec

\* The cached stamp never runs ahead of the file.
THEOREM TypeCorrect == Spec => []TypeOK
<1>1. TypeInv => TypeOK
  BY DEF TypeInv
<1>2. QED
  BY <1>1, TypeInvariance, PTL

-----------------------------------------------------------------------------
\* A stamp that matches the file vouches for the cached set, at every point of a
\* check; and a check over a file that lay still ends with that file's set.
FreshInv ==
  /\ lpc = "loaded" => Readable /\ serials = file.serials
  /\ lpc \in {"ready", "reload", "lookup", "answered"} /\ Readable
       /\ stamp = Stamp(file) => serials = file.serials
  /\ lpc = "lookup" /\ untouched /\ Readable => serials = file.serials
  /\ AnswerIsFresh

\* Every step keeps it, if no save falls into startup and mtimes tell saves apart.
LEMMA FreshStep ==
  ASSUME ~StartupEdits, ~CoarseClock
  PROVE  TypeInv /\ FreshInv /\ [Next]_vars => FreshInv'
<1> SUFFICES ASSUME TypeInv, FreshInv, [Next]_vars PROVE FreshInv'
  OBVIOUS
<1> USE DEF TypeInv, TypeOK, Exists, Readable, FreshInv, AnswerIsFresh, Stamp, WriteTimes,
            fileVars, listVars, checkVars, histVars
<1>1. ASSUME NEW list \in SUBSET Serials, Save(list) PROVE FreshInv'
  <2>1. file'.mtime = file.mtime + 1
    BY <1>1 DEF Save, Complete
  <2>2. QED
    BY <1>1, <2>1 DEF Save, MayEdit
<1>2. ASSUME NEW list \in SUBSET Serials, BeginSave(list) PROVE FreshInv'
  <2>1. file'.mtime = file.mtime + 1
    BY <1>2, Written DEF BeginSave
  <2>2. QED
    BY <1>2, <2>1 DEF BeginSave, MayEdit
<1>3. CASE FinishSave
  <2>1. file'.mtime = file.mtime + 1
    BY <1>3 DEF FinishSave, Complete
  <2>2. QED
    BY <1>3, <2>1 DEF FinishSave
<1>4. CASE NewLoad
  BY <1>4 DEF NewLoad
<1>5. CASE NewStat
  BY <1>5 DEF NewStat
<1>6. CASE Restart
  BY <1>6 DEF Restart
<1>7. ASSUME NEW c \in Serials, StatFile(c) PROVE FreshInv'
  BY <1>7 DEF StatFile
<1>8. CASE Reload
  BY <1>8 DEF Reload
<1>9. CASE Lookup
  BY <1>9 DEF Lookup
<1>10. CASE Return
  BY <1>10 DEF Return
<1>11. CASE UNCHANGED vars
  BY <1>11 DEF vars
<1>12. QED
  BY <1>1, <1>2, <1>3, <1>4, <1>5, <1>6, <1>7, <1>8, <1>9, <1>10, <1>11 DEF Next

\* Whatever way the operator saves, a check over a file that lies still answers
\* what the file says, provided no save falls between the load and the stat of
\* NewRevocationList and every save has its own mtime.
THEOREM FreshAnswers ==
  ASSUME ~StartupEdits, ~CoarseClock
  PROVE  Spec => []AnswerIsFresh
<1>1. Init => FreshInv
  BY DEF Init, FreshInv, AnswerIsFresh
<1>2. FreshInv => AnswerIsFresh
  BY DEF FreshInv
<1>3. TypeInv /\ FreshInv /\ [Next]_vars => FreshInv'
  BY FreshStep
<1>4. QED
  BY <1>1, <1>2, <1>3, TypeInvariance, PTL DEF Spec

-----------------------------------------------------------------------------
\* What was loaded at startup and stood on every list since is on the list the file
\* holds, if it holds one, and in the cached set, whichever list that was loaded from.
ListedInv ==
  /\ Readable => listed \subseteq file.serials
  /\ lpc \in {"loaded", "ready", "reload", "lookup", "answered"} => listed \subseteq serials
  /\ lpc \in {"new", "failed"} => listed = {}
  /\ RefusedWhileListed

\* Every step keeps it, however the operator saves and whatever the clock does.
LEMMA ListedStep == TypeInv /\ ListedInv /\ [Next]_vars => ListedInv'
<1> SUFFICES ASSUME TypeInv, ListedInv, [Next]_vars PROVE ListedInv'
  OBVIOUS
<1> USE DEF TypeInv, TypeOK, States, Exists, Readable, ListedInv, RefusedWhileListed, StillListed,
            fileVars, listVars, checkVars, histVars
<1>1. ASSUME NEW list \in SUBSET Serials, Save(list) \/ BeginSave(list) PROVE ListedInv'
  BY <1>1 DEF Save, BeginSave
<1>2. CASE FinishSave
  BY <1>2 DEF FinishSave
<1>3. CASE NewLoad
  BY <1>3 DEF NewLoad
<1>4. CASE NewStat
  BY <1>4 DEF NewStat
<1>5. CASE Restart
  BY <1>5 DEF Restart
<1>6. ASSUME NEW c \in Serials, StatFile(c) PROVE ListedInv'
  BY <1>6 DEF StatFile
<1>7. CASE Reload
  BY <1>7 DEF Reload
<1>8. CASE Lookup
  BY <1>8 DEF Lookup
<1>9. CASE Return
  BY <1>9 DEF Return
<1>10. CASE UNCHANGED vars
  BY <1>10 DEF vars
<1>11. QED
  BY <1>1, <1>2, <1>3, <1>4, <1>5, <1>6, <1>7, <1>8, <1>9, <1>10 DEF Next

\* A serial listed at startup and on every list since is never allowed: for every way
\* of saving, saves during startup and equal mtimes included.
THEOREM ListedStaysRefused == Spec => []RefusedWhileListed
<1>1. Init => ListedInv
  BY DEF Init, ListedInv, RefusedWhileListed
<1>2. ListedInv => RefusedWhileListed
  BY DEF ListedInv
<1>3. QED
  BY <1>1, <1>2, ListedStep, TypeInvariance, PTL DEF Spec
=============================================================================
