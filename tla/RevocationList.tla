---------------------------- MODULE RevocationList ----------------------------
(***************************************************************************)
(* The file-backed denylist (tlsconf.go, RevocationList): the cached set   *)
(* of serials, the stamp (mtime and size) it was loaded under, and the     *)
(* operator who edits the file while the process runs. The mutex makes     *)
(* checks exclude each other, but the stat, the load and the operator's    *)
(* writes are separate steps.                                              *)
(*                                                                         *)
(* A complete list has one line per serial and all lines are equally long, *)
(* so its size is its number of serials.                                   *)
(***************************************************************************)
EXTENDS Naturals, FiniteSets

CONSTANTS
  Serials,       \* certificate serials
  MaxEdits,      \* bound on the number of saves
  CoarseClock,   \* two writes may carry the same mtime
  StartupEdits   \* the operator may save while NewRevocationList runs

ASSUME BoundAssumption == MaxEdits \in Nat
ASSUME FlagsAssumption == CoarseClock \in BOOLEAN /\ StartupEdits \in BOOLEAN
ASSUME SerialsFinite == IsFiniteSet(Serials)

VARIABLES
  file,      \* what it is (absent, garbled, or a list), its serials, mtime, size
  base,      \* the last list the operator saved completely
  target,    \* the list being saved; base when no save is under way
  edits,     \* number of saves begun
  serials,   \* RevocationList.serials
  stamp,     \* RevocationList.modTime and .size
  stat,      \* IsRevoked's local variable fi
  lpc,       \* where the process stands
  asked, answer, \* IsRevoked's argument and result
  untouched, \* history: the file has not changed since this check began
  kept,      \* history: serials in force when the check began, listed and meant to stay
  listed     \* history: serials loaded at startup and in every list the file held since

fileVars == <<file, base, target, edits>>
listVars == <<serials, stamp>>
checkVars == <<stat, asked, answer>>
histVars == <<untouched, kept, listed>>
vars == <<fileVars, listVars, checkVars, lpc, histVars>>

\* The zero time.Time and size of a list whose first stat failed, and no stat.
NoStamp == [mtime |-> 0, size |-> 0]

States == {"new", "loaded", "failed", "ready", "reload", "lookup", "answered"}

Exists == file.is # "absent"     \* os.Stat succeeds
Readable == file.is = "list"     \* LoadRevokedSerials succeeds

Stamp(f) == [mtime |-> f.mtime, size |-> f.size]

\* A write happens now; with a coarse clock now may be the previous mtime.
WriteTimes == IF CoarseClock THEN {file.mtime, file.mtime + 1} ELSE {file.mtime + 1}

Complete(list, t) ==
  [is |-> "list", serials |-> list, mtime |-> t, size |-> Cardinality(list)]

\* What the file may be halfway through a save: moved away; written in place, so that
\* it is empty or holds some of its lines; and of these the last one cut, which does not
\* parse ("0x") or, for normalizeSerial takes any hexadecimal number, names another serial.
Halfway(list, t) ==
  {[is |-> "absent", serials |-> {}, mtime |-> t, size |-> 0],
   [is |-> "garbled", serials |-> {}, mtime |-> t, size |-> 1]} \cup
  {Complete(some, t) : some \in {l \in SUBSET Serials : Cardinality(l \ list) <= 1}}

\* Which of the serials S are in what f can be loaded as, if it can be loaded at all.
StillListed(S, f) == IF f.is = "list" THEN S \cap f.serials ELSE S

Init ==
  /\ base \in SUBSET Serials /\ target = base
  /\ file = Complete(base, 1)
  /\ edits = 0
  /\ serials = {} /\ stamp = NoStamp /\ stat = NoStamp
  /\ lpc = "new"
  /\ asked \in Serials /\ answer = FALSE
  /\ untouched = FALSE /\ kept = {} /\ listed = {}

-----------------------------------------------------------------------------
(* Variants with a slip the code could have made; no specification uses them. *)

\* Only the size is compared.
StatFileSizeOnly(c) ==
  /\ lpc = "ready"
  /\ asked' = c
  /\ stat' = IF Exists THEN Stamp(file) ELSE NoStamp
  /\ lpc' = IF Exists /\ file.size # stamp.size THEN "reload" ELSE "lookup"
  /\ untouched' = TRUE /\ kept' = serials \cap base \cap target
  /\ UNCHANGED <<fileVars, listVars, answer, listed>>

\* A reload that fails installs the empty set.
ReloadFailsOpen ==
  /\ lpc = "reload"
  /\ lpc' = "lookup"
  /\ serials' = IF Readable THEN file.serials ELSE {}
  /\ stamp' = stat
  /\ UNCHANGED <<fileVars, checkVars, histVars>>

-----------------------------------------------------------------------------
(* The operator.                                                           *)

MayEdit == edits < MaxEdits /\ (StartupEdits \/ lpc \notin {"new", "loaded"})

\* A new file is renamed over the old one.
Save(list) ==
  /\ MayEdit /\ target = base
  /\ list # base
  /\ \E t \in WriteTimes : file' = Complete(list, t)
  /\ base' = list /\ target' = list
  /\ edits' = edits + 1
  /\ untouched' = FALSE /\ kept' = kept \cap list /\ listed' = StillListed(listed, file')
  /\ UNCHANGED <<listVars, checkVars, lpc>>

\* Any other way of saving.
BeginSave(list) ==
  /\ MayEdit /\ target = base
  /\ list # base
  /\ \E t \in WriteTimes : file' \in Halfway(list, t)
  /\ target' = list
  /\ edits' = edits + 1
  /\ untouched' = FALSE /\ kept' = kept \cap list /\ listed' = StillListed(listed, file')
  /\ UNCHANGED <<base, listVars, checkVars, lpc>>

FinishSave ==
  /\ target # base
  /\ StartupEdits \/ lpc \notin {"new", "loaded"}
  /\ \E t \in WriteTimes : file' = Complete(target, t)
  /\ base' = target
  /\ untouched' = FALSE /\ listed' = StillListed(listed, file')
  /\ UNCHANGED <<target, edits, listVars, checkVars, lpc, kept>>

-----------------------------------------------------------------------------
(* NewRevocationList: load first, then stat.                               *)

NewLoad ==
  /\ lpc = "new"
  /\ IF Readable
       THEN serials' = file.serials /\ listed' = file.serials /\ lpc' = "loaded"
       ELSE lpc' = "failed" /\ UNCHANGED <<serials, listed>>
  /\ UNCHANGED <<fileVars, stamp, checkVars, untouched, kept>>

NewStat ==
  /\ lpc = "loaded"
  /\ stamp' = IF Exists THEN Stamp(file) ELSE NoStamp
  /\ lpc' = "ready"
  /\ UNCHANGED <<fileVars, serials, checkVars, histVars>>

\* The process stops, at any point, and the service manager starts it again.
Restart ==
  /\ lpc # "new"
  /\ lpc' = "new"
  /\ serials' = {} /\ stamp' = NoStamp /\ stat' = NoStamp
  /\ listed' = {}
  /\ UNCHANGED <<fileVars, asked, answer, untouched, kept>>

-----------------------------------------------------------------------------
(* IsRevoked, under r.mu.                                                  *)

StatFile(c) ==
  /\ lpc = "ready"
  /\ asked' = c
  /\ stat' = IF Exists THEN Stamp(file) ELSE NoStamp
  /\ lpc' = IF Exists /\ Stamp(file) # stamp THEN "reload" ELSE "lookup"
  /\ untouched' = TRUE /\ kept' = serials \cap base \cap target
  /\ UNCHANGED <<fileVars, listVars, answer, listed>>

Reload ==
  /\ lpc = "reload"
  /\ lpc' = "lookup"
  /\ IF Readable
       THEN serials' = file.serials /\ stamp' = stat
       ELSE UNCHANGED listVars
  /\ UNCHANGED <<fileVars, checkVars, histVars>>

Lookup ==
  /\ lpc = "lookup"
  /\ answer' = (asked \in serials)
  /\ lpc' = "answered"
  /\ UNCHANGED <<fileVars, listVars, stat, asked, histVars>>

Return ==
  /\ lpc = "answered"
  /\ lpc' = "ready"
  /\ stat' = NoStamp
  /\ UNCHANGED <<fileVars, listVars, asked, answer, histVars>>

Next ==
  \/ \E list \in SUBSET Serials :
       Save(list) \/ BeginSave(list)
  \/ FinishSave
  \/ NewLoad \/ NewStat \/ Restart
  \/ \E c \in Serials : StatFile(c)
  \/ Reload \/ Lookup \/ Return

Spec == Init /\ [][Next]_vars

-----------------------------------------------------------------------------
\* Types. The stamp never claims to be newer than the file: mtimes only grow.
TypeOK ==
  /\ stamp.mtime <= file.mtime
  /\ file \in [is : {"absent", "garbled", "list"}, serials : SUBSET Serials, mtime : Nat, size : Nat]
  /\ base \in SUBSET Serials /\ target \in SUBSET Serials
  /\ edits \in 0..MaxEdits
  /\ serials \in SUBSET Serials
  /\ stamp \in [mtime : Nat, size : Nat] /\ stat \in [mtime : Nat, size : Nat]
  /\ lpc \in States
  /\ asked \in Serials /\ answer \in BOOLEAN
  /\ untouched \in BOOLEAN /\ kept \in SUBSET Serials /\ listed \in SUBSET Serials

\* If the file lay still from the beginning of a check to its end, the answer is
\* what the file says: a serial listed after startup is refused at the very next
\* check and a serial taken off the list is allowed again (tlsconf.go:116-118).
\* A save that falls between the stat and the load must not be lost.
AnswerIsFresh ==
  lpc = "answered" /\ untouched /\ Readable =>
    (answer <=> asked \in file.serials)

\* A serial that was on the list when the process started, and on every list that could
\* be loaded from the file since, is refused by every check, whatever lay between these
\* lists: a missing file, one that does not parse, or saves between a stat and its load.
RefusedWhileListed == lpc = "answered" /\ asked \in listed => answer

\* What the comment on IsRevoked (tlsconf.go:152-155) says: a file caught in the middle
\* of a save keeps the last good set. A serial that was in force when the check began,
\* and that no save under way means to remove, would then be refused throughout.
KeptThroughSave == lpc = "answered" /\ asked \in kept => answer
=============================================================================
