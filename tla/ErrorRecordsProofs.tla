------------------------- MODULE ErrorRecordsProofs -------------------------
(***************************************************************************)
(* What `diagnose` shows, for any number of shells, instances and commands.*)
(***************************************************************************)
EXTENDS ErrorRecords, TLAPS

Phase == Phases \cup {"resolve", "unknown", "bootstrap"}

Place == {"idle", "work", "record", "point", "failed", "clear", "look", "unpoint"}

Command ==
  [at : Place, op : {None, "up", "destroy", "bootstrap"}, of : Instances \cup {None},
   known : BOOLEAN, alone : BOOLEAN, phase : Phase \cup {None}, key : Keys \cup {None},
   typed : Words \cup {None}, todo : Seq(Keys), stale : SUBSET Files]

\* What a command holds at each place.
Held(c) ==
  /\ c.at # "idle" => c.of \in Instances
  /\ c.at = "work" => c.typed = None
  /\ c.at \in {"record", "point"} => c.key \in Keys
  /\ c.at \in {"record", "point", "failed"} => c.phase \in Phase
  /\ c.at \in {"look", "unpoint"} => c.todo # <<>>

Contents == LaunchErrorContext \cup LastErrorPointer \cup {None}

FilesOK ==
  /\ files \in [Files -> Contents]
  /\ last \in Keys \cup {None}

RowsOK ==
  /\ rows \in [Instances -> Status \cup {None}]
  /\ left \in [Instances -> [phase : Phase, key : Keys \cup {None}] \cup {None}]

CommandsOK ==
  /\ command \in [Shells -> Command]
  /\ \A s \in Shells : Held(command[s])

TypeInv == FilesOK /\ RowsOK /\ CommandsOK

-----------------------------------------------------------------------------
(* Keys                                                                    *)

LEMMA Distinct ==
  /\ None \notin Instances /\ None \notin Words /\ None \notin Keys
  /\ None \notin LaunchErrorContext /\ None \notin LastErrorPointer /\ None \notin Status
  /\ \A i \in Instances : /\ i.provider \in {"docker", "macos"}
                          /\ i.slug \in Words /\ i.dir \in Words
                          /\ Typed[i.dir] \subseteq Words
BY ErrorRecordsAssumption DEF Words

LEMMA KeyOfType == ASSUME NEW i \in Instances PROVE KeyOf(i) \in Keys
BY Distinct DEF KeyOf, dockerErrorKey, macosErrorKey, sourceErrorKey, Keys

LEMMA Paths ==
  LastJson \in Files /\ \A key \in Keys : errorRecordPath(key) \in Files
BY ErrorRecordsAssumption DEF errorRecordPath

\* What there is in a file, and in last.json.
Record(fs, file) == parseLaunchErrorContext(fs[file])
Pointer(fs) == IF fs[LastJson] = None THEN None ELSE fs[LastJson].key

LEMMA Reads ==
  readLastPointer = Pointer(files) /\ \A file : RecordIn(file) = Record(files, file)
BY DEF readLastPointer, Pointer, RecordIn, Record

LEMMA Parsed ==
  /\ \A r \in LaunchErrorContext : parseLaunchErrorContext(r) = r
  /\ \A p \in LastErrorPointer \cup {None} : parseLaunchErrorContext(p) = None
<1>1. ASSUME NEW p \in LastErrorPointer PROVE p \notin LaunchErrorContext
  <2>1. DOMAIN p = {"key"}
    BY DEF LastErrorPointer
  <2>2. \A r \in LaunchErrorContext : "phase" \in DOMAIN r
    BY DEF LaunchErrorContext
  <2> QED BY <2>1, <2>2
<1> QED BY <1>1, Distinct DEF parseLaunchErrorContext

LEMMA RecordType ==
  ASSUME FilesOK, NEW file \in Files
  PROVE  Record(files, file) \in LaunchErrorContext \cup {None}
BY DEF Record, parseLaunchErrorContext

\* A file is written or removed.
LEMMA FileChanged ==
  ASSUME FilesOK, NEW file \in Files, NEW new \in Contents,
         files' = [files EXCEPT ![file] = new]
  PROVE  /\ files' \in [Files -> Contents]
         /\ Record(files', file) = parseLaunchErrorContext(new)
         /\ \A f \in Files \ {file} : Record(files', f) = Record(files, f)
         /\ file # LastJson => Pointer(files') = Pointer(files)
BY Paths DEF FilesOK, Record, Pointer

\* The key under which a failure of the instance is recorded: the one it is
\* looked up under, or, before there is a slug, that of the words typed.
Named(key, i, typed) ==
  IF typed = None THEN key = KeyOf(i)
  ELSE i.provider = "docker" /\ key = dockerErrorKey(None, typed)

LEMMA FailureKey ==
  ASSUME NEW i \in Instances, NEW f \in Failures(i), NEW typed \in TypedFor(i),
         f.err.kind = "launch",
         NEW words, words = IF f.slug = None THEN typed ELSE None
  PROVE  /\ ErrorKey(i, f, typed) \in Keys /\ words \in Words \cup {None}
         /\ Named(ErrorKey(i, f, typed), i, words)
         /\ f.err.phase \in Phase
         /\ words # None => f.err.phase = "resolve"
<1>1. f.err.phase \in Phase
  BY DEF Failures, dockerFailures, macosFailures, Thrown, inPhase, launchErrorFrom, LaunchError,
         Raw, Refusal, UnsuppliedRequiredEnvError, Phase
<1>2. CASE i.provider = "docker"
  <2>1. f.slug \in {None, i.slug} /\ (f.slug = None => f.err.phase = "resolve")
    BY <1>2, Distinct
    DEF Failures, dockerFailures, inPhase, launchErrorFrom, LaunchError, Raw
  <2>2. typed \in Words
    BY <1>2, Distinct DEF TypedFor
  <2> QED BY <1>1, <1>2, <2>1, <2>2, Distinct
          DEF ErrorKey, Named, KeyOf, dockerErrorKey, sourceErrorKey, Keys
<1>3. CASE i.provider # "docker"
  <2>1. f.slug = i.slug
    BY <1>3 DEF Failures, macosFailures
  <2> QED BY <1>1, <1>3, <2>1, Distinct
          DEF ErrorKey, Named, KeyOf, macosErrorKey, sourceErrorKey, Keys
<1> QED BY <1>2, <1>3

LEMMA SupersededType ==
  ASSUME NEW i \in Instances, NEW typed \in TypedFor(i)
  PROVE  SupersededBy(i, typed) \in Seq(Keys)
<1>1. i.provider = "docker" => dockerErrorKey(None, typed) \in Keys
  BY Distinct DEF TypedFor, dockerErrorKey, sourceErrorKey, Keys
<1> QED BY <1>1, KeyOfType DEF SupersededBy

-----------------------------------------------------------------------------
(* The steps                                                               *)

Unmoved(s) == \A t \in Shells \ {s} : command'[t] = command[t]

\* The command goes on.
Same(s) == /\ command'[s].of = command[s].of /\ command'[s].op = command[s].op
           /\ command'[s].known = command[s].known /\ command'[s].alone = command[s].alone

LEMMA Moves ==
  ASSUME CommandsOK, NEW s \in Shells, NEW c \in Command, Held(c),
         command' = [command EXCEPT ![s] = c]
  PROVE  CommandsOK' /\ command'[s] = c /\ Unmoved(s)
BY DEF CommandsOK, Unmoved

LEMMA IdleType == Idle \in Command /\ Held(Idle)
BY DEF Idle, Command, Held, Place

LEMMA TypeInit == Init => TypeInv
BY IdleType DEF Init, TypeInv, FilesOK, Contents, RowsOK, CommandsOK
\* A command ends, or is killed.
Quits(s) ==
  /\ Unmoved(s) /\ Busy(s) /\ command'[s].at = "idle"
  /\ UNCHANGED <<files, last, rows, left>>
  /\ command[s].at \in {"look", "unpoint"} => "half" \in odd'

Begins(s, i) ==
  /\ ~Busy(s) /\ command'[s].at = "work" /\ command'[s].of = i
  /\ command'[s].known = (rows[i] # None)
  /\ command'[s].alone = (Others(s, i) = {})
  /\ \A t \in Shells \ {s} :
       /\ t \notin Others(s, i) => command'[t] = command[t]
       /\ t \in Others(s, i) => command'[t] = [command[t] EXCEPT !.alone = FALSE]
  /\ left' = [left EXCEPT ![i] = None]
  /\ UNCHANGED <<files, last, rows, odd>>

\* A launch or a bootstrap has failed and is about to be recorded.
Reports(s) ==
  /\ Unmoved(s) /\ Same(s) /\ command[s].at = "work" /\ command'[s].at = "record"
  /\ Named(command'[s].key, command[s].of, command'[s].typed)
  /\ command'[s].typed # None => command'[s].phase = "resolve"
  /\ UNCHANGED <<files, last, rows, left>>
  /\ Overlapping(command') => "overlap" \in odd'

\* A record is in the file of its key, where its instance or its words are
\* looked for.
Right(file, r) == errorRecordPath(r.key) = file /\ Named(r.key, r.of, r.typed)

\* The files of the keys to clear.
Ahead(todo) == {errorRecordPath(key) : key \in Range(todo)}

\* An `up` or a destroy has succeeded and is about to clear what it supersedes.
Clears(s) ==
  /\ Unmoved(s) /\ Same(s) /\ command[s].at = "work" /\ command'[s].at = "clear"
  /\ \A file \in command'[s].stale :
       /\ Record(files, file) # None
       /\ Right(file, Record(files, file)) => file \in Ahead(command'[s].todo)
  /\ \A i \in Instances : i # command[s].of => rows'[i] = rows[i]
  /\ command[s].op = "up" => UNCHANGED rows
  /\ UNCHANGED <<files, last, left>>
  /\ Overlapping(command') => "overlap" \in odd'

LEMMA LeaveKind ==
  ASSUME TypeInv, NEW s \in Shells, Busy(s), command' = [command EXCEPT ![s] = Idle],
         command[s].at \in {"look", "unpoint"} => "half" \in odd',
         UNCHANGED <<files, rows, last, left>>
  PROVE  TypeInv' /\ Quits(s)
<1>1. CommandsOK' /\ command'[s] = Idle /\ Unmoved(s)
  BY IdleType, Moves DEF TypeInv
<1> QED BY <1>1 DEF TypeInv, FilesOK, RowsOK, Quits, Idle

LEMMA BeginKind ==
  ASSUME TypeInv, NEW s \in Shells, NEW i \in Instances, NEW op \in {"up", "destroy", "bootstrap"},
         Begin(s, op, i)
  PROVE  TypeInv' /\ Begins(s, i)
<1>1. PICK c : c = Begun(s, op, i)
  OBVIOUS
<1>2. PICK k \in BOOLEAN, a \in BOOLEAN : k = (rows[i] # None) /\ a = (Others(s, i) = {})
  BY Zenon
<1>3. c = [Idle EXCEPT !.at = "work", !.op = op, !.of = i, !.known = k, !.alone = a]
  BY <1>1, <1>2 DEF Begun
<1>4. /\ c \in Command /\ Held(c) /\ c.at = "work" /\ c.of = i /\ c.known = k
      /\ c.alone = a
  <2>1. c = [at |-> "work", op |-> op, of |-> i, known |-> k, alone |-> a,
             phase |-> None, key |-> None, typed |-> None, todo |-> <<>>, stale |-> {}]
    BY <1>3 DEF Idle
  <2>2. c.at = "work" /\ c.of = i /\ c.known = k /\ c.alone = a /\ c.typed = None
    BY <2>1
  <2>3. c \in Command
    BY <2>1 DEF Command, Place
  <2> QED BY <2>2, <2>3 DEF Held
<1>5. command' = [t \in Shells |->
                   IF t = s THEN c
                   ELSE IF t \in Others(s, i) THEN [command[t] EXCEPT !.alone = FALSE]
                   ELSE command[t]]
  BY <1>1 DEF Begin
<1>6. ASSUME NEW t \in Shells
      PROVE  /\ [command[t] EXCEPT !.alone = FALSE] \in Command
             /\ Held([command[t] EXCEPT !.alone = FALSE])
  <2>1. command[t] \in Command /\ Held(command[t])
    BY DEF TypeInv, CommandsOK
  <2>2. PICK d : d = [command[t] EXCEPT !.alone = FALSE]
    OBVIOUS
  <2>3. d \in Command
    BY <2>1, <2>2 DEF Command
  <2>4. Held(d)
    BY <2>1, <2>2 DEF Command, Held
  <2> QED BY <2>2, <2>3, <2>4
<1>7. CommandsOK'
  BY <1>4, <1>5, <1>6 DEF TypeInv, CommandsOK
<1>8. FilesOK' /\ RowsOK'
  BY DEF TypeInv, FilesOK, RowsOK, Begin
<1>9. Begins(s, i)
  <2>1. /\ ~Busy(s) /\ left' = [left EXCEPT ![i] = None]
        /\ UNCHANGED <<files, last, rows, odd>>
    BY DEF Begin
  <2>2. command'[s] = c
    BY <1>5
  <2>3. \A t \in Shells \ {s} :
          /\ t \notin Others(s, i) => command'[t] = command[t]
          /\ t \in Others(s, i) => command'[t] = [command[t] EXCEPT !.alone = FALSE]
    BY <1>5
  <2>4. command'[s].known = (rows[i] # None) /\ command'[s].alone = (Others(s, i) = {})
    BY <1>2, <1>4, <2>2, Zenon
  <2> QED BY <1>4, <2>1, <2>2, <2>3, <2>4 DEF Begins
<1> QED BY <1>7, <1>8, <1>9 DEF TypeInv

LEMMA ReportKind ==
  ASSUME TypeInv, NEW s \in Shells, command[s].at = "work",
         NEW phase \in Phase, NEW key \in Keys, NEW typed \in Words \cup {None},
         Named(key, command[s].of, typed), typed # None => phase = "resolve",
         NEW d, d = [command[s] EXCEPT !.at = "record", !.phase = phase, !.key = key,
                                       !.typed = typed],
         Step(s, d), UNCHANGED <<files, rows, last, left>>
  PROVE  TypeInv' /\ Reports(s)
<1>1. command[s] \in Command /\ Held(command[s])
  BY DEF TypeInv, CommandsOK
<1>2. d \in Command /\ Held(d)
  BY <1>1 DEF Command, Held, Place
<1>3. CommandsOK' /\ command'[s] = d /\ Unmoved(s)
  BY <1>2, Moves DEF Step, TypeInv
<1>4. /\ d.at = "record" /\ d.key = key /\ d.typed = typed /\ d.phase = phase
      /\ d.of = command[s].of /\ d.op = command[s].op /\ d.known = command[s].known
      /\ d.alone = command[s].alone
  BY <1>1 DEF Command
<1>5. Overlapping(command') => "overlap" \in odd'
  BY DEF Step
<1>6. FilesOK' /\ RowsOK'
  BY DEF TypeInv, FilesOK, RowsOK
<1> QED BY <1>3, <1>4, <1>5, <1>6 DEF TypeInv, Reports, Same

LEMMA ClearKind ==
  ASSUME TypeInv, NEW s \in Shells, command[s].at = "work",
         NEW todo \in Seq(Keys), NEW stale \in SUBSET Files,
         NEW d, d = [command[s] EXCEPT !.at = "clear", !.todo = todo, !.stale = stale],
         \A file \in stale : /\ Record(files, file) # None
                             /\ Right(file, Record(files, file)) => file \in Ahead(todo),
         RowsOK', \A i \in Instances : i # command[s].of => rows'[i] = rows[i],
         command[s].op = "up" => UNCHANGED rows,
         Step(s, d), UNCHANGED <<files, last, left>>
  PROVE  TypeInv' /\ Clears(s)
<1>1. command[s] \in Command /\ Held(command[s])
  BY DEF TypeInv, CommandsOK
<1>2. d \in Command /\ Held(d)
  BY <1>1 DEF Command, Held, Place
<1>3. CommandsOK' /\ command'[s] = d /\ Unmoved(s)
  BY <1>2, Moves DEF Step, TypeInv
<1>4. /\ d.at = "clear" /\ d.todo = todo /\ d.stale = stale
      /\ d.of = command[s].of /\ d.op = command[s].op /\ d.known = command[s].known
      /\ d.alone = command[s].alone
  BY <1>1 DEF Command
<1>5. Overlapping(command') => "overlap" \in odd'
  BY DEF Step
<1>6. FilesOK'
  BY DEF TypeInv, FilesOK
<1> QED BY <1>3, <1>4, <1>5, <1>6 DEF TypeInv, Clears, Same

-----------------------------------------------------------------------------
LEMMA UpFailsKind ==
  ASSUME TypeInv, NEW s \in Shells, UpFails(s) PROVE TypeInv' /\ (Quits(s) \/ Reports(s))
<1>1. /\ command[s].at = "work" /\ command[s].of \in Instances /\ Busy(s)
      /\ UNCHANGED <<files, rows, last, left>>
  BY DEF UpFails, At, Busy, TypeInv, CommandsOK, Held
<1>2. CASE Leave(s)
  BY <1>1, <1>2, LeaveKind DEF Leave
<1>3. ASSUME NEW f \in Failures(command[s].of), NEW typed \in TypedFor(command[s].of),
             f.err.kind = "launch",
             Step(s, [command[s] EXCEPT !.at = "record", !.phase = f.err.phase,
                                        !.key = ErrorKey(command[s].of, f, typed),
                                        !.typed = IF f.slug = None THEN typed ELSE None])
      PROVE  TypeInv' /\ Reports(s)
  <2>1. PICK i \in Instances : i = command[s].of
    BY <1>1
  <2>2. PICK words : words = IF f.slug = None THEN typed ELSE None
    OBVIOUS
  <2>3. PICK key : key = ErrorKey(i, f, typed)
    OBVIOUS
  <2>4. PICK phase : phase = f.err.phase
    OBVIOUS
  <2>5. /\ key \in Keys /\ words \in Words \cup {None} /\ Named(key, i, words)
        /\ phase \in Phase /\ (words # None => phase = "resolve")
    BY <1>3, <2>1, <2>2, <2>3, <2>4, FailureKey
  <2>6. PICK d : d = [command[s] EXCEPT !.at = "record", !.phase = phase, !.key = key,
                                        !.typed = words]
    OBVIOUS
  <2>7. Step(s, d)
    BY <1>3, <2>1, <2>2, <2>3, <2>4, <2>6
  <2> QED BY <1>1, <2>1, <2>5, <2>6, <2>7, ReportKind
<1> QED BY <1>2, <1>3, Zenon DEF UpFails

LEMMA BootstrapFailsKind ==
  ASSUME TypeInv, NEW s \in Shells, BootstrapFails(s) PROVE TypeInv' /\ Reports(s)
<1>1. /\ command[s].at = "work" /\ command[s] \in Command /\ command[s].typed = None
      /\ UNCHANGED <<files, rows, last, left>>
  BY DEF BootstrapFails, At, TypeInv, CommandsOK, Held
<1>2. PICK i \in Instances : i = command[s].of
  BY <1>1 DEF TypeInv, CommandsOK, Held
<1>3. PICK d : d = [command[s] EXCEPT !.at = "record", !.phase = "bootstrap",
                                      !.key = KeyOf(i), !.typed = None]
  OBVIOUS
<1>4. Step(s, d)
  BY <1>1, <1>2, <1>3 DEF BootstrapFails, Command
<1> QED BY <1>1, <1>2, <1>3, <1>4, KeyOfType, ReportKind DEF Named, Phase
LEMMA UpSucceedsKind ==
  ASSUME TypeInv, NEW s \in Shells, UpSucceeds(s) PROVE TypeInv' /\ (Quits(s) \/ Clears(s))
<1>1. /\ command[s].at = "work" /\ command[s].of \in Instances /\ Busy(s)
      /\ UNCHANGED <<files, rows, last, left>>
  BY DEF UpSucceeds, At, Busy, TypeInv, CommandsOK, Held
<1>2. CASE Leave(s)
  BY <1>1, <1>2, LeaveKind DEF Leave
<1>3. ASSUME NEW typed \in TypedFor(command[s].of),
             Step(s, [command[s] EXCEPT !.at = "clear",
                                        !.todo = SupersededBy(command[s].of, typed),
                                        !.stale = StaleFor("up", command[s].of, typed)])
      PROVE  TypeInv' /\ Clears(s)
  <2>1. PICK i \in Instances : i = command[s].of
    BY <1>1
  <2>2. PICK todo : todo = SupersededBy(i, typed)
    OBVIOUS
  <2>3. PICK stale : stale = StaleFor("up", i, typed)
    OBVIOUS
  <2>4. PICK d : d = [command[s] EXCEPT !.at = "clear", !.todo = todo, !.stale = stale]
    OBVIOUS
  <2>5. Step(s, d)
    BY <1>3, <2>1, <2>2, <2>3, <2>4
  <2>6. todo \in Seq(Keys) /\ stale \in SUBSET Files
    BY <1>3, <2>1, <2>2, <2>3, SupersededType DEF StaleFor
  <2>7. ASSUME NEW file \in stale
        PROVE  /\ Record(files, file) # None
               /\ Right(file, Record(files, file)) => file \in Ahead(todo)
    <3>1. PICK r : r = Record(files, file)
      OBVIOUS
    <3>2. r # None /\ r.of = i /\ (r.typed # None => r.typed = typed)
      BY <2>3, <2>7, <3>1, Reads DEF StaleFor
    <3>3. CASE i.provider = "docker"
      <4>1. todo = <<KeyOf(i), dockerErrorKey(None, typed)>>
        BY <2>2, <3>3 DEF SupersededBy
      <4>2. Range(todo) = {KeyOf(i), dockerErrorKey(None, typed)}
        BY <4>1 DEF Range
      <4>3. Named(r.key, r.of, r.typed) => r.key \in Range(todo)
        BY <3>2, <4>2 DEF Named
      <4> QED BY <3>1, <3>2, <4>3 DEF Right, Ahead
    <3>4. CASE i.provider # "docker"
      <4>1. todo = <<KeyOf(i)>>
        BY <2>2, <3>4 DEF SupersededBy
      <4>2. Range(todo) = {KeyOf(i)}
        BY <4>1 DEF Range
      <4>3. Named(r.key, r.of, r.typed) => r.key \in Range(todo)
        BY <3>2, <3>4, <4>2 DEF Named
      <4> QED BY <3>1, <3>2, <4>3 DEF Right, Ahead
    <3> QED BY <3>3, <3>4
  <2>8. RowsOK'
    BY <1>1 DEF TypeInv, RowsOK
  <2> QED BY <1>1, <2>4, <2>5, <2>6, <2>7, <2>8, ClearKind
<1> QED BY <1>2, <1>3, Zenon DEF UpSucceeds

LEMMA DestroySucceedsKind ==
  ASSUME TypeInv, NEW s \in Shells, DestroySucceeds(s) PROVE TypeInv' /\ Clears(s)
<1>1. /\ command[s].at = "work" /\ command[s].op = "destroy"
      /\ UNCHANGED <<files, last, left>>
  BY DEF DestroySucceeds, At
<1>2. PICK i \in Instances : i = command[s].of
  BY <1>1 DEF TypeInv, CommandsOK, Held
<1>3. PICK stale : stale = StaleFor("destroy", i, None)
  OBVIOUS
<1>4. PICK todo : todo = <<KeyOf(i)>>
  OBVIOUS
<1>5. PICK d : d = [command[s] EXCEPT !.at = "clear", !.todo = todo, !.stale = stale]
  OBVIOUS
<1>6. Step(s, d)
  BY <1>2, <1>3, <1>4, <1>5 DEF DestroySucceeds
<1>7. todo \in Seq(Keys) /\ stale \in SUBSET Files /\ Range(todo) = {KeyOf(i)}
  BY <1>3, <1>4, KeyOfType DEF StaleFor, Range
<1>8. ASSUME NEW file \in stale
      PROVE  /\ Record(files, file) # None
             /\ Right(file, Record(files, file)) => file \in Ahead(todo)
  <2>1. PICK r : r = Record(files, file)
    OBVIOUS
  <2>2. r # None /\ r.of = i /\ r.typed = None
    BY <1>3, <1>8, <2>1, Reads DEF StaleFor
  <2>3. Named(r.key, r.of, r.typed) => r.key \in Range(todo)
    BY <1>7, <2>2 DEF Named
  <2> QED BY <2>1, <2>2, <2>3 DEF Right, Ahead
<1>9. rows' = [rows EXCEPT ![i] = None]
  BY <1>2 DEF DestroySucceeds
<1>10. RowsOK' /\ \A j \in Instances : j # i => rows'[j] = rows[j]
  BY <1>1, <1>9 DEF TypeInv, RowsOK
<1> QED BY <1>1, <1>2, <1>5, <1>6, <1>7, <1>8, <1>10, ClearKind

-----------------------------------------------------------------------------
(* The files                                                               *)

Keeps(s) == /\ command'[s].key = command[s].key /\ command'[s].phase = command[s].phase
            /\ command'[s].typed = command[s].typed /\ command'[s].todo = command[s].todo
            /\ command'[s].stale = command[s].stale

LEMMA GotoKind ==
  ASSUME TypeInv, NEW s \in Shells, NEW at \in Place, Goto(s, at),
         Held([command[s] EXCEPT !.at = at])
  PROVE  CommandsOK' /\ Unmoved(s) /\ Same(s) /\ Keeps(s) /\ command'[s].at = at
<1>1. PICK d : d = [command[s] EXCEPT !.at = at]
  OBVIOUS
<1>2. command[s] \in Command /\ command' = [command EXCEPT ![s] = d]
  BY <1>1 DEF Goto, TypeInv, CommandsOK
<1>3. d \in Command
  BY <1>1, <1>2 DEF Command
<1>4. CommandsOK' /\ Unmoved(s) /\ command'[s] = d
  BY <1>1, <1>2, <1>3, Moves DEF TypeInv
<1> QED BY <1>1, <1>2, <1>4 DEF Same, Keeps, Command

\* A record is put into a file, or what there is in it goes.
Puts(file, r) ==
  /\ Record(files', file) = r
  /\ \A f \in Files \ {file} : Record(files', f) = Record(files, f)
  /\ file # LastJson => Pointer(files') = Pointer(files)

LEMMA WriteRecordKind ==
  ASSUME TypeInv, NEW s \in Shells, WriteRecord(s)
  PROVE  /\ TypeInv' /\ Unmoved(s) /\ Same(s) /\ Keeps(s)
         /\ command[s].at = "record" /\ command'[s].at = "point"
         /\ command[s].key \in Keys
         /\ buildLaunchErrorContext(command[s]) \in LaunchErrorContext
         /\ Puts(errorRecordPath(command[s].key), buildLaunchErrorContext(command[s]))
         /\ Clash(s, command[s].key) \subseteq odd'
         /\ UNCHANGED <<rows, last, left>>
<1>1. /\ command[s] \in Command /\ Held(command[s]) /\ command[s].at = "record"
      /\ Goto(s, "point") /\ UNCHANGED <<rows, last, left>>
      /\ files' = [files EXCEPT ![errorRecordPath(command[s].key)] =
                              buildLaunchErrorContext(command[s])]
      /\ Clash(s, command[s].key) \subseteq odd'
  BY DEF WriteRecord, TypeInv, CommandsOK
<1>2. Held([command[s] EXCEPT !.at = "point"])
  BY <1>1 DEF Held, Command
<1>3. CommandsOK' /\ Unmoved(s) /\ Same(s) /\ Keeps(s) /\ command'[s].at = "point"
  BY <1>1, <1>2, GotoKind DEF Place
<1>4. /\ command[s].key \in Keys
      /\ buildLaunchErrorContext(command[s]) \in LaunchErrorContext
  BY <1>1 DEF Held, Command, buildLaunchErrorContext, LaunchErrorContext, Phase
<1>5. /\ files' \in [Files -> Contents]
      /\ Puts(errorRecordPath(command[s].key), buildLaunchErrorContext(command[s]))
  BY <1>1, <1>4, FileChanged, Paths, Parsed DEF TypeInv, Contents, Puts
<1>6. FilesOK' /\ RowsOK'
  BY <1>1, <1>5 DEF TypeInv, FilesOK, RowsOK
<1> QED BY <1>1, <1>3, <1>4, <1>5, <1>6 DEF TypeInv

LEMMA WritePointerKind ==
  ASSUME TypeInv, NEW s \in Shells, WritePointer(s)
  PROVE  /\ TypeInv' /\ Unmoved(s) /\ Same(s) /\ Keeps(s)
         /\ command[s].at = "point" /\ command'[s].at = "failed" /\ command[s].key \in Keys
         /\ Puts(LastJson, None) /\ Pointer(files') = command[s].key
         /\ last' = command[s].key /\ UNCHANGED <<rows, left>>
<1>1. /\ command[s] \in Command /\ Held(command[s]) /\ command[s].at = "point"
      /\ Goto(s, "failed") /\ UNCHANGED <<rows, left>>
      /\ files' = [files EXCEPT ![LastJson] = [key |-> command[s].key]]
      /\ last' = command[s].key
  BY DEF WritePointer, TypeInv, CommandsOK
<1>2. Held([command[s] EXCEPT !.at = "failed"])
  BY <1>1 DEF Held, Command
<1>3. CommandsOK' /\ Unmoved(s) /\ Same(s) /\ Keeps(s) /\ command'[s].at = "failed"
  BY <1>1, <1>2, GotoKind DEF Place
<1>4. PICK new : new = [key |-> command[s].key]
  OBVIOUS
<1>5. command[s].key \in Keys /\ new \in LastErrorPointer /\ new.key = command[s].key
  BY <1>1, <1>4 DEF Held, LastErrorPointer
<1>6. files' \in [Files -> Contents] /\ Puts(LastJson, None)
  BY <1>1, <1>4, <1>5, FileChanged, Paths, Parsed DEF TypeInv, Contents, Puts
<1>7. Pointer(files') = command[s].key
  BY <1>1, <1>4, <1>5, Paths, Distinct DEF TypeInv, FilesOK, Pointer
<1>8. FilesOK' /\ RowsOK'
  BY <1>1, <1>5, <1>6 DEF TypeInv, FilesOK, RowsOK
<1> QED BY <1>1, <1>3, <1>5, <1>6, <1>7, <1>8 DEF TypeInv

LEMMA WriteFailsKind ==
  ASSUME TypeInv, NEW s \in Shells, WriteFails(s)
  PROVE  /\ TypeInv' /\ Unmoved(s) /\ Same(s) /\ command'[s].at = "failed"
         /\ command'[s].key = None
         /\ UNCHANGED <<files, rows, last, left>>
<1>1. /\ command[s] \in Command /\ Held(command[s]) /\ command[s].at \in {"record", "point"}
      /\ UNCHANGED <<files, rows, last, left>>
  BY DEF WriteFails, TypeInv, CommandsOK
<1>2. PICK d : d = [command[s] EXCEPT !.at = "failed", !.key = None]
  OBVIOUS
<1>3. command' = [command EXCEPT ![s] = d]
  BY <1>2 DEF WriteFails, Step
<1>4. /\ d \in Command /\ d.at = "failed" /\ d.key = None /\ d.phase = command[s].phase
      /\ d.of = command[s].of /\ d.op = command[s].op /\ d.known = command[s].known
      /\ d.alone = command[s].alone
  BY <1>1, <1>2 DEF Command, Place
<1>5. Held(d)
  BY <1>1, <1>4 DEF Held
<1>6. CommandsOK' /\ command'[s] = d /\ Unmoved(s)
  BY <1>3, <1>4, <1>5, Moves DEF TypeInv
<1> QED BY <1>1, <1>4, <1>6 DEF TypeInv, FilesOK, RowsOK, Same
LEMMA FailedRow ==
  ASSUME NEW i \in Instances, NEW phase
  PROVE  /\ FailedStatus(i, phase) \in {"unhealthy", "unknown", None}
         /\ phase \in {"run", "health"} => FailedStatus(i, phase) # None
BY Distinct DEF FailedStatus, failedDeploymentStatus, macosFailedDeploymentStatus, Status

LEMMA RegisteredType ==
  ASSUME RowsOK, NEW c, c.of \in Instances, NEW status \in Status
  PROVE  /\ Registered(c, status) \in [Instances -> Status \cup {None}]
         /\ \A i \in Instances : i # c.of => Registered(c, status)[i] = rows[i]
         /\ Registered(c, status)[c.of] \in {status, rows[c.of]}
         /\ (c.known => rows[c.of] # None) => Registered(c, status)[c.of] = status
BY DEF Registered, RowsOK

\* A command ends with what it does to the row.
Ends(s) ==
  /\ Unmoved(s) /\ Busy(s) /\ command'[s].at = "idle"
  /\ command[s].at \notin {"look", "unpoint"}
  /\ UNCHANGED <<files, last>>
  /\ \A i \in Instances : i # command[s].of => rows'[i] = rows[i] /\ left'[i] = left[i]
  /\ rows'[command[s].of] = None => rows[command[s].of] = None

LEMMA RecordFailureKind ==
  ASSUME TypeInv, NEW s \in Shells, RecordFailure(s)
  PROVE  /\ TypeInv' /\ Ends(s)
         /\ left'[command[s].of] # left[command[s].of] =>
              /\ command[s].at = "failed" /\ command[s].alone
              /\ command[s].phase \in {"run", "health"} /\ command[s].op = "up"
              /\ left'[command[s].of] = [phase |-> command[s].phase, key |-> command[s].key]
              /\ (command[s].known => rows[command[s].of] # None)
                   => rows'[command[s].of] \in {"unhealthy", "unknown"}
<1>1. /\ command[s] \in Command /\ Held(command[s]) /\ command[s].at = "failed"
      /\ command' = [command EXCEPT ![s] = Idle]
      /\ UNCHANGED <<files, last>>
  BY DEF RecordFailure, Leave, TypeInv, CommandsOK
<1>2. PICK i \in Instances : i = command[s].of
  BY <1>1 DEF Held
<1>3. CommandsOK' /\ Unmoved(s) /\ command'[s] = Idle
  BY <1>1, IdleType, Moves DEF TypeInv
<1>4. PICK status : status = FailedStatus(i, command[s].phase)
  OBVIOUS
<1>5. status \in {"unhealthy", "unknown", None}
      /\ (command[s].phase \in {"run", "health"} => status # None)
  BY <1>4, FailedRow
<1>6. PICK e : e = [phase |-> command[s].phase, key |-> command[s].key]
  OBVIOUS
<1>7. e \in [phase : Phase, key : Keys \cup {None}]
  BY <1>1, <1>6 DEF Held, Command
<1>8. \/ /\ command[s].op = "up"
         /\ rows' = IF status # None THEN Registered(command[s], status) ELSE rows
         /\ left' = IF command[s].alone /\ command[s].phase \in {"run", "health"}
                    THEN [left EXCEPT ![i] = e] ELSE left
      \/ UNCHANGED <<rows, left>>
  BY <1>2, <1>4, <1>6 DEF RecordFailure
<1>9. status # None =>
        /\ Registered(command[s], status) \in [Instances -> Status \cup {None}]
        /\ \A j \in Instances : j # i => Registered(command[s], status)[j] = rows[j]
        /\ Registered(command[s], status)[i] \in {status, rows[i]}
        /\ (command[s].known => rows[i] # None) => Registered(command[s], status)[i] = status
  BY <1>2, <1>5, RegisteredType DEF TypeInv, Status
<1>10. RowsOK' /\ \A j \in Instances : j # i => rows'[j] = rows[j] /\ left'[j] = left[j]
  BY <1>7, <1>8, <1>9 DEF TypeInv, RowsOK
<1>11. rows'[i] = None => rows[i] = None
  BY <1>8, <1>9
<1>12. left'[i] # left[i] =>
         /\ command[s].alone /\ command[s].phase \in {"run", "health"}
         /\ command[s].op = "up" /\ left'[i] = e
         /\ (command[s].known => rows[i] # None) => rows'[i] \in {"unhealthy", "unknown"}
  <2> SUFFICES ASSUME left'[i] # left[i]
               PROVE  /\ command[s].alone /\ command[s].phase \in {"run", "health"}
                      /\ command[s].op = "up" /\ left'[i] = e
                      /\ (command[s].known => rows[i] # None)
                           => rows'[i] \in {"unhealthy", "unknown"}
    OBVIOUS
  <2>1. /\ command[s].op = "up" /\ command[s].alone /\ command[s].phase \in {"run", "health"}
        /\ left' = [left EXCEPT ![i] = e] /\ status # None
        /\ rows' = Registered(command[s], status)
    BY <1>5, <1>8
  <2>2. left'[i] = e
    BY <2>1 DEF TypeInv, RowsOK
  <2> QED BY <1>5, <1>9, <2>1, <2>2
<1> QED BY <1>1, <1>2, <1>3, <1>6, <1>10, <1>11, <1>12
        DEF TypeInv, FilesOK, Ends, Busy, Idle

LEMMA ClearedKind ==
  ASSUME TypeInv, NEW s \in Shells, Cleared(s)
  PROVE  TypeInv' /\ Ends(s) /\ UNCHANGED left /\ command[s].at = "clear"
<1>1. /\ command[s] \in Command /\ Held(command[s]) /\ command[s].at = "clear"
      /\ command' = [command EXCEPT ![s] = Idle]
      /\ UNCHANGED <<files, last, left>>
  BY DEF Cleared, AllCleared, Leave, TypeInv, CommandsOK
<1>2. PICK i \in Instances : i = command[s].of
  BY <1>1 DEF Held
<1>3. CommandsOK' /\ Unmoved(s) /\ command'[s] = Idle
  BY <1>1, IdleType, Moves DEF TypeInv
<1>4. rows' = Registered(command[s], "up") \/ UNCHANGED rows
  BY DEF Cleared
<1>5. /\ Registered(command[s], "up") \in [Instances -> Status \cup {None}]
      /\ \A j \in Instances : j # i => Registered(command[s], "up")[j] = rows[j]
      /\ Registered(command[s], "up")[i] \in {"up", rows[i]}
  BY <1>2, RegisteredType DEF TypeInv, Status
<1>6. RowsOK' /\ \A j \in Instances : j # i => rows'[j] = rows[j]
  BY <1>1, <1>4, <1>5 DEF TypeInv, RowsOK
<1>7. rows'[i] = None => rows[i] = None
  BY <1>4, <1>5, Distinct DEF Status
<1> QED BY <1>1, <1>2, <1>3, <1>6, <1>7 DEF TypeInv, FilesOK, Ends, Busy, Idle

LEMMA RemoveRecordKind ==
  ASSUME TypeInv, NEW s \in Shells, RemoveRecord(s)
  PROVE  /\ TypeInv' /\ Unmoved(s) /\ Same(s) /\ Keeps(s)
         /\ command[s].at = "clear" /\ command'[s].at = "look"
         /\ command[s].todo \in Seq(Keys) /\ command[s].todo # <<>>
         /\ Head(command[s].todo) \in Keys
         /\ Puts(errorRecordPath(Head(command[s].todo)), None)
         /\ last' = IF last = Head(command[s].todo) THEN None ELSE last
         /\ Clash(s, Head(command[s].todo)) \subseteq odd'
         /\ UNCHANGED <<rows, left>>
<1>1. /\ command[s] \in Command /\ command[s].todo # <<>> /\ command[s].at = "clear"
      /\ Held(command[s]) /\ Goto(s, "look") /\ UNCHANGED <<rows, left>>
      /\ files' = [files EXCEPT ![errorRecordPath(Head(command[s].todo))] = None]
      /\ last' = IF last = Head(command[s].todo) THEN None ELSE last
      /\ Clash(s, Head(command[s].todo)) \subseteq odd'
  BY DEF RemoveRecord, TypeInv, CommandsOK
<1>2. Held([command[s] EXCEPT !.at = "look"])
  BY <1>1 DEF Held, Command
<1>3. CommandsOK' /\ Unmoved(s) /\ Same(s) /\ Keeps(s) /\ command'[s].at = "look"
  BY <1>1, <1>2, GotoKind DEF Place
<1>4. command[s].todo \in Seq(Keys) /\ Head(command[s].todo) \in Keys
  BY <1>1 DEF Command
<1>5. files' \in [Files -> Contents] /\ Puts(errorRecordPath(Head(command[s].todo)), None)
  BY <1>1, <1>4, FileChanged, Paths, Parsed DEF TypeInv, Contents, Puts
<1>6. FilesOK' /\ RowsOK'
  BY <1>1, <1>4, <1>5 DEF TypeInv, FilesOK, RowsOK
<1> QED BY <1>1, <1>3, <1>4, <1>5, <1>6 DEF TypeInv

\* The first key is dealt with.
Proceeds(s) == /\ Same(s) /\ command'[s].at = "clear" /\ command[s].todo \in Seq(Keys)
               /\ command[s].todo # <<>> /\ command'[s].todo = Tail(command[s].todo)
               /\ command'[s].stale = command[s].stale
               /\ Overlapping(command') => "overlap" \in odd'

LEMMA ProceedKind ==
  ASSUME TypeInv, NEW s \in Shells, command[s].at \in {"look", "unpoint"},
         Step(s, [command[s] EXCEPT !.at = "clear", !.todo = Tail(command[s].todo)])
  PROVE  CommandsOK' /\ Unmoved(s) /\ Proceeds(s)
<1>1. command[s] \in Command /\ Held(command[s])
  BY DEF TypeInv, CommandsOK
<1>2. PICK d : d = [command[s] EXCEPT !.at = "clear", !.todo = Tail(command[s].todo)]
  OBVIOUS
<1>3. command[s].todo \in Seq(Keys) /\ command[s].todo # <<>>
  BY <1>1 DEF Command, Held
<1>4. Tail(command[s].todo) \in Seq(Keys)
  BY <1>3
<1>5. d \in Command /\ d.at = "clear" /\ d.of = command[s].of
  BY <1>1, <1>2, <1>4 DEF Command, Place
<1>6. Held(d)
  BY <1>1, <1>5 DEF Held
<1>7. command' = [command EXCEPT ![s] = d] /\ (Overlapping(command') => "overlap" \in odd')
  BY <1>2 DEF Step
<1>8. CommandsOK' /\ command'[s] = d /\ Unmoved(s)
  BY <1>5, <1>6, <1>7, Moves DEF TypeInv
<1>9. /\ d.op = command[s].op /\ d.known = command[s].known
      /\ d.alone = command[s].alone /\ d.stale = command[s].stale
      /\ d.todo = Tail(command[s].todo)
  BY <1>1, <1>2 DEF Command
<1> QED BY <1>3, <1>5, <1>7, <1>8, <1>9 DEF Proceeds, Same

LEMMA ReadPointerKind ==
  ASSUME TypeInv, NEW s \in Shells, ReadPointer(s)
  PROVE  /\ TypeInv' /\ Unmoved(s) /\ command[s].at = "look" /\ command[s].todo # <<>>
         /\ UNCHANGED <<files, rows, last, left>>
         /\ \/ /\ Same(s) /\ Keeps(s) /\ command'[s].at = "unpoint"
               /\ Pointer(files) = Head(command[s].todo)
            \/ Proceeds(s) /\ Pointer(files) # Head(command[s].todo)
<1>1. /\ command[s].at = "look" /\ UNCHANGED <<files, rows, last, left>>
      /\ command[s] \in Command /\ Held(command[s])
  BY DEF ReadPointer, TypeInv, CommandsOK
<1>2. FilesOK' /\ RowsOK'
  BY <1>1 DEF TypeInv, FilesOK, RowsOK
<1>3. CASE Pointer(files) = Head(command[s].todo)
  <2>1. Goto(s, "unpoint")
    BY <1>3, Reads DEF ReadPointer, Step, Goto
  <2>2. Held([command[s] EXCEPT !.at = "unpoint"])
    BY <1>1 DEF Held, Command
  <2>3. CommandsOK' /\ Unmoved(s) /\ Same(s) /\ Keeps(s) /\ command'[s].at = "unpoint"
    BY <2>1, <2>2, GotoKind DEF Place
  <2>4. command[s].todo # <<>>
    BY <1>1 DEF Held
  <2> QED BY <1>1, <1>2, <1>3, <2>3, <2>4 DEF TypeInv
<1>4. CASE Pointer(files) # Head(command[s].todo)
  <2>1. Step(s, [command[s] EXCEPT !.at = "clear", !.todo = Tail(command[s].todo)])
    BY <1>4, Reads DEF ReadPointer
  <2> QED BY <1>1, <1>2, <1>4, <2>1, ProceedKind DEF TypeInv, Held
<1> QED BY <1>3, <1>4

LEMMA RemovePointerKind ==
  ASSUME TypeInv, NEW s \in Shells, RemovePointer(s)
  PROVE  /\ TypeInv' /\ Unmoved(s) /\ command[s].at = "unpoint" /\ Proceeds(s)
         /\ Puts(LastJson, None) /\ Pointer(files') = None /\ UNCHANGED <<rows, last, left>>
<1>1. /\ command[s].at = "unpoint" /\ UNCHANGED <<rows, last, left>>
      /\ files' = [files EXCEPT ![LastJson] = None]
      /\ Step(s, [command[s] EXCEPT !.at = "clear", !.todo = Tail(command[s].todo)])
  BY DEF RemovePointer
<1>2. files' \in [Files -> Contents] /\ Puts(LastJson, None)
  BY <1>1, FileChanged, Paths, Parsed DEF TypeInv, Contents, Puts
<1>3. Pointer(files') = None
  BY <1>1, Paths DEF TypeInv, FilesOK, Pointer
<1>4. FilesOK' /\ RowsOK'
  BY <1>1, <1>2 DEF TypeInv, FilesOK, RowsOK
<1> QED BY <1>1, <1>2, <1>3, <1>4, ProceedKind DEF TypeInv

LEMMA QuitKind ==
  ASSUME TypeInv, NEW s \in Shells, DestroyFails(s) \/ BootstrapSucceeds(s) \/ Kill(s)
  PROVE  TypeInv' /\ Quits(s)
<1>1. /\ Busy(s) /\ command' = [command EXCEPT ![s] = Idle]
      /\ command[s].at \in {"look", "unpoint"} => "half" \in odd'
      /\ UNCHANGED <<files, rows, last, left>>
  BY DEF DestroyFails, BootstrapSucceeds, Kill, Leave, At, Busy
<1> QED BY <1>1, LeaveKind
-----------------------------------------------------------------------------
Kind(s) ==
  \/ \E i \in Instances : Begins(s, i)
  \/ Quits(s) \/ Reports(s) \/ Clears(s)
  \/ WriteRecord(s) \/ WritePointer(s) \/ WriteFails(s) \/ RecordFailure(s)
  \/ RemoveRecord(s) \/ ReadPointer(s) \/ RemovePointer(s) \/ Cleared(s)

LEMMA NextKind ==
  ASSUME TypeInv, [Next]_vars
  PROVE  TypeInv' /\ (UNCHANGED vars \/ \E s \in Shells : Kind(s))
<1>1. CASE UNCHANGED vars
  BY <1>1 DEF vars, TypeInv, FilesOK, RowsOK, CommandsOK
<1>2. ASSUME NEW s \in Shells, BeginUp(s) \/ BeginDestroy(s) \/ BeginBootstrap(s)
      PROVE  TypeInv' /\ Kind(s)
  BY <1>2, BeginKind DEF BeginUp, BeginDestroy, BeginBootstrap, Kind
<1>3. ASSUME NEW s \in Shells,
             \/ UpFails(s) \/ UpSucceeds(s) \/ DestroyFails(s) \/ DestroySucceeds(s)
             \/ BootstrapFails(s) \/ BootstrapSucceeds(s) \/ Kill(s)
      PROVE  TypeInv' /\ Kind(s)
  BY <1>3, UpFailsKind, UpSucceedsKind, DestroySucceedsKind, BootstrapFailsKind, QuitKind
  DEF Kind
<1>4. ASSUME NEW s \in Shells,
             \/ WriteRecord(s) \/ WritePointer(s) \/ WriteFails(s) \/ RecordFailure(s)
             \/ RemoveRecord(s) \/ ReadPointer(s) \/ RemovePointer(s) \/ Cleared(s)
      PROVE  TypeInv' /\ Kind(s)
  BY <1>4, WriteRecordKind, WritePointerKind, WriteFailsKind, RecordFailureKind,
     RemoveRecordKind, ReadPointerKind, RemovePointerKind, ClearedKind DEF Kind
<1> QED BY <1>1, <1>2, <1>3, <1>4 DEF Next

LEMMA OddGrows == ASSUME [Next]_vars PROVE odd \subseteq odd'
BY DEF Next, vars, BeginUp, BeginDestroy, BeginBootstrap, Begin, UpFails, UpSucceeds,
       DestroyFails, DestroySucceeds, BootstrapFails, BootstrapSucceeds, WriteRecord,
       WritePointer, WriteFails, RecordFailure, RemoveRecord, ReadPointer, RemovePointer,
       Cleared, Kill, Leave, Step

LEMMA TypeInvariant == Spec => []TypeInv
<1>1. TypeInv /\ [Next]_vars => TypeInv'
  BY NextKind
<1> QED BY <1>1, TypeInit, PTL DEF Spec

-----------------------------------------------------------------------------
(* The invariants                                                          *)

\* A command that has been alone still is.
Lone ==
  \A s \in Shells : \A t \in Shells \ {s} :
     Busy(s) /\ Busy(t) /\ command[s].alone => command[t].of # command[s].of

\* Every record is where its instance or its words are looked for.
RightKeys ==
  /\ \A file \in Files : Record(files, file) # None => Right(file, Record(files, file))
  /\ \A s \in Shells :
       command[s].at \in {"record", "point", "failed"} /\ command[s].key # None =>
         /\ Named(command[s].key, command[s].of, command[s].typed)
         /\ command[s].typed # None => command[s].phase = "resolve"

\* What a command is to supersede and is still there lies ahead of it.
Remaining(c) == IF c.at = "clear" THEN Ahead(c.todo) ELSE Ahead(Tail(c.todo))

StillToClear ==
  \A s \in Shells :
     command[s].at \in {"clear", "look", "unpoint"} /\ command[s].alone =>
       \A file \in command[s].stale :
         Record(files, file) # None /\ Record(files, file).of = command[s].of
           => file \in Remaining(command[s])

RelevantInv == Lone /\ RightKeys /\ StillToClear

\* Whatever a command at work does, it goes on as the same command or ends.
LEMMA KindMoves ==
  ASSUME TypeInv, NEW s \in Shells, Kind(s)
  PROVE  \/ \E i \in Instances : Begins(s, i)
         \/ Unmoved(s) /\ Busy(s) /\ (Same(s) \/ ~Busy(s)')
<1>1. CASE Quits(s) \/ Reports(s) \/ Clears(s)
  BY <1>1 DEF Quits, Reports, Clears, Busy
<1>2. CASE WriteRecord(s) \/ WritePointer(s)
  BY <1>2, WriteRecordKind, WritePointerKind DEF Busy
<1>3. CASE WriteFails(s)
  BY <1>3, WriteFailsKind DEF Busy, WriteFails
<1>4. CASE RecordFailure(s) \/ Cleared(s)
  BY <1>4, RecordFailureKind, ClearedKind DEF Busy, Ends
<1>5. CASE RemoveRecord(s) \/ ReadPointer(s) \/ RemovePointer(s)
  BY <1>5, RemoveRecordKind, ReadPointerKind, RemovePointerKind DEF Busy, Proceeds
<1> QED BY <1>1, <1>2, <1>3, <1>4, <1>5 DEF Kind

\* To the others beginning means only that they are no longer alone.
LEMMA BeginOthers ==
  ASSUME TypeInv, NEW s \in Shells, NEW i \in Instances, Begins(s, i), NEW t \in Shells \ {s}
  PROVE  /\ command'[t].at = command[t].at /\ command'[t].of = command[t].of
         /\ command'[t].op = command[t].op /\ command'[t].known = command[t].known
         /\ command'[t].key = command[t].key /\ command'[t].phase = command[t].phase
         /\ command'[t].typed = command[t].typed /\ command'[t].todo = command[t].todo
         /\ command'[t].stale = command[t].stale
         /\ command'[t].alone => command[t].alone /\ (Busy(t) => command[t].of # i)
<1>1. command[t] \in Command
  BY DEF TypeInv, CommandsOK
<1>2. CASE t \notin Others(s, i)
  BY <1>2 DEF Begins, Others
<1>3. CASE t \in Others(s, i)
  <2>1. command'[t] = [command[t] EXCEPT !.alone = FALSE]
    BY <1>3 DEF Begins
  <2>2. ~command'[t].alone
    BY <1>1, <2>1 DEF Command
  <2> QED BY <1>1, <2>1, <2>2 DEF Command
<1> QED BY <1>2, <1>3

LEMMA LoneStep ==
  ASSUME TypeInv, Lone, NEW s \in Shells, Kind(s) PROVE Lone'
<1>1. ASSUME NEW i \in Instances, Begins(s, i) PROVE Lone'
  <2>1. \A t \in Shells \ {s} :
          /\ Busy(t)' = Busy(t) /\ command'[t].of = command[t].of
          /\ command'[t].alone => command[t].alone /\ (Busy(t) => command[t].of # i)
    BY <1>1, BeginOthers DEF Busy
  <2>2. /\ command'[s].of = i
        /\ command'[s].alone => \A t \in Shells \ {s} : Busy(t) => command[t].of # i
    BY <1>1 DEF Begins, Others
  <2> QED BY <2>1, <2>2 DEF Lone
<1>2. CASE Unmoved(s) /\ Busy(s) /\ (Same(s) \/ ~Busy(s)')
  BY <1>2 DEF Lone, Unmoved, Same, Busy
<1> QED BY <1>1, <1>2, KindMoves

LEMMA RightKeysStep ==
  ASSUME TypeInv, RightKeys, NEW s \in Shells, Kind(s) PROVE RightKeys'
<1>1. ASSUME NEW i \in Instances, Begins(s, i) PROVE RightKeys'
  <2>1. \A t \in Shells \ {s} :
          /\ command'[t].at = command[t].at /\ command'[t].of = command[t].of
          /\ command'[t].key = command[t].key /\ command'[t].typed = command[t].typed
          /\ command'[t].phase = command[t].phase
    BY <1>1, BeginOthers
  <2>2. command'[s].at = "work" /\ UNCHANGED files
    BY <1>1 DEF Begins
  <2> QED BY <2>1, <2>2 DEF RightKeys
<1>2. CASE Quits(s) \/ Reports(s) \/ Clears(s)
  BY <1>2 DEF RightKeys, Quits, Reports, Clears, Unmoved, Same
<1>3. CASE WriteRecord(s)
  <2> DEFINE c == command[s]
             r == buildLaunchErrorContext(c)
  <2>1. /\ Unmoved(s) /\ Same(s) /\ Keeps(s) /\ c.at = "record" /\ c.key \in Keys
        /\ Puts(errorRecordPath(c.key), r)
    BY <1>3, WriteRecordKind
  <2>2. r.key = c.key /\ r.of = c.of /\ r.typed = c.typed
    BY DEF buildLaunchErrorContext
  <2>3. Named(c.key, c.of, c.typed) /\ (c.typed # None => c.phase = "resolve")
    BY <2>1, Distinct DEF RightKeys
  <2>4. Right(errorRecordPath(c.key), r)
    BY <2>2, <2>3 DEF Right
  <2> HIDE DEF c, r
  <2>5. ASSUME NEW file \in Files, Record(files', file) # None
        PROVE  Right(file, Record(files', file))
    BY <2>1, <2>4, <2>5 DEF RightKeys, Puts
  <2> QED BY <2>1, <2>3, <2>5 DEF RightKeys, Unmoved, Same, Keeps, c
<1>4. CASE WritePointer(s) \/ RemoveRecord(s) \/ RemovePointer(s)
  <2>1. \E file \in Files : Puts(file, None)
    BY <1>4, WritePointerKind, RemoveRecordKind, RemovePointerKind, Paths
  <2>2. \A file \in Files : Record(files', file) # None =>
          Record(files', file) = Record(files, file)
    BY <2>1 DEF Puts
  <2> QED BY <1>4, <2>2, WritePointerKind, RemoveRecordKind, RemovePointerKind
          DEF RightKeys, Unmoved, Same, Keeps, Proceeds
<1>5. CASE WriteFails(s)
  BY <1>5, WriteFailsKind DEF RightKeys, Unmoved
<1>6. CASE RecordFailure(s) \/ Cleared(s)
  <2>1. Ends(s)
    BY <1>6, RecordFailureKind, ClearedKind
  <2>2. Unmoved(s) /\ command'[s].at = "idle" /\ UNCHANGED files
    BY <2>1 DEF Ends
  <2> QED BY <2>2 DEF RightKeys, Unmoved
<1>7. CASE ReadPointer(s)
  BY <1>7, ReadPointerKind DEF RightKeys, Unmoved, Proceeds
<1> QED BY <1>1, <1>2, <1>3, <1>4, <1>5, <1>6, <1>7 DEF Kind

LEMMA RangeOfTail ==
  ASSUME NEW S, NEW q \in Seq(S), q # <<>>, NEW x \in Range(q), x # Head(q)
  PROVE  x \in Range(Tail(q))
<1>1. PICK j \in 1..Len(q) : x = q[j]
  BY DEF Range
<1>2. j # 1 /\ Len(q) # 0
  BY <1>1
<1>3. /\ Tail(q) \in Seq(S) /\ Len(Tail(q)) = Len(q) - 1
      /\ j - 1 \in 1..Len(Tail(q)) /\ Tail(q)[j - 1] = q[j]
  BY <1>2
<1>4. DOMAIN Tail(q) = 1..Len(Tail(q))
  BY <1>3
<1>5. PICK r : r = Tail(q)
  OBVIOUS
<1>6. j - 1 \in DOMAIN r /\ r[j - 1] = x
  BY <1>1, <1>3, <1>4, <1>5
<1> QED BY <1>5, <1>6, Zenon DEF Range

LEMMA AheadOfTail ==
  ASSUME NEW todo \in Seq(Keys), todo # <<>>, NEW file \in Ahead(todo),
         file # errorRecordPath(Head(todo))
  PROVE  file \in Ahead(Tail(todo))
<1>1. PICK key \in Range(todo) : file = errorRecordPath(key)
  BY DEF Ahead
<1>2. key \in Range(Tail(todo))
  BY <1>1, RangeOfTail
<1> QED BY <1>1, <1>2 DEF Ahead

\* A command covers what it is to supersede when it begins to clear; from then
\* on nobody writes such a record, and it takes away only what it has removed.
LEMMA StillToClearStep ==
  ASSUME TypeInv, TypeInv', RelevantInv, NEW s \in Shells, Kind(s) PROVE StillToClear'
<1> USE DEF RelevantInv
<1> SUFFICES ASSUME NEW u \in Shells,
                    command'[u].at \in {"clear", "look", "unpoint"}, command'[u].alone,
                    NEW file \in command'[u].stale,
                    Record(files', file) # None, Record(files', file).of = command'[u].of
             PROVE  file \in Remaining(command'[u])
  BY DEF StillToClear
<1> file \in Files
  <2>1. command'[u] \in Command
    BY DEF TypeInv, CommandsOK
  <2> QED BY <2>1 DEF Command
<1> DEFINE Before == command[u].at \in {"clear", "look", "unpoint"} /\ command[u].alone
                     /\ file \in command[u].stale
                     /\ Record(files, file) # None /\ Record(files, file).of = command[u].of
<1>1. Before => file \in Remaining(command[u])
  BY DEF StillToClear
<1>2. ASSUME NEW i \in Instances, Begins(s, i) PROVE file \in Remaining(command'[u])
  <2>1. u # s /\ UNCHANGED files
    BY <1>2 DEF Begins
  <2>2. /\ command'[u].at = command[u].at /\ command'[u].of = command[u].of
        /\ command'[u].todo = command[u].todo /\ command'[u].stale = command[u].stale
        /\ command'[u].alone => command[u].alone
    BY <1>2, <2>1, BeginOthers
  <2> QED BY <1>1, <2>1, <2>2 DEF Remaining
<1>3. ASSUME u # s, Unmoved(s), Record(files', file) = Record(files, file)
      PROVE  file \in Remaining(command'[u])
  BY <1>1, <1>3 DEF Unmoved
<1>4. CASE Quits(s) \/ Reports(s)
  BY <1>3, <1>4 DEF Quits, Reports
<1>5. CASE Clears(s)
  <2>1. CASE u = s
    <3>1. /\ command'[s].at = "clear" /\ files' = files
          /\ Right(file, Record(files, file)) => file \in Ahead(command'[s].todo)
      BY <1>5, <2>1 DEF Clears
    <3> QED BY <2>1, <3>1 DEF RightKeys, Remaining
  <2> QED BY <1>3, <1>5, <2>1 DEF Clears
<1>6. CASE WriteRecord(s)
  <2>1. /\ Unmoved(s) /\ Same(s) /\ u # s /\ Busy(s) /\ command[s].key \in Keys
        /\ Puts(errorRecordPath(command[s].key), buildLaunchErrorContext(command[s]))
    BY <1>6, WriteRecordKind DEF Busy
  <2>2. command[s].of # command'[u].of
    BY <2>1 DEF Lone, Unmoved, Busy
  <2>3. Record(files', file) # buildLaunchErrorContext(command[s])
    BY <2>2 DEF buildLaunchErrorContext
  <2>4. Record(files', file) = Record(files, file)
    BY <2>1, <2>3 DEF Puts
  <2> QED BY <1>3, <2>1, <2>4
<1>7. CASE WriteFails(s)
  BY <1>3, <1>7, WriteFailsKind
<1>8. CASE RecordFailure(s) \/ Cleared(s)
  <2>1. Ends(s)
    BY <1>8, RecordFailureKind, ClearedKind
  <2> QED BY <1>3, <2>1 DEF Ends
<1>9. CASE RemoveRecord(s)
  <2>1. /\ file # errorRecordPath(Head(command[s].todo))
        /\ Record(files', file) = Record(files, file)
    BY <1>9, RemoveRecordKind DEF Puts
  <2>2. CASE u = s
    <3>1. /\ command[s].at = "clear" /\ command'[s].at = "look" /\ Same(s) /\ Keeps(s)
          /\ command[s].todo \in Seq(Keys) /\ command[s].todo # <<>>
      BY <1>9, RemoveRecordKind
    <3>2. file \in Ahead(command[s].todo)
      BY <1>1, <2>1, <2>2, <3>1 DEF Remaining, Same, Keeps
    <3>3. file \in Ahead(Tail(command[s].todo))
      BY <2>1, <3>1, <3>2, AheadOfTail
    <3> QED BY <2>2, <3>1, <3>3 DEF Remaining, Keeps
  <2> QED BY <1>3, <1>9, <2>1, <2>2, RemoveRecordKind
<1>10. CASE WritePointer(s)
  <2>1. Unmoved(s) /\ command'[s].at = "failed" /\ Puts(LastJson, None)
    BY <1>10, WritePointerKind
  <2>2. u # s /\ Record(files', file) = Record(files, file)
    BY <2>1 DEF Puts
  <2> QED BY <1>3, <2>1, <2>2
<1>11. CASE ReadPointer(s) \/ RemovePointer(s)
  <2>1. Unmoved(s) /\ command[s].at \in {"look", "unpoint"}
    BY <1>11, ReadPointerKind, RemovePointerKind
  <2>2. Record(files', file) = Record(files, file)
    <3>1. UNCHANGED files \/ Puts(LastJson, None)
      BY <1>11, ReadPointerKind, RemovePointerKind
    <3> QED BY <3>1 DEF Puts
  <2>3. \/ Same(s) /\ Keeps(s) /\ command'[s].at = "unpoint"
        \/ Proceeds(s)
    BY <1>11, ReadPointerKind, RemovePointerKind
  <2>4. CASE u = s
    <3>1. Before
      BY <2>1, <2>2, <2>3, <2>4 DEF Same, Keeps, Proceeds
    <3>2. file \in Ahead(Tail(command[s].todo))
      BY <1>1, <2>1, <2>4, <3>1 DEF Remaining
    <3> QED BY <2>3, <2>4, <3>2 DEF Remaining, Keeps, Proceeds
  <2> QED BY <1>3, <2>1, <2>2, <2>4
<1> QED BY <1>2, <1>4, <1>5, <1>6, <1>7, <1>8, <1>9, <1>10, <1>11 DEF Kind

LEMMA RelevantInit == Init => RelevantInv
<1> SUFFICES ASSUME Init PROVE RelevantInv
  OBVIOUS
<1>1. \A file \in Files : Record(files, file) = None
  BY Parsed DEF Init, Record
<1> QED BY <1>1 DEF Init, RelevantInv, Lone, RightKeys, StillToClear, Idle, Busy

LEMMA RelevantInvariant == Spec => []RelevantInv
<1>1. TypeInv /\ RelevantInv /\ [Next]_vars => RelevantInv'
  <2> SUFFICES ASSUME TypeInv, RelevantInv, [Next]_vars PROVE RelevantInv'
    OBVIOUS
  <2>1. CASE UNCHANGED vars
    BY <2>1 DEF vars, RelevantInv, Lone, RightKeys, StillToClear, Busy
  <2>2. ASSUME NEW s \in Shells, Kind(s) PROVE RelevantInv'
    BY <2>2, NextKind, LoneStep, RightKeysStep, StillToClearStep DEF RelevantInv
  <2> QED BY <2>1, <2>2, NextKind
<1> QED BY <1>1, TypeInvariant, RelevantInit, PTL DEF Spec

\* No record outlives its relevance: when an `up` or a destroy is through,
\* nothing that it found of its instance is left, if it was alone with it.
THEOREM RecordsRelevantHolds == Spec => []RecordsRelevant
<1>1. TypeInv /\ RelevantInv => RecordsRelevant
  <2> SUFFICES ASSUME TypeInv, RelevantInv, NEW s \in Shells, AllCleared(command[s]),
                      command[s].alone, NEW file \in command[s].stale,
                      Record(files, file) # None, Record(files, file).of = command[s].of
               PROVE  FALSE
    BY Reads DEF RecordsRelevant
  <2>1. file \in Remaining(command[s])
    BY DEF RelevantInv, StillToClear, AllCleared
  <2>2. Ahead(<<>>) = {}
    BY DEF Ahead, Range
  <2> QED BY <2>1, <2>2 DEF Remaining, AllCleared
<1> QED BY <1>1, TypeInvariant, RelevantInvariant, PTL

-----------------------------------------------------------------------------
\* The row an `up` found is there as long as it is alone.
UpKnown ==
  \A s \in Shells :
     Busy(s) /\ command[s].alone /\ command[s].op = "up" /\ command[s].known
       => rows[command[s].of] # None

OwnRecords == "foreign" \notin odd

\* A command finds what it wrote, ...
Written ==
  OwnRecords => \A s \in Shells :
     command[s].at \in {"point", "failed"} /\ command[s].alone /\ command[s].key # None
       => \/ errorRecordPath(command[s].key) = LastJson
          \/ Record(files, errorRecordPath(command[s].key)) =
               buildLaunchErrorContext(command[s])

Failure(i, phase) == [key |-> KeyOf(i), phase |-> phase, of |-> i, typed |-> None]

\* ... and after it nobody of its instance is there to change it.
LeftAlone ==
  \A i \in Instances : left[i] # None =>
     /\ \A s \in Shells : Busy(s) => command[s].of # i
     /\ rows[i] \notin {None, "up"}
     /\ left[i].key # None =>
          /\ left[i].key = KeyOf(i)
          /\ OwnRecords /\ errorRecordPath(KeyOf(i)) # LastJson =>
               Record(files, errorRecordPath(KeyOf(i))) = Failure(i, left[i].phase)

FindsInv == UpKnown /\ Written /\ LeftAlone

LEMMA BusyOf == ASSUME TypeInv, NEW s \in Shells, Busy(s) PROVE command[s].of \in Instances
BY DEF TypeInv, CommandsOK, Held, Busy

\* Only the clearing of a destroy takes a row away, its own.
LEMMA RowsStay ==
  ASSUME TypeInv, NEW s \in Shells, Kind(s), NEW i \in Instances,
         rows[i] # None, rows'[i] = None
  PROVE  Clears(s) /\ i = command[s].of
<1>1. CASE Quits(s) \/ Reports(s) \/ Clears(s) \/ \E j \in Instances : Begins(s, j)
  BY <1>1 DEF Quits, Reports, Clears, Begins
<1>2. CASE RecordFailure(s) \/ Cleared(s)
  <2>1. Ends(s)
    BY <1>2, RecordFailureKind, ClearedKind
  <2> QED BY <2>1 DEF Ends
<1>3. CASE \/ WriteRecord(s) \/ WritePointer(s) \/ WriteFails(s)
           \/ RemoveRecord(s) \/ ReadPointer(s) \/ RemovePointer(s)
  BY <1>3 DEF WriteRecord, WritePointer, WriteFails, RemoveRecord, ReadPointer, RemovePointer
<1> QED BY <1>1, <1>2, <1>3 DEF Kind

LEMMA UpKnownStep ==
  ASSUME TypeInv, Lone, UpKnown, NEW s \in Shells, Kind(s) PROVE UpKnown'
<1> SUFFICES ASSUME NEW u \in Shells, Busy(u)', command'[u].alone, command'[u].op = "up",
                    command'[u].known, rows'[command'[u].of] = None
             PROVE  FALSE
  BY DEF UpKnown
<1>1. ASSUME NEW i \in Instances, Begins(s, i) PROVE FALSE
  <2>1. CASE u = s
    BY <1>1, <2>1 DEF Begins
  <2>2. CASE u # s
    <3>1. command'[u].at = command[u].at /\ command'[u].of = command[u].of
      BY <1>1, <2>2, BeginOthers
    <3>2. command[u].op = "up" /\ command[u].alone
      BY <1>1, <2>2, BeginOthers
    <3>3. u \in Shells \ {s}
      BY <2>2
    <3>4. command[u].known
      BY <1>1, <3>3, BeginOthers, Zenon
    <3>5. UNCHANGED rows
      BY <1>1 DEF Begins
    <3> QED BY <3>1, <3>2, <3>4, <3>5 DEF UpKnown, Busy
  <2> QED BY <2>1, <2>2
<1>2. CASE Unmoved(s) /\ Busy(s) /\ (Same(s) \/ ~Busy(s)')
  <2>1. /\ Busy(u) /\ command[u].of = command'[u].of /\ command[u].alone
        /\ command[u].op = "up" /\ command[u].known
    BY <1>2 DEF Unmoved, Same, Busy
  <2>2. rows[command[u].of] # None /\ command[u].of \in Instances
    BY <2>1, BusyOf DEF UpKnown
  <2>3. Clears(s) /\ command[u].of = command[s].of
    BY <2>1, <2>2, RowsStay
  <2>4. u = s
    BY <1>2, <2>1, <2>3 DEF Lone
  <2> QED BY <2>1, <2>2, <2>3, <2>4 DEF Clears
<1> QED BY <1>1, <1>2, KindMoves

\* Where a record of one instance was, that of another is put only at the price
\* of the exception, and so is it removed.
LEMMA RecordStays ==
  ASSUME TypeInv, NEW s \in Shells, Kind(s), OwnRecords', NEW file \in Files \ {LastJson},
         Record(files, file) # None, Busy(s) => Record(files, file).of # command[s].of
  PROVE  Record(files', file) = Record(files, file)
<1>1. CASE WriteRecord(s)
  <2>1. /\ command[s].at = "record" /\ Clash(s, command[s].key) \subseteq odd'
        /\ Puts(errorRecordPath(command[s].key), buildLaunchErrorContext(command[s]))
    BY <1>1, WriteRecordKind
  <2>2. file # errorRecordPath(command[s].key)
    BY <2>1, Reads DEF Clash, Busy, OwnRecords
  <2> QED BY <2>1, <2>2 DEF Puts
<1>2. CASE RemoveRecord(s)
  <2>1. /\ command[s].at = "clear" /\ Clash(s, Head(command[s].todo)) \subseteq odd'
        /\ Puts(errorRecordPath(Head(command[s].todo)), None)
    BY <1>2, RemoveRecordKind
  <2>2. file # errorRecordPath(Head(command[s].todo))
    BY <2>1, Reads DEF Clash, Busy, OwnRecords
  <2> QED BY <2>1, <2>2 DEF Puts
<1>3. CASE Quits(s) \/ Reports(s) \/ Clears(s) \/ \E i \in Instances : Begins(s, i)
  BY <1>3 DEF Quits, Reports, Clears, Begins
<1>4. CASE WritePointer(s) \/ RemovePointer(s)
  BY <1>4, WritePointerKind, RemovePointerKind DEF Puts
<1>5. CASE WriteFails(s) \/ RecordFailure(s) \/ Cleared(s) \/ ReadPointer(s)
  BY <1>5 DEF WriteFails, RecordFailure, Cleared, ReadPointer
<1> QED BY <1>1, <1>2, <1>3, <1>4, <1>5 DEF Kind

LEMMA ContextType ==
  ASSUME TypeInv, NEW s \in Shells, command[s].at \in {"record", "point", "failed"},
         command[s].key # None
  PROVE  buildLaunchErrorContext(command[s]) \in LaunchErrorContext
<1>1. command[s] \in Command /\ Held(command[s])
  BY DEF TypeInv, CommandsOK
<1> QED BY <1>1
        DEF Held, Command, buildLaunchErrorContext, LaunchErrorContext, Phase

LEMMA WrittenStep ==
  ASSUME TypeInv, Lone, Written, NEW s \in Shells, Kind(s), odd \subseteq odd'
  PROVE  Written'
<1> SUFFICES ASSUME OwnRecords', NEW u \in Shells, command'[u].at \in {"point", "failed"},
                    command'[u].alone, command'[u].key # None,
                    errorRecordPath(command'[u].key) # LastJson
             PROVE  Record(files', errorRecordPath(command'[u].key)) =
                      buildLaunchErrorContext(command'[u])
  BY DEF Written, buildLaunchErrorContext
<1>1. OwnRecords
  BY DEF OwnRecords
<1>2. ASSUME command[u].at \in {"point", "failed"}, command[u].alone,
             command'[u].of = command[u].of, command'[u].key = command[u].key,
             command'[u].phase = command[u].phase, command'[u].typed = command[u].typed,
             \/ Busy(s) => command[s].of # command[u].of
             \/ UNCHANGED files
             \/ Puts(LastJson, None)
      PROVE  Record(files', errorRecordPath(command'[u].key)) =
               buildLaunchErrorContext(command'[u])
  <2>1. PICK key : key = command[u].key
    OBVIOUS
  <2>2. PICK r : r = buildLaunchErrorContext(command[u])
    OBVIOUS
  <2>3. key \in Keys
    <3>1. command[u] \in Command
      BY DEF TypeInv, CommandsOK
    <3> QED BY <1>2, <2>1, <3>1 DEF Command
  <2>4. Record(files, errorRecordPath(key)) = r /\ errorRecordPath(key) \in Files \ {LastJson}
    BY <1>1, <1>2, <2>1, <2>2, <2>3, Paths DEF Written
  <2>5. r # None
    BY <1>2, <2>2, ContextType, Distinct
  <2>6. r.of = command[u].of
    BY <2>2 DEF buildLaunchErrorContext
  <2>7. Record(files', errorRecordPath(key)) = r
    <3>1. CASE Busy(s) => command[s].of # command[u].of
      BY <2>4, <2>5, <2>6, <3>1, RecordStays
    <3>2. CASE UNCHANGED files \/ Puts(LastJson, None)
      BY <2>4, <3>2 DEF Puts
    <3> QED BY <1>2, <3>1, <3>2
  <2>8. buildLaunchErrorContext(command'[u]) = r
    BY <1>2, <2>2 DEF buildLaunchErrorContext
  <2> QED BY <1>2, <2>1, <2>7, <2>8
<1>3. ASSUME NEW i \in Instances, Begins(s, i)
      PROVE  Record(files', errorRecordPath(command'[u].key)) =
               buildLaunchErrorContext(command'[u])
  <2>1. u \in Shells \ {s} /\ UNCHANGED files
    BY <1>3 DEF Begins
  <2>2. /\ command'[u].at = command[u].at /\ command'[u].of = command[u].of
        /\ command'[u].key = command[u].key /\ command'[u].phase = command[u].phase
        /\ command'[u].typed = command[u].typed
        /\ command'[u].alone => command[u].alone
    BY <1>3, <2>1, BeginOthers
  <2> QED BY <1>2, <2>1, <2>2
<1>4. CASE u # s /\ Unmoved(s) /\ Busy(s)
  <2>1. command'[u] = command[u]
    BY <1>4 DEF Unmoved
  <2>2. command[s].of # command[u].of
    BY <1>4, <2>1 DEF Lone, Busy
  <2> QED BY <1>2, <2>1, <2>2
<1>5. CASE u = s /\ WriteRecord(s)
  <2>1. /\ Same(s) /\ Keeps(s) /\ command[s].key \in Keys
        /\ Puts(errorRecordPath(command[s].key), buildLaunchErrorContext(command[s]))
    BY <1>5, WriteRecordKind
  <2>2. Record(files', errorRecordPath(command[s].key)) = buildLaunchErrorContext(command[s])
    BY <2>1 DEF Puts
  <2>3. buildLaunchErrorContext(command'[s]) = buildLaunchErrorContext(command[s])
    BY <2>1 DEF Same, Keeps, buildLaunchErrorContext
  <2> QED BY <1>5, <2>1, <2>2, <2>3 DEF Keeps
<1>6. CASE u = s /\ WritePointer(s)
  <2>1. /\ Same(s) /\ Keeps(s) /\ command[s].at = "point" /\ Puts(LastJson, None)
    BY <1>6, WritePointerKind
  <2> QED BY <1>2, <1>6, <2>1 DEF Same, Keeps
<1>7. CASE u = s /\ ~WriteRecord(s) /\ ~WritePointer(s)
  <2>1. CASE Quits(s) \/ Reports(s) \/ Clears(s)
    BY <1>7, <2>1 DEF Quits, Reports, Clears
  <2>2. CASE RecordFailure(s) \/ Cleared(s)
    <3>1. Ends(s)
      BY <2>2, RecordFailureKind, ClearedKind
    <3> QED BY <1>7, <3>1 DEF Ends
  <2>3. CASE WriteFails(s) \/ RemoveRecord(s)
    BY <1>7, <2>3, WriteFailsKind, RemoveRecordKind
  <2>4. CASE ReadPointer(s) \/ RemovePointer(s)
    BY <1>7, <2>4, ReadPointerKind, RemovePointerKind DEF Proceeds
  <2> QED BY <1>3, <1>7, <2>1, <2>2, <2>3, <2>4 DEF Kind
<1> QED BY <1>3, <1>4, <1>5, <1>6, <1>7, KindMoves

LEMMA LeftAloneStep ==
  ASSUME TypeInv, Lone, RightKeys, FindsInv, NEW s \in Shells, Kind(s), odd \subseteq odd'
  PROVE  LeftAlone'
<1> USE DEF FindsInv
<1> SUFFICES ASSUME NEW i \in Instances, left'[i] # None
             PROVE  /\ \A u \in Shells : Busy(u)' => command'[u].of # i
                    /\ rows'[i] \notin {None, "up"}
                    /\ left'[i].key # None =>
                         /\ left'[i].key = KeyOf(i)
                         /\ OwnRecords' /\ errorRecordPath(KeyOf(i)) # LastJson =>
                              Record(files', errorRecordPath(KeyOf(i))) =
                                Failure(i, left'[i].phase)
  BY DEF LeftAlone
<1>1. OwnRecords' => OwnRecords
  BY DEF OwnRecords
<1>2. ASSUME left[i] # None, left'[i] = left[i], rows'[i] = rows[i],
             Busy(s) => command[s].of # i
      PROVE  /\ rows'[i] \notin {None, "up"}
             /\ left'[i].key # None =>
                  /\ left'[i].key = KeyOf(i)
                  /\ OwnRecords' /\ errorRecordPath(KeyOf(i)) # LastJson =>
                       Record(files', errorRecordPath(KeyOf(i))) = Failure(i, left'[i].phase)
  <2>1. rows[i] \notin {None, "up"} /\ (left[i].key # None => left[i].key = KeyOf(i))
    BY <1>2 DEF LeftAlone
  <2>2. ASSUME left[i].key # None, OwnRecords', errorRecordPath(KeyOf(i)) # LastJson
        PROVE  Record(files', errorRecordPath(KeyOf(i))) = Failure(i, left[i].phase)
    <3>1. PICK r : r = Failure(i, left[i].phase)
      OBVIOUS
    <3>2. PICK file : file = errorRecordPath(KeyOf(i))
      OBVIOUS
    <3>3. Record(files, file) = r /\ file \in Files \ {LastJson}
      BY <1>1, <1>2, <2>2, <3>1, <3>2, KeyOfType, Paths DEF LeftAlone
    <3>4. r.of = i /\ r # None
      <4>1. r \in LaunchErrorContext
        <5>1. left[i].phase \in Phase
          BY <1>2 DEF TypeInv, RowsOK
        <5> QED BY <3>1, <5>1, KeyOfType DEF LaunchErrorContext, Phase, Failure
      <4> QED BY <3>1, <4>1, Distinct DEF Failure
    <3>5. Record(files', file) = Record(files, file)
      BY <1>2, <2>2, <3>3, <3>4, RecordStays
    <3> QED BY <3>1, <3>2, <3>3, <3>5
  <2> QED BY <1>2, <2>1, <2>2
<1>3. ASSUME NEW j \in Instances, Begins(s, j)
      PROVE  /\ left[i] # None /\ left'[i] = left[i] /\ rows'[i] = rows[i]
             /\ Busy(s) => command[s].of # i
             /\ \A u \in Shells : Busy(u)' => command'[u].of # i
  <2>1. /\ left' = [left EXCEPT ![j] = None] /\ UNCHANGED rows /\ ~Busy(s)
        /\ command'[s].of = j
    BY <1>3 DEF Begins
  <2>2. left[i] # None /\ left'[i] = left[i] /\ i # j
    BY <2>1 DEF TypeInv, RowsOK
  <2>3. \A u \in Shells \ {s} :
          command'[u].at = command[u].at /\ command'[u].of = command[u].of
    BY <1>3, BeginOthers
  <2> QED BY <2>1, <2>2, <2>3 DEF LeftAlone, Busy
<1>4. CASE Unmoved(s) /\ Busy(s) /\ (Same(s) \/ ~Busy(s)')
  <2>1. command[s].of \in Instances
    BY <1>4, BusyOf
  <2>2. CASE left[i] = left'[i]
    <3>1. command[s].of # i /\ \A u \in Shells : Busy(u)' => command'[u].of # i
      <4>1. \A u \in Shells : Busy(u) => command[u].of # i
        BY <2>2 DEF LeftAlone
      <4>2. \A u \in Shells : Busy(u)' => Busy(u) /\ command'[u].of = command[u].of
        BY <1>4 DEF Unmoved, Same, Busy
      <4> QED BY <1>4, <4>1, <4>2
    <3>2. rows'[i] = rows[i]
      <4>1. CASE Quits(s) \/ Reports(s) \/ Clears(s)
        BY <3>1, <4>1 DEF Quits, Reports, Clears
      <4>2. CASE RecordFailure(s) \/ Cleared(s)
        <5>1. Ends(s)
          BY <4>2, RecordFailureKind, ClearedKind
        <5> QED BY <3>1, <5>1 DEF Ends
      <4>3. CASE \/ WriteRecord(s) \/ WritePointer(s) \/ WriteFails(s)
                 \/ RemoveRecord(s) \/ ReadPointer(s) \/ RemovePointer(s)
        BY <4>3 DEF WriteRecord, WritePointer, WriteFails, RemoveRecord, ReadPointer,
                    RemovePointer
      <4> QED BY <1>3, <4>1, <4>2, <4>3 DEF Kind
    <3> QED BY <1>2, <2>2, <3>1, <3>2
  <2>3. CASE left[i] # left'[i]
    <3>1. RecordFailure(s) /\ i = command[s].of
      <4>1. CASE Quits(s) \/ Reports(s) \/ Clears(s)
        BY <2>3, <4>1 DEF Quits, Reports, Clears
      <4>2. CASE RecordFailure(s) \/ Cleared(s)
        <5>1. Ends(s) /\ (Cleared(s) => UNCHANGED left)
          BY <4>2, RecordFailureKind, ClearedKind
        <5> QED BY <2>3, <4>2, <5>1 DEF Ends
      <4>3. CASE \/ WriteRecord(s) \/ WritePointer(s) \/ WriteFails(s)
                 \/ RemoveRecord(s) \/ ReadPointer(s) \/ RemovePointer(s)
        BY <2>3, <4>3 DEF WriteRecord, WritePointer, WriteFails, RemoveRecord, ReadPointer,
                          RemovePointer
      <4> QED BY <1>3, <2>3, <4>1, <4>2, <4>3 DEF Kind
    <3>2. /\ command[s].at = "failed" /\ command[s].alone
          /\ command[s].phase \in {"run", "health"} /\ command[s].op = "up"
          /\ left'[i] = [phase |-> command[s].phase, key |-> command[s].key]
          /\ (command[s].known => rows[i] # None) => rows'[i] \in {"unhealthy", "unknown"}
          /\ Ends(s)
      BY <2>3, <3>1, RecordFailureKind
    <3>3. rows'[i] \notin {None, "up"}
      <4>1. command[s].known => rows[i] # None
        BY <3>1, <3>2, Zenon DEF UpKnown, Busy
      <4> QED BY <3>2, <4>1, Distinct DEF Status
    <3>4. \A u \in Shells : Busy(u)' => command'[u].of # i
      BY <1>4, <3>1, <3>2 DEF Lone, Ends, Unmoved, Busy
    <3>5. ASSUME command[s].key # None
          PROVE  /\ command[s].key = KeyOf(i)
                 /\ OwnRecords' /\ errorRecordPath(KeyOf(i)) # LastJson =>
                      Record(files', errorRecordPath(KeyOf(i))) = Failure(i, command[s].phase)
      <4>1. command[s].typed = None /\ command[s].key = KeyOf(i)
        BY <3>1, <3>2, <3>5 DEF RightKeys, Named
      <4>2. OwnRecords' /\ errorRecordPath(KeyOf(i)) # LastJson =>
              Record(files, errorRecordPath(KeyOf(i))) = buildLaunchErrorContext(command[s])
        BY <1>1, <3>2, <3>5, <4>1 DEF Written
      <4>3. UNCHANGED files
        BY <3>2 DEF Ends
      <4> QED BY <3>1, <4>1, <4>2, <4>3 DEF buildLaunchErrorContext, Failure
    <3> QED BY <3>2, <3>3, <3>4, <3>5
  <2> QED BY <2>2, <2>3
<1> QED BY <1>2, <1>3, <1>4, KindMoves

LEMMA FindsInvariant == Spec => []FindsInv
<1>1. Init => FindsInv
  BY DEF Init, FindsInv, UpKnown, Written, LeftAlone, Idle, Busy
<1>2. TypeInv /\ RelevantInv /\ FindsInv /\ [Next]_vars => FindsInv'
  <2> SUFFICES ASSUME TypeInv, RelevantInv, FindsInv, [Next]_vars PROVE FindsInv'
    OBVIOUS
  <2>1. CASE UNCHANGED vars
    BY <2>1 DEF vars, FindsInv, UpKnown, Written, LeftAlone, Busy, OwnRecords
  <2>2. ASSUME NEW s \in Shells, Kind(s) PROVE FindsInv'
    BY <2>2, OddGrows, UpKnownStep, WrittenStep, LeftAloneStep DEF FindsInv, RelevantInv
  <2> QED BY <2>1, <2>2, NextKind
<1> QED BY <1>1, <1>2, TypeInvariant, RelevantInvariant, PTL DEF Spec

\* A launch that failed and left something running is found by its deployment
\* id, until a later command of it begins or another instance takes its record.
THEOREM DiagnoseFindsHolds == Spec => []DiagnoseFinds
<1>1. TypeInv /\ FindsInv => DiagnoseFinds
  <2> SUFFICES ASSUME TypeInv, LeftAlone, OwnRecords, NEW i \in Instances, left[i] # None
               PROVE  /\ rows[i] \notin {None, "up"}
                      /\ left[i].key # None =>
                           /\ left[i].key = KeyOf(i)
                           /\ errorRecordPath(KeyOf(i)) # LastJson =>
                                handleDiagnose(i) = Failure(i, left[i].phase)
    BY DEF FindsInv, DiagnoseFinds, OwnRecords, Failure
  <2>1. /\ rows[i] \notin {None, "up"}
        /\ left[i].key # None =>
             /\ left[i].key = KeyOf(i)
             /\ errorRecordPath(KeyOf(i)) # LastJson =>
                  Record(files, errorRecordPath(KeyOf(i))) = Failure(i, left[i].phase)
    BY DEF LeftAlone
  <2>2. KeyOf(i) \in Keys
    BY KeyOfType
  <2> QED BY <2>1, <2>2, Distinct, Reads
          DEF handleDiagnose, readLaunchErrorRecord, resolveKey
<1> QED BY <1>1, TypeInvariant, FindsInvariant, PTL

-----------------------------------------------------------------------------
Sound == odd \cap {"overlap", "half", "raced", "clash"} = {}

Unpointing(s) == command[s].at \in {"look", "unpoint"}

\* A record is where its key says, in a file of its own.
Stored(fs, key) ==
  /\ errorRecordPath(key) # LastJson
  /\ Record(fs, errorRecordPath(key)) # None
  /\ Record(fs, errorRecordPath(key)).key = key

\* No two commands are at one record; what was just written is there; the record
\* of a removal half way is not the last captured; and the pointer to remove
\* has not changed since it was read.
Apart == ~Overlapping(command)
PointedAtExists == \A s \in Shells : command[s].at = "point" => Stored(files, command[s].key)
Removed == \A s \in Shells : Unpointing(s) => Head(command[s].todo) # last
ReadStands ==
  \A s \in Shells : command[s].at = "unpoint" => Pointer(files) = Head(command[s].todo)

\* The pointer is what was captured last, and names a record; or whoever
\* removed that record is about to see to it.
Pointed ==
  \/ Pointer(files) = last /\ (last # None => Stored(files, last))
  \/ /\ last = None
     /\ \E s \in Shells : Unpointing(s) /\ Head(command[s].todo) = Pointer(files)

BareInv == Sound => Apart /\ PointedAtExists /\ Removed /\ ReadStands /\ Pointed

LEMMA ApartMeans ==
  ASSUME Apart, NEW s \in Shells, NEW t \in Shells, s # t,
         command[s].at \in Touching, command[t].at \in Touching,
         NEW file \in FilesOf(command[s])
  PROVE  file \notin FilesOf(command[t])
BY DEF Apart, Overlapping

\* The file of the first key still to be cleared is among those touched.
LEMMA HeadTouched ==
  ASSUME TypeInv, NEW s \in Shells, command[s].at \in {"clear", "look", "unpoint"},
         command[s].todo # <<>>
  PROVE  /\ command[s].at \in Touching /\ errorRecordPath(Head(command[s].todo)) \in FilesOf(command[s])
         /\ Head(command[s].todo) \in Keys
<1>1. PICK q \in Seq(Keys) : q = command[s].todo
  <2>1. command[s] \in Command
    BY DEF TypeInv, CommandsOK
  <2> QED BY <2>1 DEF Command
<1>2. Head(q) = q[1] /\ 1 \in DOMAIN q /\ Head(q) \in Keys
  BY <1>1
<1>3. q[1] \in Range(q)
  BY <1>2, Zenon DEF Range
<1> QED BY <1>1, <1>2, <1>3 DEF Touching, FilesOf, Ahead

LEMMA UnpointingTouched ==
  ASSUME TypeInv, NEW s \in Shells, Unpointing(s)
  PROVE  /\ command[s].at \in Touching /\ errorRecordPath(Head(command[s].todo)) \in FilesOf(command[s])
         /\ Head(command[s].todo) \in Keys
BY HeadTouched DEF Unpointing, TypeInv, CommandsOK, Held

\* Who touches a file has touched it before, or the overlap is noted.
LEMMA ApartStep ==
  ASSUME TypeInv, Apart, NEW s \in Shells, Kind(s), Sound' PROVE Apart'
<1>1. ASSUME Overlapping(command') => "overlap" \in odd' PROVE Apart'
  BY <1>1 DEF Apart, Sound
<1>2. ASSUME \A t \in Shells : command'[t].at \in Touching =>
               command[t].at \in Touching /\ FilesOf(command'[t]) = FilesOf(command[t])
      PROVE  Apart'
  BY <1>2, Zenon DEF Apart, Overlapping
<1>3. ASSUME Unmoved(s),
             command'[s].at \in Touching =>
               command[s].at \in Touching /\ FilesOf(command'[s]) = FilesOf(command[s])
      PROVE  Apart'
  <2>1. \A t \in Shells : command'[t].at \in Touching =>
          command[t].at \in Touching /\ FilesOf(command'[t]) = FilesOf(command[t])
    BY <1>3, Zenon DEF Unmoved
  <2> QED BY <1>2, <2>1
<1>4. ASSUME NEW i \in Instances, Begins(s, i) PROVE Apart'
  <2>1. command'[s].at = "work"
    BY <1>4 DEF Begins
  <2>2. \A t \in Shells \ {s} :
          /\ command'[t].at = command[t].at /\ command'[t].key = command[t].key
          /\ command'[t].todo = command[t].todo
    BY <1>4, BeginOthers
  <2>3. \A t \in Shells \ {s} : FilesOf(command'[t]) = FilesOf(command[t])
    BY <2>2, Zenon DEF FilesOf
  <2> QED BY <1>2, <2>1, <2>2, <2>3 DEF Touching
<1>5. CASE Reports(s) \/ Clears(s)
  BY <1>1, <1>5 DEF Reports, Clears
<1>6. CASE Quits(s)
  BY <1>3, <1>6 DEF Quits, Touching
<1>7. CASE RecordFailure(s) \/ Cleared(s)
  <2>1. Ends(s)
    BY <1>7, RecordFailureKind, ClearedKind
  <2> QED BY <1>3, <2>1 DEF Ends, Touching
<1>8. CASE WritePointer(s) \/ WriteFails(s)
  <2>1. Unmoved(s) /\ command'[s].at = "failed"
    BY <1>8, WritePointerKind, WriteFailsKind
  <2> QED BY <1>3, <2>1 DEF Touching
<1>9. CASE WriteRecord(s)
  <2>1. Unmoved(s) /\ Keeps(s) /\ command[s].at = "record" /\ command'[s].at = "point"
    BY <1>9, WriteRecordKind
  <2>2. FilesOf(command'[s]) = FilesOf(command[s])
    BY <2>1 DEF FilesOf, Keeps
  <2> QED BY <1>3, <2>1, <2>2 DEF Touching
<1>10. CASE RemoveRecord(s)
  <2>1. Unmoved(s) /\ Keeps(s) /\ command[s].at = "clear" /\ command'[s].at = "look"
    BY <1>10, RemoveRecordKind
  <2>2. FilesOf(command'[s]) = FilesOf(command[s])
    BY <2>1 DEF FilesOf, Keeps
  <2> QED BY <1>3, <2>1, <2>2 DEF Touching
<1>11. CASE ReadPointer(s) \/ RemovePointer(s)
  <2>1. Overlapping(command') => "overlap" \in odd'
    BY <1>11 DEF ReadPointer, RemovePointer, Step
  <2> QED BY <1>1, <2>1
<1> QED BY <1>4, <1>5, <1>6, <1>7, <1>8, <1>9, <1>10, <1>11 DEF Kind

\* A record stays where it is, if it is not removed under its own key.
LEMMA StoredStays ==
  ASSUME TypeInv, NEW s \in Shells, Kind(s), Sound', NEW key \in Keys, Stored(files, key),
         RemoveRecord(s) => Head(command[s].todo) # key
  PROVE  Stored(files', key)
<1> DEFINE file == errorRecordPath(key)
<1>1. CASE WriteRecord(s)
  <2>1. /\ Clash(s, command[s].key) \subseteq odd'
        /\ Puts(errorRecordPath(command[s].key), buildLaunchErrorContext(command[s]))
        /\ buildLaunchErrorContext(command[s]) \in LaunchErrorContext
    BY <1>1, WriteRecordKind
  <2>2. CASE file # errorRecordPath(command[s].key)
    BY <2>1, <2>2, Paths DEF Puts, Stored
  <2>3. CASE file = errorRecordPath(command[s].key)
    <3>1. command[s].key = key
      BY <2>1, <2>3, Reads DEF Clash, Sound, Stored
    <3> QED BY <2>1, <2>3, <3>1, Distinct DEF Puts, Stored, buildLaunchErrorContext
  <2> QED BY <2>2, <2>3
<1>2. CASE RemoveRecord(s)
  <2>1. /\ Clash(s, Head(command[s].todo)) \subseteq odd'
        /\ Puts(errorRecordPath(Head(command[s].todo)), None)
    BY <1>2, RemoveRecordKind
  <2>2. file # errorRecordPath(Head(command[s].todo))
    BY <1>2, <2>1, Reads DEF Clash, Sound, Stored
  <2> QED BY <2>1, <2>2, Paths DEF Puts, Stored
<1>3. CASE WritePointer(s) \/ RemovePointer(s)
  <2>1. Puts(LastJson, None)
    BY <1>3, WritePointerKind, RemovePointerKind
  <2> QED BY <2>1, Paths DEF Puts, Stored
<1>4. CASE Quits(s) \/ Reports(s) \/ Clears(s) \/ \E i \in Instances : Begins(s, i)
  BY <1>4 DEF Quits, Reports, Clears, Begins
<1>5. CASE WriteFails(s) \/ RecordFailure(s) \/ Cleared(s) \/ ReadPointer(s)
  BY <1>5 DEF WriteFails, RecordFailure, Cleared, ReadPointer
<1> QED BY <1>1, <1>2, <1>3, <1>4, <1>5 DEF Kind

\* Who changes the pointer.
LEMMA PointerKind ==
  ASSUME TypeInv, NEW s \in Shells, Kind(s), Sound'
  PROVE  WritePointer(s) \/ RemovePointer(s) \/ Pointer(files') = Pointer(files)
<1>1. CASE WriteRecord(s)
  <2>1. errorRecordPath(command[s].key) # LastJson
    BY <1>1, WriteRecordKind DEF Clash, Sound
  <2> QED BY <1>1, <2>1, WriteRecordKind DEF Puts
<1>2. CASE RemoveRecord(s)
  <2>1. errorRecordPath(Head(command[s].todo)) # LastJson
    BY <1>2, RemoveRecordKind DEF Clash, Sound
  <2> QED BY <1>2, <2>1, RemoveRecordKind DEF Puts
<1>3. CASE Quits(s) \/ Reports(s) \/ Clears(s) \/ \E i \in Instances : Begins(s, i)
  BY <1>3 DEF Quits, Reports, Clears, Begins
<1>4. CASE WriteFails(s) \/ RecordFailure(s) \/ Cleared(s) \/ ReadPointer(s)
  BY <1>4 DEF WriteFails, RecordFailure, Cleared, ReadPointer
<1> QED BY <1>1, <1>2, <1>3, <1>4 DEF Kind

LEMMA PointedAtStep ==
  ASSUME TypeInv, TypeInv', Apart, PointedAtExists, NEW s \in Shells, Kind(s), Sound'
  PROVE  PointedAtExists'
<1> SUFFICES ASSUME NEW u \in Shells, command'[u].at = "point"
             PROVE  Stored(files', command'[u].key)
  BY DEF PointedAtExists
<1> DEFINE Before == command[u].at = "point" /\ command'[u].key = command[u].key
<1>1. ASSUME NEW i \in Instances, Begins(s, i) PROVE Stored(files', command'[u].key)
  <2>1. u \in Shells \ {s} /\ UNCHANGED files
    BY <1>1 DEF Begins
  <2>2. Before
    BY <1>1, <2>1, BeginOthers
  <2> QED BY <2>1, <2>2 DEF PointedAtExists
<1>2. CASE u = s
  <2>1. WriteRecord(s)
    <3>1. CASE Quits(s) \/ Reports(s) \/ Clears(s)
      BY <1>2, <3>1 DEF Quits, Reports, Clears
    <3>2. CASE RecordFailure(s) \/ Cleared(s)
      <4>1. Ends(s)
        BY <3>2, RecordFailureKind, ClearedKind
      <4> QED BY <1>2, <4>1 DEF Ends
    <3>3. CASE WritePointer(s) \/ WriteFails(s) \/ RemoveRecord(s)
      BY <1>2, <3>3, WritePointerKind, WriteFailsKind, RemoveRecordKind
    <3>4. CASE ReadPointer(s) \/ RemovePointer(s)
      BY <1>2, <3>4, ReadPointerKind, RemovePointerKind DEF Proceeds
    <3>5. ~\E i \in Instances : Begins(s, i)
      BY <1>2 DEF Begins
    <3> QED BY <3>1, <3>2, <3>3, <3>4, <3>5 DEF Kind
  <2>2. /\ Puts(errorRecordPath(command[s].key), buildLaunchErrorContext(command[s]))
        /\ command[s].key \in Keys /\ Keeps(s)
        /\ buildLaunchErrorContext(command[s]) \in LaunchErrorContext
        /\ errorRecordPath(command[s].key) # LastJson
    BY <2>1, WriteRecordKind DEF Clash, Sound
  <2>3. Record(files', errorRecordPath(command[s].key)) = buildLaunchErrorContext(command[s])
    BY <2>2 DEF Puts
  <2> QED BY <1>2, <2>2, <2>3, Distinct DEF Keeps, Stored, buildLaunchErrorContext
<1>3. CASE u # s /\ Unmoved(s) /\ Busy(s)
  <2>1. Before
    BY <1>3 DEF Unmoved
  <2>2. command[u].key \in Keys /\ Stored(files, command[u].key)
    BY <2>1 DEF PointedAtExists, TypeInv, CommandsOK, Held
  <2>3. RemoveRecord(s) => Head(command[s].todo) # command[u].key
    <3>1. errorRecordPath(command[u].key) \in FilesOf(command[u]) /\ command[u].at \in Touching
      BY <2>1 DEF FilesOf, Touching
    <3>2. ASSUME RemoveRecord(s) PROVE command[s].at = "clear" /\ command[s].todo # <<>>
      BY <3>2, RemoveRecordKind
    <3> QED BY <1>3, <3>1, <3>2, HeadTouched, ApartMeans
  <2> QED BY <2>1, <2>2, <2>3, StoredStays
<1> QED BY <1>1, <1>2, <1>3, KindMoves

\* At `look` and `unpoint` only a removal of the record or the reading of the
\* pointer brings a command; what it is at stays.
LEMMA UnpointingStep ==
  ASSUME TypeInv, NEW s \in Shells, Kind(s), NEW u \in Shells, Unpointing(u)'
  PROVE  /\ command'[u].todo = command[u].todo
         /\ \/ u = s /\ RemoveRecord(s)
            \/ u = s /\ ReadPointer(s) /\ command'[u].at = "unpoint"
               /\ Unpointing(u) /\ Pointer(files) = Head(command[u].todo)
            \/ u # s /\ Unpointing(u) /\ command'[u].at = command[u].at
<1> USE DEF Unpointing
<1>1. ASSUME NEW i \in Instances, Begins(s, i)
      PROVE  /\ u # s /\ command'[u].at = command[u].at
             /\ command'[u].todo = command[u].todo
  <2>1. u \in Shells \ {s}
    BY <1>1 DEF Begins
  <2> QED BY <1>1, <2>1, BeginOthers
<1>2. CASE u # s /\ Unmoved(s)
  BY <1>2 DEF Unmoved
<1>3. CASE u = s
  <2>1. CASE Quits(s) \/ Reports(s) \/ Clears(s)
    BY <1>3, <2>1 DEF Quits, Reports, Clears
  <2>2. CASE RecordFailure(s) \/ Cleared(s)
    <3>1. Ends(s)
      BY <2>2, RecordFailureKind, ClearedKind
    <3> QED BY <1>3, <3>1 DEF Ends
  <2>3. CASE WriteRecord(s) \/ WritePointer(s) \/ WriteFails(s)
    BY <1>3, <2>3, WriteRecordKind, WritePointerKind, WriteFailsKind
  <2>4. CASE RemoveRecord(s)
    BY <1>3, <2>4, RemoveRecordKind DEF Keeps
  <2>5. CASE ReadPointer(s) \/ RemovePointer(s)
    BY <1>3, <2>5, ReadPointerKind, RemovePointerKind DEF Proceeds, Keeps
  <2> QED BY <1>1, <1>3, <2>1, <2>2, <2>3, <2>4, <2>5 DEF Kind
<1> QED BY <1>1, <1>2, <1>3, KindMoves

LEMMA RemovedStep ==
  ASSUME TypeInv, TypeInv', Apart, Removed, NEW s \in Shells, Kind(s)
  PROVE  Removed'
<1> SUFFICES ASSUME NEW u \in Shells, Unpointing(u)'
             PROVE  Head(command'[u].todo) # last'
  BY DEF Removed
<1>1. command'[u].todo = command[u].todo /\ Head(command[u].todo) \in Keys
  <2>1. command'[u].todo = command[u].todo
    BY UnpointingStep
  <2>2. ~RemoveRecord(s) => Unpointing(u)
    BY UnpointingStep
  <2>3. u # s => Unpointing(u)
    BY UnpointingStep
  <2> QED BY <2>1, <2>2, <2>3, UnpointingTouched, RemoveRecordKind
<1>2. CASE RemoveRecord(s)
  <2>1. last' = IF last = Head(command[s].todo) THEN None ELSE last
    BY <1>2, RemoveRecordKind
  <2>2. u # s => Head(command[u].todo) # last
    <3>1. u # s => Unpointing(u)
      BY UnpointingStep
    <3> QED BY <3>1 DEF Removed
  <2> QED BY <1>1, <2>1, <2>2, Distinct
<1>3. CASE WritePointer(s)
  <2>1. /\ last' = command[s].key /\ command[s].at = "point" /\ command'[s].at = "failed"
        /\ ~RemoveRecord(s)
    BY <1>3, WritePointerKind DEF WritePointer, RemoveRecord
  <2>2. u # s /\ Unpointing(u)
    BY <2>1, UnpointingStep DEF Unpointing
  <2>3. errorRecordPath(command[s].key) \in FilesOf(command[s]) /\ command[s].at \in Touching
    BY <2>1 DEF FilesOf, Touching
  <2> QED BY <1>1, <2>1, <2>2, <2>3, UnpointingTouched, ApartMeans
<1>4. CASE UNCHANGED last /\ ~RemoveRecord(s)
  BY <1>1, <1>4, UnpointingStep DEF Removed
<1>5. RemoveRecord(s) \/ WritePointer(s) \/ UNCHANGED last
  <2>1. CASE Quits(s) \/ Reports(s) \/ Clears(s) \/ \E i \in Instances : Begins(s, i)
    BY <2>1 DEF Quits, Reports, Clears, Begins
  <2>2. CASE \/ WriteRecord(s) \/ WriteFails(s) \/ RecordFailure(s) \/ Cleared(s)
             \/ ReadPointer(s) \/ RemovePointer(s)
    BY <2>2 DEF WriteRecord, WriteFails, RecordFailure, Cleared, ReadPointer, RemovePointer
  <2> QED BY <2>1, <2>2 DEF Kind
<1> QED BY <1>2, <1>3, <1>4, <1>5

LEMMA ReadStandsStep ==
  ASSUME TypeInv, Apart, ReadStands, NEW s \in Shells, Kind(s), Sound'
  PROVE  ReadStands'
<1> SUFFICES ASSUME NEW u \in Shells, command'[u].at = "unpoint"
             PROVE  Pointer(files') = Head(command'[u].todo)
  BY DEF ReadStands
<1>1. /\ command'[u].todo = command[u].todo
      /\ \/ u = s /\ ReadPointer(s) /\ Pointer(files) = Head(command[u].todo)
         \/ u # s /\ command[u].at = "unpoint"
  BY UnpointingStep, RemoveRecordKind DEF Unpointing
<1>2. Pointer(files) = Head(command[u].todo)
  BY <1>1 DEF ReadStands
<1>3. CASE WritePointer(s)
  <2>1. /\ command[s].at = "point"
        /\ (\E t \in Shells : command[t].at = "unpoint") => "raced" \in odd'
    BY <1>3 DEF WritePointer
  <2> QED BY <1>1, <2>1 DEF Sound, ReadPointer
<1>4. CASE RemovePointer(s)
  <2>1. command[s].at = "unpoint" /\ Pointer(files) = Head(command[s].todo)
    BY <1>4 DEF RemovePointer, ReadStands
  <2>2. u # s /\ command[u].at = "unpoint"
    BY <1>1, <2>1 DEF ReadPointer
  <2> QED BY <1>2, <2>1, <2>2, UnpointingTouched, ApartMeans DEF Unpointing
<1> QED BY <1>1, <1>2, <1>3, <1>4, PointerKind

LEMMA PointedStep ==
  ASSUME TypeInv, TypeInv', Apart, PointedAtExists, Removed, ReadStands, Pointed,
         NEW s \in Shells, Kind(s), Sound'
  PROVE  Pointed'
<1>1. CASE WritePointer(s)
  <2>1. /\ Pointer(files') = command[s].key /\ last' = command[s].key
        /\ command[s].at = "point" /\ command[s].key \in Keys /\ ~RemoveRecord(s)
    BY <1>1, WritePointerKind DEF RemoveRecord
  <2>2. Stored(files', command[s].key)
    BY <2>1, StoredStays DEF PointedAtExists
  <2> QED BY <2>1, <2>2 DEF Pointed
<1>2. CASE RemovePointer(s)
  <2>1. Pointer(files') = None /\ last' = last /\ command[s].at = "unpoint"
    BY <1>2, RemovePointerKind
  <2>2. Pointer(files) = Head(command[s].todo) /\ Head(command[s].todo) # last
    BY <2>1 DEF ReadStands, Removed, Unpointing
  <2>3. last' = None
    BY <2>1, <2>2 DEF Pointed
  <2> QED BY <2>1, <2>3 DEF Pointed
<1>3. CASE RemoveRecord(s)
  <2>1. /\ last' = IF last = Head(command[s].todo) THEN None ELSE last
        /\ Unmoved(s) /\ Keeps(s)
        /\ command[s].at = "clear" /\ command'[s].at = "look"
    BY <1>3, RemoveRecordKind
  <2>2. Pointer(files') = Pointer(files)
    BY <1>3, PointerKind DEF RemoveRecord, WritePointer, RemovePointer
  <2>3. CASE Pointer(files) = last /\ last = Head(command[s].todo)
    <3>1. Unpointing(s)' /\ Head(command'[s].todo) = Pointer(files') /\ last' = None
      BY <2>1, <2>2, <2>3 DEF Unpointing, Keeps
    <3> QED BY <3>1 DEF Pointed
  <2>4. CASE /\ Pointer(files) = last /\ last # Head(command[s].todo)
             /\ last # None => Stored(files, last)
    <3>1. last' = last /\ (last # None => Stored(files', last))
      BY <2>1, <2>4, StoredStays DEF TypeInv, FilesOK
    <3> QED BY <2>2, <2>4, <3>1 DEF Pointed
  <2>5. ASSUME last = None, NEW t \in Shells, Unpointing(t),
               Head(command[t].todo) = Pointer(files)
        PROVE  Pointed'
    <3>1. t # s /\ command'[t] = command[t]
      BY <2>1, <2>5 DEF Unpointing, Unmoved
    <3>2. Unpointing(t)' /\ Head(command'[t].todo) = Pointer(files') /\ last' = None
      BY <2>1, <2>2, <2>5, <3>1 DEF Unpointing
    <3> QED BY <3>2 DEF Pointed
  <2> QED BY <2>3, <2>4, <2>5 DEF Pointed
<1>4. CASE ~WritePointer(s) /\ ~RemovePointer(s) /\ ~RemoveRecord(s)
  <2>1. Pointer(files') = Pointer(files) /\ last' = last
    <3>1. CASE Quits(s) \/ Reports(s) \/ Clears(s) \/ \E i \in Instances : Begins(s, i)
      BY <3>1 DEF Quits, Reports, Clears, Begins
    <3>2. CASE \/ WriteRecord(s) \/ WriteFails(s) \/ RecordFailure(s) \/ Cleared(s)
               \/ ReadPointer(s)
      BY <1>4, <3>2, PointerKind
      DEF WriteRecord, WriteFails, RecordFailure, Cleared, ReadPointer
    <3> QED BY <1>4, <3>1, <3>2 DEF Kind
  <2>2. CASE Pointer(files) = last /\ (last # None => Stored(files, last))
    <3>1. last # None => Stored(files', last)
      BY <1>4, <2>2, StoredStays DEF TypeInv, FilesOK
    <3> QED BY <2>1, <2>2, <3>1 DEF Pointed
  <2>3. ASSUME last = None, NEW t \in Shells, Unpointing(t),
               Head(command[t].todo) = Pointer(files)
        PROVE  Pointed'
    <3>1. Unpointing(t)' /\ command'[t].todo = command[t].todo
      <4>1. ASSUME NEW i \in Instances, Begins(s, i)
            PROVE  Unpointing(t)' /\ command'[t].todo = command[t].todo
        <5>1. t \in Shells \ {s}
          BY <2>3, <4>1 DEF Begins, Busy, Unpointing
        <5> QED BY <2>3, <4>1, <5>1, BeginOthers DEF Unpointing
      <4>2. CASE t # s /\ Unmoved(s)
        BY <2>3, <4>2 DEF Unmoved, Unpointing
      <4>3. CASE t = s
        <5>1. ~Quits(s)
          BY <2>3, <4>3 DEF Quits, Sound, Unpointing
        <5>2. ~Reports(s) /\ ~Clears(s) /\ ~RecordFailure(s) /\ ~Cleared(s)
          BY <2>3, <4>3
          DEF Reports, Clears, RecordFailure, Cleared, AllCleared, Unpointing
        <5>3. ~WriteRecord(s) /\ ~WriteFails(s)
          BY <2>3, <4>3 DEF WriteRecord, WriteFails, Unpointing
        <5>4. ReadPointer(s) \/ \E i \in Instances : Begins(s, i)
          BY <1>4, <5>1, <5>2, <5>3 DEF Kind
        <5>5. CASE ReadPointer(s)
          BY <2>3, <4>3, <5>5, ReadPointerKind DEF Keeps, Unpointing
        <5> QED BY <4>1, <5>4, <5>5
      <4> QED BY <4>1, <4>2, <4>3, KindMoves
    <3> QED BY <2>1, <2>3, <3>1 DEF Pointed
  <2> QED BY <2>2, <2>3 DEF Pointed
<1> QED BY <1>1, <1>2, <1>3, <1>4

LEMMA BareInvariant == Spec => []BareInv
<1>1. Init => BareInv
  <2> SUFFICES ASSUME Init PROVE BareInv
    OBVIOUS
  <2>1. Pointer(files) = None
    BY Paths DEF Init, Pointer
  <2> QED BY <2>1 DEF Init, BareInv, Apart, Overlapping, Touching, PointedAtExists, Removed,
                      ReadStands, Pointed, Unpointing, Idle
<1>2. TypeInv /\ BareInv /\ [Next]_vars => BareInv'
  <2> SUFFICES ASSUME TypeInv, BareInv, [Next]_vars PROVE BareInv'
    OBVIOUS
  <2>1. CASE UNCHANGED vars
    BY <2>1 DEF vars, BareInv, Sound, Apart, Overlapping, FilesOf, PointedAtExists, Removed,
                ReadStands, Pointed, Unpointing
  <2>2. ASSUME NEW s \in Shells, Kind(s) PROVE BareInv'
    <3>1. TypeInv' /\ (Sound' => Sound)
      BY NextKind, OddGrows DEF Sound
    <3> QED BY <2>2, <3>1, ApartStep, PointedAtStep, RemovedStep, ReadStandsStep, PointedStep
            DEF BareInv
  <2> QED BY <2>1, <2>2, NextKind
<1> QED BY <1>1, <1>2, TypeInvariant, PTL DEF Spec

\* Bare, `diagnose` shows the failure captured last, and last.json names no
\* record that is gone, whatever was killed while it wrote.
THEOREM BareDiagnoseHolds == Spec => []BareDiagnose
<1>1. TypeInv /\ BareInv => BareDiagnose
  <2> SUFFICES ASSUME TypeInv, BareInv, Sound, \A s \in Shells : ~Unpointing(s)
               PROVE  /\ readLastPointer = last
                      /\ last # None => handleDiagnose(None) # None
    BY DEF BareDiagnose, Sound, Unpointing
  <2>1. Pointer(files) = last /\ (last # None => Stored(files, last))
    BY DEF BareInv, Pointed
  <2>2. last \in Keys \cup {None}
    BY DEF TypeInv, FilesOK
  <2> QED BY <2>1, <2>2, Reads DEF handleDiagnose, readLaunchErrorRecord, Stored
<1> QED BY <1>1, TypeInvariant, BareInvariant, PTL
=============================================================================
