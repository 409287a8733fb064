--------------------------- MODULE ErrorRecords ----------------------------
(***************************************************************************)
(* The records `launchfile diagnose` reads: errors/<key>.json, one per key, *)
(* and errors/last.json, the pointer to the latest one.  Several commands   *)
(* of several instances write and clear them at once, a file at a time:     *)
(* `up` (dry or not), `bootstrap` and `down --destroy` of either provider,  *)
(* each of which may be killed between two steps.                           *)
(*                                                                         *)
(* An instance of the docker provider is known by its slug once there is    *)
(* one and by what the operator typed before that; one of the native        *)
(* provider is known by its directory.                                      *)
(*                                                                         *)
(* The names of all these files are made from keys, and safeKey sees to it  *)
(* that they are names: it replaces characters and cuts.  Two keys may get  *)
(* one file, and an app named `last` gets that of the pointer.              *)
(***************************************************************************)
EXTENDS Naturals, Sequences, Functions

CONSTANTS
  Instances,    \* records [slug, dir, provider]; a native one has a slug of "native"
  Typed,        \* Typed[dir]: the forms in which `up` is given the directory
  Phases,       \* the phases in which a launch is made to fail
  Shells,       \* where commands run, one at a time in each
  MaxCommands,  \* bound on the commands begun
  Files,        \* the names of files under errors/
  LastJson,     \* that of the pointer
  safeKey,      \* safeKey[key]: the name of the file of the key's record
  None          \* no file, no key

VARIABLES
  files,     \* what is in each file: a record, a pointer, or None
  rows,      \* the index: instance -> status, or None without a row
  command,   \* what runs in each shell
  left,      \* the failure that left something of an instance running, or None
  begun,     \* how many commands have begun
  last,      \* the key last captured, until it is cleared
  odd        \* what the properties make an exception for

vars == <<files, rows, command, left, begun, last, odd>>

\* A key is a slug, or what was typed or resolved for a source.
Words == UNION {{i.slug, i.dir} \cup Typed[i.dir] : i \in Instances}
Keys  == {"slug", "src"} \X Words

\* What a record says: the phase of which instance failed; and, of a failure
\* before there was a slug, what was typed.
LaunchErrorContext ==
  [key : Keys, phase : Phases \cup {"resolve", "unknown", "bootstrap"},
   of : Instances, typed : Words \cup {None}]

LastErrorPointer == [key : Keys]

Status == {"up", "unhealthy", "unknown"}

ASSUME ErrorRecordsAssumption ==
  /\ \A i \in Instances : i.provider \in {"docker", "macos"}
  /\ LastJson \in Files /\ safeKey \in [Keys -> Files]
  /\ None \notin Instances
  /\ None \notin Words \cup Keys \cup LaunchErrorContext \cup LastErrorPointer
                  \cup Status

----------------------------------------------------------------------------
(* Keys                                                                    *)

sourceErrorKey(source) == <<"src", source>>

dockerErrorKey(slug, source) ==
  IF slug # None THEN <<"slug", slug>> ELSE sourceErrorKey(source)

macosErrorKey(i) == sourceErrorKey(i.dir)

\* Faulty: one derivation for both providers.
SlugOf(i) == dockerErrorKey(i.slug, i.dir)

\* The key a deployment is cleared and looked up under, from its index row.
KeyOf(i) ==
  IF i.provider = "docker" THEN dockerErrorKey(i.slug, None) ELSE macosErrorKey(i)

\* Faulty: what failed before there was a slug stays.
SlugSuperseded(i, typed) == <<KeyOf(i)>>

\* What a success supersedes: also what failed before there was a slug.
SupersededBy(i, typed) ==
  IF i.provider = "docker" THEN <<KeyOf(i), dockerErrorKey(None, typed)>>
  ELSE <<KeyOf(i)>>

----------------------------------------------------------------------------
(* Reading the files                                                       *)

errorRecordPath(key) == safeKey[key]

\* A pointer is not taken for a record.  A record is taken for a pointer: it has
\* a version and a key as well.
parseLaunchErrorContext(raw) == IF raw \in LaunchErrorContext THEN raw ELSE None

RecordIn(file) == parseLaunchErrorContext(files[file])

readLastPointer == IF files[LastJson] = None THEN None ELSE files[LastJson].key

readLaunchErrorRecord(key) ==
  IF key \in Keys THEN RecordIn(errorRecordPath(key)) ELSE None

----------------------------------------------------------------------------
(* What a failure becomes on its way out of the provider                   *)

Raw == [kind |-> "raw", phase |-> None]
Refusal == [kind |-> "refusal", phase |-> None]

\* A launch error carries its phase, its key and what the command printed.
LaunchError(phase) == [kind |-> "launch", phase |-> phase]

launchErrorFrom(phase, err) == LaunchError(phase)

\* The innermost phase wins, and a deliberate refusal is no launch error.
inPhase(phase, err) == IF err.kind = "raw" THEN launchErrorFrom(phase, err) ELSE err

\* A required variable nobody supplied: a refusal, and a launch error as well.
UnsuppliedRequiredEnvError == LaunchError("resolve")

\* What may be thrown within the outer wrapper: from a phase, or from none.
Thrown(refusals) ==
  {inPhase("unknown", err) :
     err \in {inPhase(p, Raw) : p \in Phases} \cup {Raw} \cup refusals}

\* The source is resolved before there is a slug, outside the outer wrapper.
dockerFailures(i) ==
  {[err |-> inPhase("resolve", Raw), slug |-> None]} \cup
  {[err |-> e, slug |-> i.slug] : e \in Thrown({Refusal, UnsuppliedRequiredEnvError})}

macosFailures(i) == {[err |-> e, slug |-> i.slug] : e \in Thrown({Refusal})}

Failures(i) == IF i.provider = "docker" THEN dockerFailures(i) ELSE macosFailures(i)

ErrorKey(i, f, typed) ==
  IF i.provider = "docker" THEN dockerErrorKey(f.slug, typed) ELSE macosErrorKey(i)

\* The index says what exists, not what succeeded.
failedDeploymentStatus(phase) ==
  CASE phase = "health" -> "unhealthy"
    [] phase \in {"release", "run"} -> "unknown"
    [] OTHER -> None

macosFailedDeploymentStatus(phase) ==
  CASE phase = "health" -> "unhealthy"
    [] phase = "run" -> "unknown"
    [] OTHER -> None

FailedStatus(i, phase) ==
  IF i.provider = "docker" THEN failedDeploymentStatus(phase)
  ELSE macosFailedDeploymentStatus(phase)

----------------------------------------------------------------------------
(* Commands, one at a time in each shell                                   *)

Idle ==
  [at |-> "idle", op |-> None, of |-> None, known |-> FALSE, alone |-> FALSE,
   phase |-> None, key |-> None, typed |-> None, todo |-> <<>>, stale |-> {}]

Busy(s) == command[s].at # "idle"

\* Where the command is and what it holds there.
Goto(s, at) == command' = [command EXCEPT ![s].at = at]

\* For the properties: the records that a command's success is to supersede.
\* What failed before there was a slug goes only with an `up` that is given the
\* same words.
StaleFor(op, i, typed) ==
  {file \in Files :
     LET record == RecordIn(file) IN
     /\ record # None /\ record.of = i
     /\ record.typed # None => op = "up" /\ record.typed = typed}

\* `alone` is for the properties too: no other command of the instance has run
\* beside this one.
Others(s, i) == {t \in Shells \ {s} : Busy(t) /\ command[t].of = i}

Begun(s, op, i) ==
  [Idle EXCEPT !.at = "work", !.op = op, !.of = i, !.known = rows[i] # None,
               !.alone = Others(s, i) = {}]

Touching == {"record", "point", "clear", "look", "unpoint"}

FilesOf(c) ==
  IF c.at \in {"record", "point"} THEN {errorRecordPath(c.key)}
  ELSE {errorRecordPath(key) : key \in Range(c.todo)}

\* Two commands are at one record at once.
Overlapping(commands) ==
  \E s, t \in Shells :
    /\ s # t /\ commands[s].at \in Touching /\ commands[t].at \in Touching
    /\ FilesOf(commands[s]) \cap FilesOf(commands[t]) # {}

\* The command goes on as c.
Step(s, c) ==
  /\ command' = [command EXCEPT ![s] = c]
  /\ odd' = odd \cup IF Overlapping(command') THEN {"overlap"} ELSE {}

Leave(s) == command' = [command EXCEPT ![s] = Idle] /\ UNCHANGED odd

Begin(s, op, i) ==
  /\ ~Busy(s) /\ begun < MaxCommands /\ begun' = begun + 1
  /\ command' = [t \in Shells |->
                   IF t = s THEN Begun(s, op, i)
                   ELSE IF t \in Others(s, i) THEN [command[t] EXCEPT !.alone = FALSE]
                   ELSE command[t]]
  /\ left' = [left EXCEPT ![i] = None]
  /\ UNCHANGED <<files, rows, last, odd>>

BeginUp(s) == \E i \in Instances : Begin(s, "up", i)

\* Both need the deployment in the index.
BeginDestroy(s) == \E i \in Instances : rows[i] # None /\ Begin(s, "destroy", i)
BeginBootstrap(s) == \E i \in Instances : rows[i] # None /\ Begin(s, "bootstrap", i)

\* What was typed is no key of the native provider.  It is chosen where it is
\* first asked for, and so is whether this is a dry run.
TypedFor(i) == IF i.provider = "docker" THEN Typed[i.dir] ELSE {None}

At(s, op, at) == command[s].at = at /\ command[s].op = op

\* The launch throws.  What is no launch error is printed and leaves nothing.
UpFails(s) ==
  LET c == command[s] IN
  /\ At(s, "up", "work")
  /\ \E f \in Failures(c.of), typed \in TypedFor(c.of) :
       IF f.err.kind = "launch"
       THEN Step(s, [c EXCEPT !.at = "record", !.phase = f.err.phase,
                              !.key = ErrorKey(c.of, f, typed),
                              !.typed = IF f.slug = None THEN typed ELSE None])
       ELSE Leave(s)
  /\ UNCHANGED <<files, rows, last, left, begun>>

\* A dry run neither supersedes a failure nor is recorded.
UpSucceeds(s) ==
  LET c == command[s] IN
  /\ At(s, "up", "work")
  /\ \/ Leave(s)
     \/ \E typed \in TypedFor(c.of) :
          Step(s, [c EXCEPT !.at = "clear", !.todo = SupersededBy(c.of, typed),
                            !.stale = StaleFor("up", c.of, typed)])
  /\ UNCHANGED <<files, rows, last, left, begun>>

\* `down` threw and nothing follows; or the app is gone, with its row.
DestroyFails(s) ==
  /\ At(s, "destroy", "work") /\ Leave(s)
  /\ UNCHANGED <<files, rows, last, left, begun>>

DestroySucceeds(s) ==
  LET c == command[s] IN
  /\ At(s, "destroy", "work")
  /\ rows' = [rows EXCEPT ![c.of] = None]
  /\ Step(s, [c EXCEPT !.at = "clear", !.todo = <<KeyOf(c.of)>>,
                       !.stale = StaleFor("destroy", c.of, None)])
  /\ UNCHANGED <<files, last, left, begun>>

\* A bootstrap reports its failure and changes no status.
BootstrapFails(s) ==
  LET c == command[s] IN
  /\ At(s, "bootstrap", "work")
  /\ Step(s, [c EXCEPT !.at = "record", !.phase = "bootstrap", !.key = KeyOf(c.of)])
  /\ UNCHANGED <<files, rows, last, left, begun>>

BootstrapSucceeds(s) ==
  /\ At(s, "bootstrap", "work") /\ Leave(s)
  /\ UNCHANGED <<files, rows, last, left, begun>>

----------------------------------------------------------------------------
(* The files, one write or removal at a time                               *)


\* The record of another instance is about to go; or that of another key, or
\* the pointer, in whose file this one is.
Clash(s, key) ==
  LET file   == errorRecordPath(key)
      record == RecordIn(file) IN
  (IF record # None /\ record.of # command[s].of THEN {"foreign"} ELSE {})
    \cup (IF file = LastJson \/ (record # None /\ record.key # key)
          THEN {"clash"} ELSE {})

buildLaunchErrorContext(c) ==
  [key |-> c.key, phase |-> c.phase, of |-> c.of, typed |-> c.typed]

\* The record is renamed into place, and the pointer only after it.
WriteRecord(s) ==
  LET c == command[s] IN
  /\ c.at = "record"
  /\ files' = [files EXCEPT ![errorRecordPath(c.key)] = buildLaunchErrorContext(c)]
  /\ Goto(s, "point")
  /\ odd' = odd \cup Clash(s, c.key)
  /\ UNCHANGED <<rows, last, left, begun>>

WritePointer(s) ==
  /\ command[s].at = "point"
  /\ files' = [files EXCEPT ![LastJson] = [key |-> command[s].key]]
  /\ last' = command[s].key
  /\ Goto(s, "failed")
  /\ odd' = odd \cup IF \E t \in Shells : command[t].at = "unpoint"
                    THEN {"raced"} ELSE {}
  /\ UNCHANGED <<rows, left, begun>>

\* A failure to write either is swallowed: the launch error itself goes on.
WriteFails(s) ==
  /\ command[s].at \in {"record", "point"}
  /\ Step(s, [command[s] EXCEPT !.at = "failed", !.key = None])
  /\ UNCHANGED <<files, rows, last, left, begun>>

\* A row is added, or refreshed as long as it is still there.
Registered(c, status) ==
  IF c.known => rows[c.of] # None THEN [rows EXCEPT ![c.of] = status] ELSE rows

\* The row a failed launch earns, when containers or processes may run.
RecordFailure(s) ==
  LET c == command[s]
      status == FailedStatus(c.of, c.phase) IN
  /\ c.at = "failed"
  /\ \/ /\ c.op = "up"
        /\ rows' = IF status # None THEN Registered(c, status) ELSE rows
        /\ left' = IF c.alone /\ c.phase \in {"run", "health"}
                   THEN [left EXCEPT ![c.of] = [phase |-> c.phase, key |-> c.key]]
                   ELSE left
     \/ UNCHANGED <<rows, left>>   \* a dry run, or a bootstrap
  /\ Leave(s)
  /\ UNCHANGED <<files, last, begun>>

\* clearLaunchErrorRecord removes the record, reads the pointer and removes it
\* if it names the key: three steps, within which others write.
RemoveRecord(s) ==
  LET key == Head(command[s].todo) IN
  /\ command[s].at = "clear" /\ command[s].todo # <<>>
  /\ files' = [files EXCEPT ![errorRecordPath(key)] = None]
  /\ last' = IF last = key THEN None ELSE last
  /\ Goto(s, "look")
  /\ odd' = odd \cup Clash(s, key)
  /\ UNCHANGED <<rows, left, begun>>

\* Faulty: the pointer goes with any record.
ReadNothing(s) ==
  /\ command[s].at = "look"
  /\ Goto(s, "unpoint") /\ UNCHANGED odd
  /\ UNCHANGED <<files, rows, last, left, begun>>

ReadPointer(s) ==
  LET c == command[s] IN
  /\ c.at = "look"
  /\ Step(s, IF readLastPointer = Head(c.todo) THEN [c EXCEPT !.at = "unpoint"]
             ELSE [c EXCEPT !.at = "clear", !.todo = Tail(c.todo)])
  /\ UNCHANGED <<files, rows, last, left, begun>>

RemovePointer(s) ==
  LET c == command[s] IN
  /\ c.at = "unpoint"
  /\ files' = [files EXCEPT ![LastJson] = None]
  /\ Step(s, [c EXCEPT !.at = "clear", !.todo = Tail(c.todo)])
  /\ UNCHANGED <<rows, last, left, begun>>

\* Everything is cleared: an `up` records the deployment as up.
AllCleared(c) == c.at = "clear" /\ c.todo = <<>>

Cleared(s) ==
  LET c == command[s] IN
  /\ AllCleared(c)
  /\ rows' = IF c.op = "up" THEN Registered(c, "up") ELSE rows
  /\ Leave(s)
  /\ UNCHANGED <<files, last, left, begun>>

\* Ctrl+C or a crash, between any two steps.
Kill(s) ==
  /\ Busy(s)
  /\ command' = [command EXCEPT ![s] = Idle]
  /\ odd' = odd \cup IF command[s].at \in {"look", "unpoint"} THEN {"half"} ELSE {}
  /\ UNCHANGED <<files, rows, last, left, begun>>

Init ==
  /\ files = [f \in Files |-> None] /\ last = None
  /\ rows = [i \in Instances |-> None] /\ left = [i \in Instances |-> None]
  /\ command = [s \in Shells |-> Idle] /\ begun = 0 /\ odd = {}

Next ==
  \E s \in Shells :
    \/ BeginUp(s) \/ BeginDestroy(s) \/ BeginBootstrap(s)
    \/ UpFails(s) \/ UpSucceeds(s)
    \/ DestroyFails(s) \/ DestroySucceeds(s)
    \/ BootstrapFails(s) \/ BootstrapSucceeds(s)
    \/ WriteRecord(s) \/ WritePointer(s) \/ WriteFails(s) \/ RecordFailure(s)
    \/ RemoveRecord(s) \/ ReadPointer(s) \/ RemovePointer(s) \/ Cleared(s)
    \/ Kill(s)

Spec == Init /\ [][Next]_vars

----------------------------------------------------------------------------
(* What `diagnose` shows                                                   *)

\* A deployment id is no key: its index row says where to look.
resolveKey(i) == IF rows[i] # None THEN KeyOf(i) ELSE None

\* Bare, it shows what the pointer names.
handleDiagnose(target) ==
  readLaunchErrorRecord(IF target = None THEN readLastPointer ELSE resolveKey(target))

----------------------------------------------------------------------------
(* Properties                                                              *)

\* A bare `diagnose` shows the failure captured last until it is cleared, and
\* last.json never names a record that is gone, whatever is killed while it
\* writes.  Not so when two commands are at one record together, when a removal
\* is killed half way, when it removes a pointer it has not read, or when a
\* record has shared its file with that of another key or with the pointer.
BareDiagnose ==
  odd \cap {"overlap", "half", "raced", "clash"} = {}
    /\ (\A s \in Shells : command[s].at \notin {"look", "unpoint"}) =>
  /\ readLastPointer = last
  /\ last # None => handleDiagnose(None) # None

\* A record does not outlive its relevance: when an `up` has succeeded or a
\* destroy comes to its end, no record is left that it found of its instance,
\* unless another command of the instance ran beside it.
RecordsRelevant ==
  \A s \in Shells : AllCleared(command[s]) /\ command[s].alone =>
    \A file \in command[s].stale :
      RecordIn(file) # None => RecordIn(file).of # command[s].of

\* A launch that failed and left something running has a row, and `diagnose`
\* with its deployment id shows that failure, as long as no later command of
\* the instance has begun and none of another instance has taken the record.
\* Not so for an app whose record has the file of the pointer, that is, one
\* named `last`: writing the pointer is the end of the record.
DiagnoseFinds ==
  "foreign" \notin odd =>
    \A i \in Instances : left[i] # None =>
      /\ rows[i] \notin {None, "up"}
      /\ left[i].key # None /\ errorRecordPath(left[i].key) # LastJson =>
           handleDiagnose(i) = [key |-> left[i].key, phase |-> left[i].phase,
                                of |-> i, typed |-> None]

============================================================================
