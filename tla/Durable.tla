-------------------------------- MODULE Durable --------------------------------
(***************************************************************************)
(* One state file of the collector and the threads that save it            *)
(* (collector.py:189-260, runtime.py:35-214): a temporary file beside it,  *)
(* a rename, and a cache of what was written last so that an unchanged     *)
(* text is not written again.                                              *)
(*                                                                         *)
(* Files are numbered as they are created.  A number and a count of        *)
(* changes stand for the stat fields of a signature.                       *)
(***************************************************************************)
EXTENDS Naturals, Sequences

CONSTANTS
  Savers,       \* threads
  Texts,        \* what they save
  Foreign,      \* what somebody else may put there
  MaxFiles,     \* bound: files created
  MaxMeddling,  \* bound: changes by others, crashes and losses of power
  Absent,       \* no file, no thread, nothing cached
  Strange       \* a signature of no file

ASSUME DurableAssumption ==
  /\ Foreign \notin Texts
  /\ {MaxFiles, MaxMeddling} \subseteq Nat
\* No thread is none, no file is missing, and no file has the strange signature.
ASSUME DurableValuesAssumption ==
  /\ Absent \notin Savers /\ Absent \notin 1..MaxFiles
  /\ Strange \notin [file : 1..MaxFiles, changes : 0..(MaxMeddling + 1)]

VARIABLES
  files,     \* the files there ever were, in order of creation
  name,      \* the file under the path
  temp,      \* the file under the temporary name
  cached,    \* _state_write_cache: a text and a signature
  pathLock,  \* holder of _state_path_lock
  saver,     \* what each thread is doing, its text and its open file
  meddling

durableVars == <<files, name, temp, cached, pathLock, saver, meddling>>

Still == [at |-> "idle", text |-> Absent, fd |-> Absent]
Signature(f) == [file |-> f, changes |-> files[f].changes]
Good(f) == files[f].text = cached.text /\ files[f].whole /\ files[f].mode
Steps(t, to) == saver' = [saver EXCEPT ![t].at = to]

\* The end of _write_state_json, however it ends.
Finish(t) == saver' = [saver EXCEPT ![t] = Still] /\ pathLock' = Absent

NewFile(text, whole) == [text |-> text, whole |-> whole, safe |-> FALSE, mode |-> TRUE,
                         changes |-> 0, raced |-> FALSE]

-----------------------------------------------------------------------------
(* _write_state_json.                                                      *)

\* The directory is safe, or nothing is written.
Save(t, text) ==
  /\ saver[t].at = "idle"
  /\ saver' = [saver EXCEPT ![t].at = "lock", ![t].text = text]
  /\ UNCHANGED <<files, name, temp, cached, pathLock, meddling>>

Acquire(t) ==
  /\ saver[t].at = "lock" /\ pathLock = Absent
  /\ pathLock' = t /\ Steps(t, "check")
  /\ UNCHANGED <<files, name, temp, cached, meddling>>

\* A cached text whose file is untouched is not written again.
Check(t) ==
  /\ saver[t].at = "check"
  /\ IF cached = Absent \/ name = Absent \/ cached.text # saver[t].text
     THEN Steps(t, "clear") /\ UNCHANGED pathLock
     ELSE IF Signature(name) = cached.signature THEN Finish(t)
     ELSE Steps(t, "compare") /\ UNCHANGED pathLock
  /\ UNCHANGED <<files, name, temp, cached, meddling>>

\* A file that only looks different is read, with its signature, through one descriptor.
Compare(t) ==
  /\ saver[t].at = "compare"
  /\ IF name # Absent /\ Good(name)
     THEN cached' = [cached EXCEPT !.signature = Signature(name)] /\ Finish(t)
     ELSE Steps(t, "clear") /\ UNCHANGED <<cached, pathLock>>
  /\ UNCHANGED <<files, name, temp, meddling>>

-----------------------------------------------------------------------------
(* _atomic_write.                                                          *)

Clear(t) ==
  /\ saver[t].at = "clear"
  /\ temp' = Absent /\ Steps(t, "open")
  /\ UNCHANGED <<files, name, cached, pathLock, meddling>>

\* O_EXCL: the name must be free, and the disk have room (MaxFiles).  Only the writer knows that the file is not whole yet.
Open(t) ==
  /\ saver[t].at = "open"
  /\ IF temp # Absent \/ Len(files) = MaxFiles THEN Finish(t) /\ UNCHANGED <<files, temp>>
     ELSE /\ files' = Append(files, NewFile(saver[t].text, FALSE))
          /\ temp' = Len(files')
          /\ saver' = [saver EXCEPT ![t].at = "fill", ![t].fd = temp']
          /\ UNCHANGED pathLock
  /\ UNCHANGED <<name, cached, meddling>>

\* write, flush, fsync, fchmod.
Sync(file) == [file EXCEPT !.whole = TRUE, !.safe = TRUE, !.changes = 1]

\* The disk may be full.
Fill(t, room) ==
  /\ saver[t].at = "fill"
  /\ files' = IF room THEN [files EXCEPT ![saver[t].fd] = Sync(@)] ELSE files
  /\ Steps(t, IF room THEN "swap" ELSE "undo")
  /\ UNCHANGED <<name, temp, cached, pathLock, meddling>>

\* os.replace moves whatever is under the temporary name.
Swap(t) ==
  /\ saver[t].at = "swap"
  /\ IF temp = Absent THEN Steps(t, "undo") /\ UNCHANGED <<name, temp>>
     ELSE name' = temp /\ temp' = Absent /\ Steps(t, "note")
  /\ UNCHANGED <<files, cached, pathLock, meddling>>

\* Mistaken variant of Installed: the signature of what is under the path by now.
InstalledPath(t) == IF name = Absent THEN Strange ELSE Signature(name)
\* The signature of what was written, through its descriptor.
Installed(t) == Signature(saver[t].fd)

\* Some file systems give a descriptor another identity than the path.
Note(t, odd) ==
  /\ saver[t].at = "note"
  /\ cached' = [text |-> saver[t].text, signature |-> IF odd THEN Strange ELSE Installed(t)]
  /\ Finish(t)
  /\ UNCHANGED <<files, name, temp, meddling>>

\* An error before the rename: the temporary file goes.
Undo(t) ==
  /\ saver[t].at = "undo"
  /\ temp' = Absent /\ Finish(t)
  /\ UNCHANGED <<files, name, cached, meddling>>

-----------------------------------------------------------------------------
(* Others.                                                                 *)

Meddle == meddling < MaxMeddling /\ meddling' = meddling + 1

\* Somebody puts a file there: another text, or the same (from a backup).
Replace(text) ==
  /\ Meddle /\ Len(files) < MaxFiles
  /\ files' = Append(files, [NewFile(text, TRUE) EXCEPT !.safe = TRUE])
  /\ name' = Len(files')
  /\ UNCHANGED <<temp, cached, pathLock, saver>>

Remove ==
  /\ Meddle /\ name # Absent
  /\ name' = Absent
  /\ UNCHANGED <<files, temp, cached, pathLock, saver>>

\* Somebody edits the file, or changes its mode.  History: whether that was between the
\* rename and the note.
Noting == \E t \in Savers : saver[t].at = "note" /\ saver[t].fd = name
Touch(text, mode) ==
  /\ Meddle /\ name # Absent
  /\ files' = [files EXCEPT ![name].text = text, ![name].mode = mode,
                           ![name].changes = @ + 1, ![name].raced = @ \/ Noting]
  /\ UNCHANGED <<name, temp, cached, pathLock, saver>>

\* The collector dies.  The next one has the same process id, as in a container, or
\* another one, and then its own temporary name.
Restart(sameId) ==
  /\ saver' = [t \in Savers |-> Still]
  /\ pathLock' = Absent /\ cached' = Absent
  /\ temp' = IF sameId THEN temp ELSE Absent

CollectorDies(sameId) ==
  /\ Meddle /\ Restart(sameId)
  /\ UNCHANGED <<files, name>>

\* The machine dies: what was not synced is lost.
LosePower(sameId) ==
  /\ Meddle /\ Restart(sameId)
  /\ files' = [f \in DOMAIN files |-> [files[f] EXCEPT !.whole = @ /\ files[f].safe]]
  /\ UNCHANGED name

-----------------------------------------------------------------------------
DurableInit ==
  /\ files = <<>> /\ name = Absent /\ temp = Absent
  /\ cached = Absent /\ pathLock = Absent
  /\ saver = [t \in Savers |-> Still]
  /\ meddling = 0

DurableNext ==
  \/ \E t \in Savers :
       \/ \E text \in Texts : Save(t, text)
       \/ Acquire(t) \/ Check(t) \/ Compare(t)
       \/ Clear(t) \/ Open(t) \/ Swap(t) \/ Undo(t)
       \/ \E room \in BOOLEAN : Fill(t, room)
       \/ \E odd \in BOOLEAN : Note(t, odd)
  \/ \E text \in Texts \cup {Foreign} :
       Replace(text) \/ \E mode \in BOOLEAN : Touch(text, mode)
  \/ Remove
  \/ \E sameId \in BOOLEAN : CollectorDies(sameId) \/ LosePower(sameId)

DurableSpec == DurableInit /\ [][DurableNext]_durableVars

-----------------------------------------------------------------------------
\* Threads that save at once, full disks, deaths and losses of power leave a whole text
\* under the path or none (runtime.py:122, 143).  A file that passes for the one written
\* last has the cached text and mode, whatever others do, even if they replace it between
\* the rename and the note (collector.py:190, runtime.py:163): else a text would never be
\* saved again.  Only an edit of the file itself in that moment is taken for ours.
StateFileIsHonest ==
  /\ name # Absent => files[name].whole
  /\ name # Absent /\ cached # Absent /\ cached.signature = Signature(name) =>
       Good(name) \/ files[name].raced
=============================================================================
