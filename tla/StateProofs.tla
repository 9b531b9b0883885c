------------------------------ MODULE StateProofs ------------------------------
(***************************************************************************)
(* Theorems about the components that keep state over many cycles and      *)
(* restarts, for any values of their constants: the state files (Durable), *)
(* the parent of the day (DailyThread), the screens that refresh           *)
(* (Refresh), the log panes (LogView), the caches of the node agent        *)
(* (Agent), GPU hours (Ledger) and the clocks of a GPU (Waste).            *)
(***************************************************************************)
EXTENDS Durable, DailyThread, Refresh, LogView, Agent, Ledger, Waste, FiniteSetTheorems, TLAPS

-----------------------------------------------------------------------------
(* The state files.                                                        *)

FileRecords == [text : Texts \cup {Foreign}, whole : BOOLEAN, safe : BOOLEAN, mode : BOOLEAN,
                changes : Nat, raced : BOOLEAN]
Numbers == 1..MaxFiles
Free == {"idle", "lock"}
Busy == {"check", "compare", "clear", "open", "fill", "swap", "note", "undo"}
SaverRecords == [at : Free \cup Busy, text : Texts \cup {Absent}, fd : Numbers \cup {Absent}]
Signatures == [file : Numbers, changes : Nat]
Entries == [text : Texts \cup {Absent}, signature : Signatures \cup {Strange}]

SaversAreTyped == saver \in [Savers -> SaverRecords]

FilesAreTyped ==
  /\ files \in Seq(FileRecords) /\ Len(files) <= MaxFiles
  /\ name \in DOMAIN files \cup {Absent} /\ temp \in DOMAIN files \cup {Absent}
  /\ cached \in Entries \cup {Absent}
  /\ meddling \in 0..MaxMeddling
  /\ \A f \in DOMAIN files : files[f].changes <= meddling + 1

\* Who holds the lock is past it.
LockIsSave ==
  /\ pathLock \in Savers \cup {Absent}
  /\ \A t \in Savers : saver[t].at \in Busy <=> pathLock = t

\* What is under the path survives a loss of power.
NameIsWhole == name # Absent => files[name].whole /\ files[name].safe

\* The file of the thread that saves: under the temporary name only, untouched until it
\* is renamed, and then only by one who raced with the note.
OwnFile(r, free, path, store) ==
  /\ r.at # "idle" => r.text \in Texts
  /\ r.at = "open" => free = Absent
  /\ r.at \in {"fill", "swap"} => free = r.fd /\ path # r.fd
  /\ r.at \in {"fill", "swap", "note"} => r.fd \in DOMAIN store
  /\ r.at \in {"fill", "swap"} => store[r.fd].text = r.text /\ store[r.fd].mode
  /\ r.at = "fill" => store[r.fd].changes = 0
  /\ r.at = "swap" => store[r.fd].whole /\ store[r.fd].safe
  /\ r.at = "note" => \/ store[r.fd].text = r.text /\ store[r.fd].whole /\ store[r.fd].mode
                      \/ store[r.fd].raced
FilesAreOwn == \A t \in Savers : OwnFile(saver[t], temp, name, files)

\* A noted signature is one a file had, and the file that has it now is good.
CacheIsGood ==
  cached # Absent =>
    /\ cached.signature # Strange =>
         /\ cached.signature.file \in DOMAIN files
         /\ cached.signature.changes <= files[cached.signature.file].changes
    /\ \A f \in DOMAIN files : cached.signature = Signature(f) => Good(f) \/ files[f].raced

\* Nothing is compared with a cache that is empty.
CompareNeedsCache == \A t \in Savers : saver[t].at = "compare" => cached # Absent

DurableInv ==
  /\ SaversAreTyped /\ FilesAreTyped /\ LockIsSave /\ NameIsWhole /\ FilesAreOwn /\ CacheIsGood
  /\ CompareNeedsCache

LEMMA FileFacts ==
  ASSUME FilesAreTyped
  PROVE  /\ DOMAIN files = 1..Len(files) /\ Len(files) \in Nat /\ MaxFiles \in Nat
         /\ \A f \in DOMAIN files : f \in Numbers /\ files[f] \in FileRecords /\ files[f].changes \in Nat
         /\ Absent \notin DOMAIN files
         /\ \A f \in DOMAIN files : Signature(f) \in Signatures /\ Signature(f) # Strange
         /\ \A f \in DOMAIN files : Signature(f).file = f /\ Signature(f).changes = files[f].changes
  <1> USE DurableAssumption, DurableValuesAssumption DEF FilesAreTyped
  <1>1. DOMAIN files = 1..Len(files) /\ Len(files) \in Nat /\ MaxFiles \in Nat OBVIOUS
  <1>2. \A f \in DOMAIN files : f \in Numbers /\ files[f] \in FileRecords BY <1>1 DEF Numbers
  <1>3. \A f \in DOMAIN files : files[f].changes \in Nat BY <1>2 DEF FileRecords
  <1>4. Absent \notin DOMAIN files BY <1>2 DEF Numbers
  <1>5. \A f \in DOMAIN files : Signature(f).file = f /\ Signature(f).changes = files[f].changes
    BY DEF Signature
  <1>6. ASSUME NEW f \in DOMAIN files PROVE Signature(f) \in Signatures /\ Signature(f) # Strange
    <2>1. f \in 1..MaxFiles BY <1>2 DEF Numbers
    <2>2. files[f].changes \in Nat /\ files[f].changes <= meddling + 1 BY <1>3
    <2>3. meddling \in 0..MaxMeddling /\ MaxMeddling \in Nat OBVIOUS
    <2>4. files[f].changes \in 0..(MaxMeddling + 1) BY <2>2, <2>3
    <2>5. Signature(f) \in [file : 1..MaxFiles, changes : 0..(MaxMeddling + 1)]
      BY <2>1, <2>4 DEF Signature
    <2>6. Signature(f) \in Signatures BY <2>1, <2>2 DEF Signature, Signatures, Numbers
    <2>7. QED BY <2>5, <2>6
  <1>7. QED BY <1>1, <1>2, <1>3, <1>4, <1>5, <1>6

LEMMA NotStrange ==
  ASSUME NEW f \in Numbers, NEW c \in Nat, c <= MaxMeddling + 1
  PROVE  [file |-> f, changes |-> c] # Strange
  BY DurableAssumption, DurableValuesAssumption DEF Numbers

LEMMA AppendFile ==
  ASSUME FilesAreTyped, NEW x \in FileRecords
  PROVE  /\ Append(files, x) \in Seq(FileRecords)
         /\ Len(Append(files, x)) = Len(files) + 1
         /\ DOMAIN Append(files, x) = DOMAIN files \cup {Len(files) + 1}
         /\ Len(files) + 1 \notin DOMAIN files
         /\ Append(files, x)[Len(files) + 1] = x
         /\ \A f \in DOMAIN files : Append(files, x)[f] = files[f]
  <1>1. files \in Seq(FileRecords) BY DEF FilesAreTyped
  <1>2. QED BY <1>1

LEMMA StillSaver == Still \in SaverRecords /\ Still.at = "idle"
  BY DEF Still, SaverRecords, Free

LEMMA InitDurable == DurableInit => DurableInv
  <1> SUFFICES ASSUME DurableInit PROVE DurableInv OBVIOUS
  <1> USE DurableAssumption, DurableValuesAssumption, StillSaver DEF DurableInit
  <1>1. SaversAreTyped BY DEF SaversAreTyped
  <1>2. FilesAreTyped BY DEF FilesAreTyped
  <1>3. \A t \in Savers : saver[t].at = "idle" OBVIOUS
  <1>4. LockIsSave BY <1>3 DEF LockIsSave, Busy
  <1>5. NameIsWhole /\ CacheIsGood BY DEF NameIsWhole, CacheIsGood
  <1>6. FilesAreOwn BY <1>3 DEF FilesAreOwn, OwnFile
  <1>8. CompareNeedsCache BY <1>3 DEF CompareNeedsCache
  <1>7. QED BY <1>1, <1>2, <1>4, <1>5, <1>6, <1>8 DEF DurableInv

\* The holder of the lock moves on, or is done.
LEMMA HolderMoves ==
  ASSUME DurableInv, NEW t \in Savers, saver[t].at \in Busy,
         NEW r \in SaverRecords, saver' = [saver EXCEPT ![t] = r],
         \/ r.at \in Busy /\ pathLock' = pathLock
         \/ r.at = "idle" /\ pathLock' = Absent,
         FilesAreTyped', NameIsWhole', CacheIsGood',
         OwnFile(r, temp', name', files'), r.at = "compare" => cached' # Absent
  PROVE  DurableInv'
  <1> USE DurableValuesAssumption DEF DurableInv
  <1>1. /\ SaversAreTyped' /\ saver'[t] = r
        /\ \A u \in Savers : u # t => saver'[u] = saver[u]
    BY DEF SaversAreTyped
  <1>2. pathLock = t BY DEF LockIsSave
  <1>3. \A u \in Savers : u # t => saver[u].at \in Free
    BY <1>2 DEF LockIsSave, SaversAreTyped, SaverRecords
  <1>4. LockIsSave'
    BY <1>1, <1>2, <1>3 DEF LockIsSave, Free, Busy
  <1>5. FilesAreOwn'
    <2>1. \A u \in Savers : u # t => OwnFile(saver'[u], temp', name', files')
      <3> SUFFICES ASSUME NEW u \in Savers, u # t PROVE OwnFile(saver[u], temp', name', files')
        BY <1>1
      <3>1. saver[u].at \in Free BY <1>3
      <3>2. saver[u].at # "idle" => saver[u].text \in Texts BY DEF FilesAreOwn, OwnFile
      <3>3. QED BY <3>1, <3>2 DEF OwnFile, Free
    <2>2. OwnFile(saver'[t], temp', name', files') BY <1>1
    <2>3. QED BY <2>1, <2>2 DEF FilesAreOwn
  <1>6. CompareNeedsCache' BY <1>1, <1>3 DEF CompareNeedsCache, Free
  <1>7. QED BY <1>1, <1>4, <1>5, <1>6

\* The files, and what is noted of them, stay as they are.
LEMMA FilesStay ==
  ASSUME DurableInv, UNCHANGED <<files, name, cached, meddling>>,
         temp' = temp \/ temp' = Absent
  PROVE  FilesAreTyped' /\ NameIsWhole' /\ CacheIsGood'
  BY DEF DurableInv, FilesAreTyped, NameIsWhole, CacheIsGood, Good, Signature

\* What the thread's record becomes.
LEMMA SaverSteps ==
  ASSUME DurableInv, NEW t \in Savers
  PROVE  /\ saver[t] \in SaverRecords
         /\ \A to \in Free \cup Busy : Steps(t, to) =>
              /\ saver' = [saver EXCEPT ![t] = [saver[t] EXCEPT !.at = to]]
              /\ [saver[t] EXCEPT !.at = to] \in SaverRecords
              /\ [saver[t] EXCEPT !.at = to].at = to
              /\ [saver[t] EXCEPT !.at = to].fd = saver[t].fd
              /\ [saver[t] EXCEPT !.at = to].text = saver[t].text
  BY DEF DurableInv, SaversAreTyped, SaverRecords, Steps

\* The end of a save leaves no file of its own.
LEMMA FinishKeeps ==
  ASSUME DurableInv, NEW t \in Savers, saver[t].at \in Busy, Finish(t),
         FilesAreTyped', NameIsWhole', CacheIsGood'
  PROVE  DurableInv'
  <1>1. OwnFile(Still, temp', name', files') BY StillSaver DEF OwnFile
  <1>2. QED BY <1>1, StillSaver, HolderMoves DEF Finish

\* A step to a place where no file is owned.
LEMMA MoveKeeps ==
  ASSUME DurableInv, NEW t \in Savers, saver[t].at \in Busy, NEW to \in {"compare", "clear", "undo"},
         Steps(t, to), pathLock' = pathLock, FilesAreTyped', NameIsWhole', CacheIsGood',
         to = "compare" => cached' # Absent
  PROVE  DurableInv'
  <1> DEFINE r == [saver[t] EXCEPT !.at = to]
  <1>1. to \in Busy BY DEF Busy
  <1>2. saver' = [saver EXCEPT ![t] = r] /\ r \in SaverRecords /\ r.at = to /\ r.text = saver[t].text
    BY <1>1, SaverSteps
  <1> HIDE DEF r
  <1>0. saver[t].text \in Texts BY DEF DurableInv, FilesAreOwn, OwnFile, Busy
  <1>3. OwnFile(r, temp', name', files') BY <1>0, <1>2 DEF OwnFile
  <1>4. QED BY <1>1, <1>2, <1>3, HolderMoves

LEMMA SaveKeeps == ASSUME DurableInv, NEW t \in Savers, NEW text \in Texts, Save(t, text) PROVE DurableInv'
  <1> DEFINE r == [saver[t] EXCEPT !.at = "lock", !.text = text]
  <1> USE DEF DurableInv
  <1>1. /\ saver[t].at = "idle" /\ saver' = [saver EXCEPT ![t].at = "lock", ![t].text = text]
        /\ UNCHANGED <<files, name, temp, cached, pathLock, meddling>>
    BY DEF Save
  <1>2. saver[t] \in SaverRecords BY DEF SaversAreTyped
  <1>3. r \in SaverRecords /\ r.at = "lock" /\ r.text = text BY <1>2 DEF SaverRecords, Free
  <1>4. saver' = [saver EXCEPT ![t] = r] BY <1>1, <1>2 DEF SaversAreTyped, SaverRecords
  <1> HIDE DEF r
  <1>5. SaversAreTyped' BY <1>3, <1>4 DEF SaversAreTyped
  <1>6. \A u \in Savers : u # t => saver'[u] = saver[u] BY <1>4 DEF SaversAreTyped
  <1>7. saver'[t].at = "lock" /\ saver'[t].text \in Texts BY <1>3, <1>4 DEF SaversAreTyped
  <1>8. LockIsSave' BY <1>1, <1>6, <1>7 DEF LockIsSave, Busy
  <1>9. FilesAreOwn'
    <2>1. \A u \in Savers : u # t => OwnFile(saver[u], temp, name, files) BY DEF FilesAreOwn
    <2>2. \A u \in Savers : u # t => OwnFile(saver'[u], temp', name', files') BY <1>1, <1>6, <2>1
    <2>3. OwnFile(saver'[t], temp', name', files') BY <1>7 DEF OwnFile
    <2>4. QED BY <2>2, <2>3 DEF FilesAreOwn
  <1>10. FilesAreTyped' /\ NameIsWhole' /\ CacheIsGood' BY <1>1, FilesStay
  <1>11. CompareNeedsCache' BY <1>1, <1>6, <1>7 DEF CompareNeedsCache
  <1>12. QED BY <1>5, <1>8, <1>9, <1>10, <1>11

LEMMA AcquireKeeps == ASSUME DurableInv, NEW t \in Savers, Acquire(t) PROVE DurableInv'
  <1> DEFINE r == [saver[t] EXCEPT !.at = "check"]
  <1> USE DurableValuesAssumption DEF DurableInv
  <1>1. /\ saver[t].at = "lock" /\ pathLock = Absent /\ pathLock' = t /\ Steps(t, "check")
        /\ UNCHANGED <<files, name, temp, cached, meddling>>
    BY DEF Acquire
  <1>2. "check" \in Busy BY DEF Busy
  <1>3. saver' = [saver EXCEPT ![t] = r] /\ r \in SaverRecords /\ r.at = "check" /\ r.text = saver[t].text
    BY <1>1, <1>2, SaverSteps
  <1> HIDE DEF r
  <1>4. SaversAreTyped' BY <1>3 DEF SaversAreTyped
  <1>5. \A u \in Savers : u # t => saver'[u] = saver[u] BY <1>3 DEF SaversAreTyped
  <1>6. saver'[t].at = "check" /\ saver'[t].text = saver[t].text BY <1>3 DEF SaversAreTyped
  <1>7. LockIsSave' BY <1>1, <1>2, <1>5, <1>6 DEF LockIsSave
  <1>8. FilesAreOwn' BY <1>1, <1>5, <1>6 DEF FilesAreOwn, OwnFile
  <1>9. FilesAreTyped' /\ NameIsWhole' /\ CacheIsGood' BY <1>1, FilesStay
  <1>10. CompareNeedsCache' BY <1>1, <1>5, <1>6 DEF CompareNeedsCache
  <1>11. QED BY <1>4, <1>7, <1>8, <1>9, <1>10

LEMMA CheckKeeps == ASSUME DurableInv, NEW t \in Savers, Check(t) PROVE DurableInv'
  <1>1. saver[t].at \in Busy /\ UNCHANGED <<files, name, temp, cached, meddling>> BY DEF Check, Busy
  <1>2. FilesAreTyped' /\ NameIsWhole' /\ CacheIsGood' BY <1>1, FilesStay
  <1>3. \/ Steps(t, "clear") /\ pathLock' = pathLock
        \/ Steps(t, "compare") /\ pathLock' = pathLock /\ cached # Absent
        \/ Finish(t)
    BY DEF Check
  <1>4. QED BY <1>1, <1>2, <1>3, MoveKeeps, FinishKeeps

\* The signature that is noted again is that of a file that was found good.
LEMMA CompareKeeps == ASSUME DurableInv, NEW t \in Savers, Compare(t) PROVE DurableInv'
  <1> USE DurableValuesAssumption
  <1>1. saver[t].at \in Busy /\ UNCHANGED <<files, name, temp, meddling>> BY DEF Compare, Busy
  <1>2. CASE Steps(t, "clear") /\ UNCHANGED <<cached, pathLock>>
    BY <1>1, <1>2, FilesStay, MoveKeeps
  <1>3. CASE /\ name # Absent /\ Good(name) /\ Finish(t)
             /\ cached' = [cached EXCEPT !.signature = Signature(name)]
    <2>1. name \in DOMAIN files /\ FilesAreTyped BY <1>3 DEF DurableInv, FilesAreTyped
    <2>2. Signature(name) \in Signatures BY <2>1, FileFacts
    <2>3. CASE cached = Absent
      BY <2>3 DEF DurableInv, CompareNeedsCache, Compare
    <2>4. CASE cached # Absent
      <3>1. cached \in Entries BY <2>1, <2>4 DEF FilesAreTyped
      <3>2. cached' \in Entries /\ cached'.signature = Signature(name) /\ cached'.text = cached.text
        BY <1>3, <2>2, <3>1 DEF Entries
      <3>3. FilesAreTyped' BY <1>1, <2>1, <3>2 DEF FilesAreTyped
      <3>4. NameIsWhole' BY <1>1 DEF DurableInv, NameIsWhole
      <3>5. CacheIsGood' BY <1>1, <1>3, <2>1, <3>2, FileFacts DEF CacheIsGood, Good, Signature
      <3>6. QED BY <1>1, <1>3, <3>3, <3>4, <3>5, FinishKeeps
    <2>5. QED BY <2>3, <2>4
  <1>4. QED BY <1>2, <1>3 DEF Compare

LEMMA ClearKeeps == ASSUME DurableInv, NEW t \in Savers, Clear(t) PROVE DurableInv'
  <1> DEFINE r == [saver[t] EXCEPT !.at = "open"]
  <1>1. /\ saver[t].at \in Busy /\ temp' = Absent /\ Steps(t, "open")
        /\ UNCHANGED <<files, name, cached, pathLock, meddling>>
    BY DEF Clear, Busy
  <1>2. FilesAreTyped' /\ NameIsWhole' /\ CacheIsGood' BY <1>1, FilesStay
  <1>3. "open" \in Busy BY DEF Busy
  <1>4. saver' = [saver EXCEPT ![t] = r] /\ r \in SaverRecords /\ r.at = "open" /\ r.text = saver[t].text
    BY <1>1, <1>3, SaverSteps
  <1> HIDE DEF r
  <1>7. saver[t].text \in Texts BY DEF Clear, DurableInv, FilesAreOwn, OwnFile
  <1>5. OwnFile(r, temp', name', files') BY <1>1, <1>4, <1>7 DEF OwnFile
  <1>6. QED BY <1>1, <1>2, <1>3, <1>4, <1>5, HolderMoves

\* A new file is none that was noted.
LEMMA AppendKeepsCache ==
  ASSUME DurableInv, NEW x \in FileRecords, files' = Append(files, x), cached' = cached, FilesAreTyped'
  PROVE  CacheIsGood'
  <1> DEFINE n == Len(files) + 1
  <1> SUFFICES ASSUME cached # Absent PROVE CacheIsGood' BY DEF CacheIsGood
  <1>1. /\ DOMAIN files' = DOMAIN files \cup {n} /\ n \notin DOMAIN files
        /\ \A f \in DOMAIN files : files'[f] = files[f]
    BY AppendFile DEF DurableInv
  <1> HIDE DEF n
  <1>2. cached.signature # Strange =>
          /\ cached.signature.file \in DOMAIN files /\ cached.signature.file # n
          /\ cached.signature.changes <= files[cached.signature.file].changes
    BY <1>1 DEF DurableInv, CacheIsGood
  <1>3. ASSUME NEW f \in DOMAIN files', cached.signature = Signature(f)'
        PROVE  Good(f)' \/ files'[f].raced
    <2>1. cached.signature # Strange /\ cached.signature.file = f
      <3>1. /\ files' \in Seq(FileRecords) /\ Len(files') <= MaxFiles /\ meddling' \in 0..MaxMeddling
            /\ files'[f].changes <= meddling' + 1
        BY DEF FilesAreTyped
      <3>2. f \in Numbers /\ files'[f] \in FileRecords BY <3>1, DurableAssumption DEF Numbers
      <3>3. files'[f].changes \in Nat BY <3>2 DEF FileRecords
      <3>4. files'[f].changes <= MaxMeddling + 1 BY <3>1, <3>3, DurableAssumption
      <3>5. QED BY <1>3, <3>2, <3>3, <3>4, NotStrange DEF Signature
    <2>2. f \in DOMAIN files /\ files'[f] = files[f] BY <1>1, <1>2, <2>1
    <2>3. cached.signature = Signature(f) BY <1>3, <2>2 DEF Signature
    <2>4. Good(f) \/ files[f].raced BY <2>2, <2>3 DEF DurableInv, CacheIsGood
    <2>5. QED BY <2>2, <2>4 DEF Good
  <1>4. QED BY <1>1, <1>2, <1>3 DEF CacheIsGood

\* A new file is known to nobody else.
LEMMA OpenKeepsFile == ASSUME DurableInv, NEW t \in Savers, Open(t) PROVE DurableInv'
  <1> USE DurableValuesAssumption, DurableAssumption DEF DurableInv
  <1>1. saver[t].at \in Busy /\ UNCHANGED <<name, cached, meddling>> BY DEF Open, Busy
  <1>2. CASE Finish(t) /\ UNCHANGED <<files, temp>> BY <1>1, <1>2, FilesStay, FinishKeeps
  <1>3. CASE ~(temp # Absent \/ Len(files) = MaxFiles)
    <2> DEFINE x == NewFile(saver[t].text, FALSE)
               n == Len(files) + 1
               r == [saver[t] EXCEPT !.at = "fill", !.fd = n]
    <2>1. /\ files' = Append(files, x) /\ temp' = Len(files') /\ pathLock' = pathLock
          /\ saver' = [saver EXCEPT ![t].at = "fill", ![t].fd = temp']
      BY <1>3 DEF Open
    <2>2. saver[t] \in SaverRecords BY DEF SaversAreTyped
    <2>3. saver[t].text \in Texts BY DEF Open, FilesAreOwn, OwnFile
    <2>4. x \in FileRecords /\ x.text = saver[t].text /\ x.mode /\ x.changes = 0
      BY <2>3 DEF FileRecords, NewFile
    <2> HIDE DEF x
    <2>5. /\ files' \in Seq(FileRecords) /\ Len(files') = n /\ DOMAIN files' = DOMAIN files \cup {n}
          /\ n \notin DOMAIN files /\ files'[n] = x
          /\ \A f \in DOMAIN files : files'[f] = files[f]
      BY <2>1, <2>4, AppendFile
    <2>6. n \in Numbers /\ temp' = n BY <1>3, <2>1, <2>5, FileFacts DEF Numbers, FilesAreTyped
    <2> HIDE DEF n
    <2>7. /\ r \in SaverRecords /\ r.at = "fill" /\ r.fd = n /\ r.text = saver[t].text
      BY <2>2, <2>6 DEF SaverRecords, Busy
    <2>8. saver' = [saver EXCEPT ![t] = r] BY <2>1, <2>2, <2>6 DEF SaversAreTyped, SaverRecords
    <2> HIDE DEF r
    <2>9. name # n BY <2>5, <2>6 DEF FilesAreTyped, Numbers
    <2>10. FilesAreTyped'
      BY <1>1, <2>4, <2>5, <2>6 DEF FilesAreTyped, Numbers
    <2>11. NameIsWhole' BY <1>1, <2>5, <2>9 DEF NameIsWhole, FilesAreTyped
    <2>12. CacheIsGood' BY <1>1, <2>1, <2>4, <2>10, AppendKeepsCache
    <2>13. OwnFile(r, temp', name', files') BY <1>1, <2>3, <2>4, <2>5, <2>6, <2>7, <2>9 DEF OwnFile
    <2>14. r.at \in Busy BY <2>7 DEF Busy
    <2>15. QED BY <1>1, <2>1, <2>7, <2>8, <2>10, <2>11, <2>12, <2>13, <2>14, HolderMoves
  <1>4. QED BY <1>2, <1>3 DEF Open

\* One file is changed, and counted as changed.
LEMMA ChangeFile ==
  ASSUME FilesAreTyped, NEW g \in DOMAIN files, NEW x \in FileRecords, files' = [files EXCEPT ![g] = x],
         UNCHANGED <<name, cached>>, temp' = temp, meddling' \in meddling..MaxMeddling,
         x.changes <= meddling' + 1
  PROVE  FilesAreTyped' /\ DOMAIN files' = DOMAIN files /\ files'[g] = x
         /\ \A f \in DOMAIN files : f # g => files'[f] = files[f]
  <1> USE DurableAssumption
  <1>1. /\ files \in Seq(FileRecords) /\ Len(files) <= MaxFiles /\ meddling \in 0..MaxMeddling
        /\ \A f \in DOMAIN files : files[f].changes <= meddling + 1
    BY DEF FilesAreTyped
  <1>2. \A f \in DOMAIN files : files[f].changes \in Nat BY FileFacts
  <1>3. /\ DOMAIN files' = DOMAIN files /\ files'[g] = x
        /\ \A f \in DOMAIN files : f # g => files'[f] = files[f]
    BY <1>1
  <1>4. files' \in Seq(FileRecords) /\ Len(files') = Len(files) BY <1>1
  <1>5. \A f \in DOMAIN files' : files'[f].changes <= meddling' + 1
    <2> SUFFICES ASSUME NEW f \in DOMAIN files, f # g PROVE files[f].changes <= meddling' + 1
      BY <1>3
    <2>1. QED BY <1>1, <1>2
  <1>6. meddling' \in 0..MaxMeddling BY <1>1
  <1>7. QED BY <1>1, <1>3, <1>4, <1>5, <1>6 DEF FilesAreTyped

\* Nor is what was noted that of a file that has changed since.
LEMMA ChangeKeepsCache ==
  ASSUME DurableInv, NEW g \in DOMAIN files, NEW x \in FileRecords, files' = [files EXCEPT ![g] = x],
         cached' = cached, x.changes > files[g].changes,
         x.changes <= MaxMeddling + 1
  PROVE  CacheIsGood'
  <1> SUFFICES ASSUME cached # Absent PROVE CacheIsGood' BY DEF CacheIsGood
  <1>1. FilesAreTyped BY DEF DurableInv
  <1>2. /\ DOMAIN files' = DOMAIN files /\ files'[g] = x
        /\ \A f \in DOMAIN files : f # g => files'[f] = files[f]
    BY <1>1 DEF FilesAreTyped
  <1>3. files[g].changes \in Nat /\ x.changes \in Nat BY <1>1, FileFacts DEF FileRecords
  <1>4. cached \in Entries BY <1>1 DEF FilesAreTyped
  <1>5. CASE cached.signature = Strange
    <2>1. ASSUME NEW f \in DOMAIN files', cached.signature = Signature(f)', f # g
          PROVE  Good(f)' \/ files'[f].raced
      <3>1. cached.signature = Signature(f) BY <1>2, <2>1 DEF Signature
      <3>2. QED BY <1>1, <1>2, <1>5, <2>1, <3>1, FileFacts
    <2>2. cached.signature # Signature(g)'
      <3>1. g \in Numbers BY <1>1, FileFacts
      <3>2. QED BY <1>2, <1>3, <1>5, <3>1, NotStrange DEF Signature
    <2>3. QED BY <1>2, <1>5, <2>1, <2>2 DEF CacheIsGood
  <1>6. CASE cached.signature # Strange
    <2>1. /\ cached.signature.file \in DOMAIN files /\ cached.signature.changes \in Nat
          /\ cached.signature.changes <= files[cached.signature.file].changes
      BY <1>4, <1>6 DEF DurableInv, CacheIsGood, Entries, Signatures
    <2>2. cached.signature.changes <= files'[cached.signature.file].changes
      BY <1>2, <1>3, <2>1
    <2>3. ASSUME NEW f \in DOMAIN files', cached.signature = Signature(f)'
          PROVE  Good(f)' \/ files'[f].raced
      <3>1. cached.signature.file = f /\ cached.signature.changes = files'[f].changes
        BY <2>3 DEF Signature
      <3>2. f # g BY <1>2, <1>3, <2>1, <3>1
      <3>3. files'[f] = files[f] /\ cached.signature = Signature(f) BY <1>2, <2>3, <3>2 DEF Signature
      <3>4. QED BY <1>2, <2>3, <3>3 DEF DurableInv, CacheIsGood, Good
    <2>4. QED BY <1>2, <2>1, <2>2, <2>3 DEF CacheIsGood
  <1>7. QED BY <1>5, <1>6

LEMMA FillKeeps == ASSUME DurableInv, NEW t \in Savers, NEW room \in BOOLEAN, Fill(t, room) PROVE DurableInv'
  <1> USE DurableAssumption
  <1>1. saver[t].at = "fill" /\ saver[t].at \in Busy /\ UNCHANGED <<name, temp, cached, pathLock, meddling>>
    BY DEF Fill, Busy
  <1>2. CASE ~room
    <2>1. UNCHANGED files /\ Steps(t, "undo") BY <1>2 DEF Fill
    <2>2. QED BY <1>1, <2>1, FilesStay, MoveKeeps
  <1>3. CASE room
    <2> DEFINE g == saver[t].fd
               x == Sync(files[g])
               r == [saver[t] EXCEPT !.at = "swap"]
    <2>1. files' = [files EXCEPT ![g] = x] /\ Steps(t, "swap") BY <1>3 DEF Fill
    <2>2. /\ g \in DOMAIN files /\ files[g].text = saver[t].text /\ files[g].mode /\ files[g].changes = 0
          /\ temp = g /\ name # g /\ saver[t].text \in Texts
      BY <1>1 DEF DurableInv, FilesAreOwn, OwnFile
    <2>3. files[g] \in FileRecords /\ FilesAreTyped BY <2>2, FileFacts DEF DurableInv
    <2>4. /\ x \in FileRecords /\ x.changes = 1 /\ x.whole /\ x.safe
          /\ x.text = saver[t].text /\ x.mode
      BY <2>2, <2>3 DEF FileRecords, Sync
    <2>5. "swap" \in Busy BY DEF Busy
    <2>6. /\ saver' = [saver EXCEPT ![t] = r] /\ r \in SaverRecords /\ r.at = "swap"
          /\ r.text = saver[t].text /\ r.fd = g
      BY <2>1, <2>5, SaverSteps
    <2> HIDE DEF g, x, r
    <2>7. meddling \in 0..MaxMeddling BY <2>3 DEF FilesAreTyped
    <2>8. x.changes <= meddling' + 1 /\ meddling' \in meddling..MaxMeddling /\ x.changes <= MaxMeddling + 1
      BY <1>1, <2>4, <2>7
    <2>9. /\ FilesAreTyped' /\ DOMAIN files' = DOMAIN files /\ files'[g] = x
          /\ \A f \in DOMAIN files : f # g => files'[f] = files[f]
      BY <1>1, <2>1, <2>2, <2>3, <2>4, <2>8, ChangeFile
    <2>10. NameIsWhole' BY <1>1, <2>2, <2>3, <2>9 DEF DurableInv, NameIsWhole, FilesAreTyped
    <2>11. CacheIsGood'
      <3>1. x.changes > files[g].changes BY <2>2, <2>4
      <3>2. cached' = cached BY <1>1
      <3>3. QED BY <2>1, <2>2, <2>4, <2>8, <3>1, <3>2, ChangeKeepsCache
    <2>12. OwnFile(r, temp', name', files') BY <1>1, <2>2, <2>4, <2>6, <2>9 DEF OwnFile
    <2>13. QED BY <1>1, <2>5, <2>6, <2>9, <2>10, <2>11, <2>12, HolderMoves
  <1>4. QED BY <1>2, <1>3

\* The file that is renamed is the thread's own, whole and safe.
LEMMA SwapKeeps == ASSUME DurableInv, NEW t \in Savers, Swap(t) PROVE DurableInv'
  <1> USE DurableValuesAssumption
  <1> DEFINE r == [saver[t] EXCEPT !.at = "note"]
  <1>1. saver[t].at = "swap" /\ saver[t].at \in Busy /\ UNCHANGED <<files, cached, pathLock, meddling>>
    BY DEF Swap, Busy
  <1>2. /\ saver[t].fd \in DOMAIN files /\ files[saver[t].fd].text = saver[t].text
        /\ files[saver[t].fd].mode /\ files[saver[t].fd].whole /\ files[saver[t].fd].safe
        /\ temp = saver[t].fd /\ saver[t].text \in Texts
    BY <1>1 DEF DurableInv, FilesAreOwn, OwnFile
  <1>3. FilesAreTyped BY DEF DurableInv
  <1>4. temp # Absent BY <1>2, <1>3, FileFacts
  <1>5. name' = temp /\ temp' = Absent /\ Steps(t, "note") BY <1>4 DEF Swap
  <1>6. "note" \in Busy BY DEF Busy
  <1>7. /\ saver' = [saver EXCEPT ![t] = r] /\ r \in SaverRecords /\ r.at = "note"
        /\ r.text = saver[t].text /\ r.fd = saver[t].fd
    BY <1>5, <1>6, SaverSteps
  <1> HIDE DEF r
  <1>8. FilesAreTyped' BY <1>1, <1>2, <1>3, <1>5 DEF FilesAreTyped
  <1>9. NameIsWhole' BY <1>1, <1>2, <1>5 DEF NameIsWhole
  <1>10. CacheIsGood' BY <1>1 DEF DurableInv, CacheIsGood, Good, Signature
  <1>11. OwnFile(r, temp', name', files') BY <1>1, <1>2, <1>7 DEF OwnFile
  <1>12. QED BY <1>1, <1>6, <1>7, <1>8, <1>9, <1>10, <1>11, HolderMoves

\* The signature that is noted is that of the thread's file, or of none.
LEMMA NoteKeeps == ASSUME DurableInv, NEW t \in Savers, NEW odd \in BOOLEAN, Note(t, odd) PROVE DurableInv'
  <1>1. /\ saver[t].at = "note" /\ saver[t].at \in Busy /\ UNCHANGED <<files, name, temp, meddling>>
        /\ Finish(t)
        /\ cached' = [text |-> saver[t].text, signature |-> IF odd THEN Strange ELSE Installed(t)]
    BY DEF Note, Busy
  <1>2. /\ saver[t].fd \in DOMAIN files /\ saver[t].text \in Texts
        /\ \/ files[saver[t].fd].text = saver[t].text /\ files[saver[t].fd].whole /\ files[saver[t].fd].mode
           \/ files[saver[t].fd].raced
    BY <1>1 DEF DurableInv, FilesAreOwn, OwnFile
  <1>3. FilesAreTyped BY DEF DurableInv
  <1>4. Installed(t) \in Signatures BY <1>2, <1>3, FileFacts DEF Installed
  <1>5. cached' \in Entries BY <1>1, <1>2, <1>4 DEF Entries
  <1>6. FilesAreTyped' BY <1>1, <1>3, <1>5 DEF FilesAreTyped
  <1>7. NameIsWhole' BY <1>1 DEF DurableInv, NameIsWhole
  <1>8. CacheIsGood'
    <2>1. CASE odd
      <3>1. cached'.signature = Strange BY <1>1, <2>1
      <3>2. \A f \in DOMAIN files : Signature(f) # Strange BY <1>3, FileFacts
      <3>3. \A f \in DOMAIN files : Signature(f)' = Signature(f) BY <1>1 DEF Signature
      <3>4. \A f \in DOMAIN files : cached'.signature # Signature(f)' BY <3>1, <3>2, <3>3
      <3>5. DOMAIN files' = DOMAIN files BY <1>1
      <3>6. \A f \in DOMAIN files' : cached'.signature = Signature(f)' => Good(f)' \/ files'[f].raced
        BY <3>4, <3>5
      <3>7. QED BY ONLY <3>1, <3>6 DEF CacheIsGood
    <2>2. CASE ~odd
      <3>1. cached'.signature = [file |-> saver[t].fd, changes |-> files[saver[t].fd].changes]
        BY <1>1, <2>2 DEF Installed, Signature
      <3>2. files[saver[t].fd].changes \in Nat BY <1>2, <1>3, FileFacts
      <3>3. \A f \in DOMAIN files : cached'.signature = Signature(f)' => f = saver[t].fd
        BY <3>1 DEF Signature
      <3>4. cached'.text = saver[t].text BY <1>1
      <3>5. QED BY <1>1, <1>2, <3>1, <3>2, <3>3, <3>4 DEF CacheIsGood, Good
    <2>3. QED BY <2>1, <2>2
  <1>9. QED BY <1>1, <1>6, <1>7, <1>8, FinishKeeps

LEMMA UndoKeeps == ASSUME DurableInv, NEW t \in Savers, Undo(t) PROVE DurableInv'
  BY FilesStay, FinishKeeps DEF Undo, Busy

\* What others do leaves the threads where they are.
LEMMA OthersKeep ==
  ASSUME DurableInv, UNCHANGED <<pathLock, saver>>, cached' = cached,
         FilesAreTyped', NameIsWhole', FilesAreOwn', CacheIsGood'
  PROVE  DurableInv'
  BY DEF DurableInv, SaversAreTyped, LockIsSave, CompareNeedsCache

LEMMA ReplaceKeeps ==
  ASSUME DurableInv, NEW text \in Texts \cup {Foreign}, Replace(text)
  PROVE  DurableInv'
  <1> USE DurableAssumption, DurableValuesAssumption
  <1> DEFINE x == [NewFile(text, TRUE) EXCEPT !.safe = TRUE]
             n == Len(files) + 1
  <1>1. /\ files' = Append(files, x) /\ name' = Len(files') /\ Len(files) < MaxFiles
        /\ meddling < MaxMeddling /\ meddling' = meddling + 1
        /\ UNCHANGED <<temp, cached, pathLock, saver>>
    BY DEF Replace, Meddle
  <1>2. x \in FileRecords /\ x.whole /\ x.safe /\ x.changes = 0 BY DEF FileRecords, NewFile
  <1> HIDE DEF x
  <1>3. FilesAreTyped BY DEF DurableInv
  <1>4. /\ files' \in Seq(FileRecords) /\ Len(files') = n /\ DOMAIN files' = DOMAIN files \cup {n}
        /\ n \notin DOMAIN files /\ files'[n] = x
        /\ \A f \in DOMAIN files : files'[f] = files[f]
    BY <1>1, <1>2, <1>3, AppendFile
  <1>5. name' = n /\ n <= MaxFiles
    BY <1>1, <1>3, <1>4, FileFacts
  <1> HIDE DEF n
  <1>6. meddling' \in 0..MaxMeddling /\ meddling \in Nat BY <1>1, <1>3 DEF FilesAreTyped
  <1>7. \A f \in DOMAIN files' : files'[f].changes <= meddling' + 1
    <2>1. ASSUME NEW f \in DOMAIN files PROVE files[f].changes <= meddling' + 1
      <3>1. files[f].changes \in Nat /\ files[f].changes <= meddling + 1
        BY <1>3, FileFacts DEF FilesAreTyped
      <3>2. QED BY <1>1, <1>6, <3>1
    <2>2. files'[n].changes <= meddling' + 1 BY <1>2, <1>4, <1>6
    <2>3. QED BY <1>4, <2>1, <2>2
  <1>8. FilesAreTyped' BY <1>1, <1>3, <1>4, <1>5, <1>6, <1>7 DEF FilesAreTyped
  <1>9. NameIsWhole' BY <1>2, <1>4, <1>5 DEF NameIsWhole
  <1>10. CacheIsGood' BY <1>1, <1>2, <1>8, AppendKeepsCache
  <1>11. FilesAreOwn'
    <2> SUFFICES ASSUME NEW u \in Savers PROVE OwnFile(saver[u], temp', name', files')
      BY <1>1 DEF FilesAreOwn
    <2>1. OwnFile(saver[u], temp, name, files) BY DEF DurableInv, FilesAreOwn
    <2>2. saver[u].fd \in DOMAIN files => files'[saver[u].fd] = files[saver[u].fd] /\ saver[u].fd # n
      BY <1>4
    <2>3. DOMAIN files \subseteq DOMAIN files' BY <1>4
    <2>4. QED BY <1>1, <1>5, <2>1, <2>2, <2>3 DEF OwnFile
  <1>12. QED BY <1>1, <1>8, <1>9, <1>10, <1>11, OthersKeep

LEMMA RemoveKeeps == ASSUME DurableInv, Remove PROVE DurableInv'
  <1> USE DurableAssumption, DurableValuesAssumption
  <1>1. /\ name' = Absent /\ meddling < MaxMeddling /\ meddling' = meddling + 1
        /\ UNCHANGED <<files, temp, cached, pathLock, saver>>
    BY DEF Remove, Meddle
  <1>2. FilesAreTyped BY DEF DurableInv
  <1>3. meddling \in Nat /\ meddling' \in 0..MaxMeddling BY <1>1, <1>2 DEF FilesAreTyped
  <1>4. ASSUME NEW f \in DOMAIN files PROVE files[f].changes <= meddling' + 1
    <2>1. files[f].changes \in Nat /\ files[f].changes <= meddling + 1 BY <1>2, FileFacts DEF FilesAreTyped
    <2>2. QED BY <1>1, <1>3, <2>1
  <1>5. FilesAreTyped' BY <1>1, <1>2, <1>3, <1>4 DEF FilesAreTyped
  <1>6. NameIsWhole' BY <1>1 DEF NameIsWhole
  <1>7. CacheIsGood' BY <1>1 DEF DurableInv, CacheIsGood, Good, Signature
  <1>8. \A t \in Savers : saver[t].fd \in DOMAIN files => saver[t].fd # Absent BY <1>2, FileFacts
  <1>9. FilesAreOwn' BY <1>1, <1>8 DEF DurableInv, FilesAreOwn, OwnFile
  <1>10. QED BY <1>1, <1>5, <1>6, <1>7, <1>9, OthersKeep

\* An edit is seen by its count, or raced with the note.
LEMMA TouchKeeps ==
  ASSUME DurableInv, NEW text \in Texts \cup {Foreign}, NEW mode \in BOOLEAN, Touch(text, mode)
  PROVE  DurableInv'
  <1> USE DurableAssumption, DurableValuesAssumption
  <1> DEFINE x == [files[name] EXCEPT !.text = text, !.mode = mode, !.changes = @ + 1,
                                 !.raced = files[name].raced \/ Noting]
  <1>1. /\ name # Absent /\ meddling < MaxMeddling /\ meddling' = meddling + 1
        /\ files' = [files EXCEPT ![name].text = text, ![name].mode = mode,
                                  ![name].changes = @ + 1, ![name].raced = @ \/ Noting]
        /\ UNCHANGED <<name, temp, cached, pathLock, saver>>
    BY DEF Touch, Meddle
  <1>2. FilesAreTyped BY DEF DurableInv
  <1>3. name \in DOMAIN files BY <1>1, <1>2 DEF FilesAreTyped
  <1>4. files[name] \in FileRecords /\ files[name].changes \in Nat BY <1>2, <1>3, FileFacts
  <1>5. Noting \in BOOLEAN BY DEF Noting
  <1>6. /\ x \in FileRecords /\ x.whole = files[name].whole /\ x.safe = files[name].safe
        /\ x.changes = files[name].changes + 1 /\ (files[name].raced \/ Noting => x.raced)
    <2>1. PICK b \in BOOLEAN : b = (files[name].raced \/ Noting) OBVIOUS
    <2>2. x = [files[name] EXCEPT !.text = text, !.mode = mode, !.changes = @ + 1, !.raced = b] BY <2>1
    <2> HIDE DEF x
    <2>3. /\ x \in FileRecords /\ x.whole = files[name].whole /\ x.safe = files[name].safe
          /\ x.changes = files[name].changes + 1 /\ x.raced = b
      <3>1. PICK c \in Nat : c = files[name].changes + 1 BY <1>4
      <3>2. x = [files[name] EXCEPT !.text = text, !.mode = mode, !.changes = c, !.raced = b] BY <2>2, <3>1
      <3>3. QED BY <1>4, <3>1, <3>2 DEF FileRecords
    <2>4. files[name].raced \/ Noting => x.raced BY <2>1, <2>3
    <2>5. QED BY <2>3, <2>4
  <1>7. files' = [files EXCEPT ![name] = x] BY <1>1, <1>2, <1>3, <1>4 DEF FileRecords
  <1> HIDE DEF x
  <1>8. /\ meddling \in Nat /\ meddling' \in meddling..MaxMeddling /\ files[name].changes <= meddling + 1
        /\ MaxMeddling \in Nat
    BY <1>1, <1>2, <1>3 DEF FilesAreTyped
  <1>9. x.changes <= meddling' + 1 /\ x.changes <= MaxMeddling + 1 /\ x.changes > files[name].changes
    BY <1>1, <1>4, <1>6, <1>8
  <1>10. /\ FilesAreTyped' /\ DOMAIN files' = DOMAIN files /\ files'[name] = x
         /\ \A f \in DOMAIN files : f # name => files'[f] = files[f]
    <2>1. UNCHANGED <<name, cached>> /\ temp' = temp BY <1>1
    <2>2. QED BY <1>2, <1>3, <1>6, <1>7, <1>8, <1>9, <2>1, ChangeFile
  <1>11. NameIsWhole' BY <1>1, <1>6, <1>10 DEF DurableInv, NameIsWhole
  <1>12. CacheIsGood'
    <2>1. cached' = cached BY <1>1
    <2>2. QED BY <1>3, <1>6, <1>7, <1>9, <2>1, ChangeKeepsCache
  <1>13. FilesAreOwn'
    <2> SUFFICES ASSUME NEW u \in Savers PROVE OwnFile(saver[u], temp, name, files')
      BY <1>1 DEF FilesAreOwn
    <2>1. OwnFile(saver[u], temp, name, files) BY DEF DurableInv, FilesAreOwn
    <2>2. CASE saver[u].fd # name
      <3>1. saver[u].fd \in DOMAIN files => files'[saver[u].fd] = files[saver[u].fd] BY <1>10, <2>2
      <3>2. QED BY <1>10, <2>1, <3>1 DEF OwnFile
    <2>3. CASE saver[u].fd = name
      <3>1. saver[u].at \notin {"fill", "swap"} BY <2>1, <2>3 DEF OwnFile
      <3>2. saver[u].at = "note" => files'[name].raced BY <1>6, <1>10, <2>3 DEF Noting
      <3>3. QED BY <1>10, <2>1, <2>3, <3>1, <3>2 DEF OwnFile
    <2>4. QED BY <2>2, <2>3
  <1>14. QED BY <1>1, <1>10, <1>11, <1>12, <1>13, OthersKeep

\* Nobody saves, and nothing is noted.
LEMMA RestartKeeps ==
  ASSUME DurableInv, NEW sameId \in BOOLEAN, Restart(sameId), FilesAreTyped', NameIsWhole'
  PROVE  DurableInv'
  <1> USE DurableValuesAssumption, StillSaver
  <1>1. saver' = [t \in Savers |-> Still] /\ pathLock' = Absent /\ cached' = Absent BY DEF Restart
  <1>2. \A t \in Savers : saver'[t].at = "idle" BY <1>1
  <1>3. SaversAreTyped' BY <1>1 DEF SaversAreTyped
  <1>4. LockIsSave' BY <1>1, <1>2 DEF LockIsSave, Busy
  <1>5. FilesAreOwn' BY <1>2 DEF FilesAreOwn, OwnFile
  <1>6. CacheIsGood' BY <1>1 DEF CacheIsGood
  <1>7. CompareNeedsCache' BY <1>2 DEF CompareNeedsCache
  <1>8. QED BY <1>3, <1>4, <1>5, <1>6, <1>7 DEF DurableInv

LEMMA DeathKeeps ==
  ASSUME DurableInv, NEW sameId \in BOOLEAN, CollectorDies(sameId) \/ LosePower(sameId)
  PROVE  DurableInv'
  <1> USE DurableAssumption, DurableValuesAssumption
  <1>1. /\ meddling < MaxMeddling /\ meddling' = meddling + 1 /\ name' = name /\ cached' = Absent
        /\ Restart(sameId) /\ temp' \in {temp, Absent}
    BY DEF CollectorDies, LosePower, Meddle, Restart
  <1>2. FilesAreTyped BY DEF DurableInv
  <1>3. meddling \in Nat /\ meddling' \in 0..MaxMeddling BY <1>1, <1>2 DEF FilesAreTyped
  <1>4. \A f \in DOMAIN files : files[f] \in FileRecords BY <1>2, FileFacts
  <1>5. /\ files' \in Seq(FileRecords) /\ Len(files') = Len(files) /\ DOMAIN files' = DOMAIN files
        /\ \A f \in DOMAIN files :
             /\ files'[f].changes = files[f].changes /\ files'[f].safe = files[f].safe
             /\ files[f].safe => files'[f].whole = files[f].whole
    <2>1. CASE UNCHANGED files BY <1>2, <2>1 DEF FilesAreTyped
    <2>2. CASE files' = [f \in DOMAIN files |-> [files[f] EXCEPT !.whole = @ /\ files[f].safe]]
      <3>1. \A f \in DOMAIN files :
              /\ files'[f] \in FileRecords
              /\ files'[f].changes = files[f].changes /\ files'[f].safe = files[f].safe
              /\ files[f].safe => files'[f].whole = files[f].whole
        BY <1>4, <2>2 DEF FileRecords
      <3>2. DOMAIN files = 1..Len(files) /\ Len(files) \in Nat BY <1>2, FileFacts
      <3>3. files' = [f \in 1..Len(files) |-> files'[f]] BY <2>2, <3>2
      <3>4. files' \in Seq(FileRecords) /\ Len(files') = Len(files) BY <3>1, <3>2, <3>3
      <3>5. QED BY <2>2, <3>1, <3>4
    <2>3. QED BY <2>1, <2>2 DEF CollectorDies, LosePower
  <1>6. ASSUME NEW f \in DOMAIN files PROVE files'[f].changes <= meddling' + 1
    <2>1. files[f].changes \in Nat /\ files[f].changes <= meddling + 1 BY <1>2, FileFacts DEF FilesAreTyped
    <2>2. QED BY <1>1, <1>3, <1>5, <2>1
  <1>7. FilesAreTyped' BY <1>1, <1>2, <1>3, <1>5, <1>6 DEF FilesAreTyped
  <1>8. NameIsWhole' BY <1>1, <1>2, <1>5 DEF DurableInv, NameIsWhole, FilesAreTyped
  <1>9. QED BY <1>1, <1>7, <1>8, RestartKeeps

LEMMA NextDurable == DurableInv /\ [DurableNext]_durableVars => DurableInv'
  <1> SUFFICES ASSUME DurableInv, [DurableNext]_durableVars PROVE DurableInv' OBVIOUS
  <1>1. ASSUME NEW t \in Savers, NEW text \in Texts, Save(t, text) PROVE DurableInv' BY <1>1, SaveKeeps
  <1>2. ASSUME NEW t \in Savers, Acquire(t) PROVE DurableInv' BY <1>2, AcquireKeeps
  <1>3. ASSUME NEW t \in Savers, Check(t) PROVE DurableInv' BY <1>3, CheckKeeps
  <1>4. ASSUME NEW t \in Savers, Compare(t) PROVE DurableInv' BY <1>4, CompareKeeps
  <1>5. ASSUME NEW t \in Savers, Clear(t) PROVE DurableInv' BY <1>5, ClearKeeps
  <1>6. ASSUME NEW t \in Savers, Open(t) PROVE DurableInv' BY <1>6, OpenKeepsFile
  <1>7. ASSUME NEW t \in Savers, Swap(t) PROVE DurableInv' BY <1>7, SwapKeeps
  <1>8. ASSUME NEW t \in Savers, Undo(t) PROVE DurableInv' BY <1>8, UndoKeeps
  <1>9. ASSUME NEW t \in Savers, NEW room \in BOOLEAN, Fill(t, room) PROVE DurableInv' BY <1>9, FillKeeps
  <1>10. ASSUME NEW t \in Savers, NEW odd \in BOOLEAN, Note(t, odd) PROVE DurableInv' BY <1>10, NoteKeeps
  <1>11. ASSUME NEW text \in Texts \cup {Foreign}, Replace(text) PROVE DurableInv' BY <1>11, ReplaceKeeps
  <1>12. ASSUME NEW text \in Texts \cup {Foreign}, NEW mode \in BOOLEAN, Touch(text, mode) PROVE DurableInv'
    BY <1>12, TouchKeeps
  <1>13. CASE Remove BY <1>13, RemoveKeeps
  <1>14. ASSUME NEW sameId \in BOOLEAN, CollectorDies(sameId) \/ LosePower(sameId) PROVE DurableInv'
    BY <1>14, DeathKeeps
  <1>15. CASE UNCHANGED durableVars
    <2>1. UNCHANGED <<files, name, temp, cached, pathLock, saver, meddling>> BY <1>15 DEF durableVars
    <2>2. FilesAreTyped' /\ NameIsWhole' /\ CacheIsGood' BY <2>1, FilesStay
    <2>3. FilesAreOwn' BY <2>1 DEF DurableInv, FilesAreOwn
    <2>4. QED BY <2>1, <2>2, <2>3, OthersKeep
  <1>16. QED
    BY <1>1, <1>2, <1>3, <1>4, <1>5, <1>6, <1>7, <1>8, <1>9, <1>10, <1>11, <1>12, <1>13, <1>14, <1>15
    DEF DurableNext

\* Threads that save at once, full disks, deaths and losses of power leave a whole text
\* under the path or none, and a file that passes for the one written last has its text
\* and mode, unless it was edited between the rename and the note (collector.py:189-260,
\* runtime.py:122-214).
THEOREM HonestStateFile == DurableSpec => []StateFileIsHonest
  <1>1. DurableInv => StateFileIsHonest
    BY DEF DurableInv, StateFileIsHonest, NameIsWhole, CacheIsGood, FilesAreTyped
  <1>2. QED BY <1>1, InitDurable, NextDurable, PTL DEF DurableSpec

-----------------------------------------------------------------------------
(* The parent of the day.                                                  *)

ThreadMoments == {"idle", "waits", "posts", "names", "replies"}
Named == Dates \cup {NoParent}

ThreadTypes ==
  /\ today \in Dates
  /\ threadDay \in Named /\ threadTs \in Named /\ savedDay \in Named /\ savedTs \in Named
  /\ calling \in [Callers -> ThreadMoments] /\ callDay \in [Callers -> Dates]
  /\ under \in [Callers -> Named] /\ holder \in Callers \cup {NoParent}
  /\ parents \in [Dates -> Nat] /\ DOMAIN excuse = Dates

\* Who posts or names a parent holds the lock.
LockIsCall == \A c \in Callers : calling[c] \in {"posts", "names"} <=> holder = c

\* A parent was made for the day it is named after.
NamedIsMade ==
  /\ \A d \in Dates : d \in {threadDay, savedDay} => parents[d] > 0
  /\ \A c \in Callers : calling[c] = "names" => parents[callDay[c]] > 0

\* Who posts has seen that the day has no parent.
PostsAreNeeded == \A c \in Callers : calling[c] = "posts" => ~HasParent(callDay[c])

\* The one parent of a day without an excuse is remembered, or is being named.
OnlyParentIsKnown ==
  \A d \in Dates : parents[d] > 0 /\ excuse[d] = {} =>
    /\ parents[d] = 1
    /\ \/ threadDay = d /\ threadTs = d
       \/ \E c \in Callers : calling[c] = "names" /\ callDay[c] = d

\* A name that belongs to another day was loaded, or is about to be replaced.
NameIsTheDays ==
  \A d \in Dates : HasParent(d) =>
    \/ threadTs = d \/ "crash" \in excuse[d]
    \/ \E c \in Callers : calling[c] = "names" /\ callDay[c] = d

RepliesUnderDay ==
  calling["consumer"] = "replies" /\ under["consumer"] # NoParent =>
    under["consumer"] = callDay["consumer"] \/ "crash" \in excuse[callDay["consumer"]]

ThreadInv ==
  /\ ThreadTypes /\ LockIsCall /\ NamedIsMade /\ PostsAreNeeded /\ OnlyParentIsKnown
  /\ NameIsTheDays /\ RepliesUnderDay

LEMMA InitThread == ThreadInit => ThreadInv
  <1> SUFFICES ASSUME ThreadInit PROVE ThreadInv OBVIOUS
  <1> USE NoParentAssumption, DailyThreadAssumption DEF ThreadInit
  <1>1. ThreadTypes BY DEF ThreadTypes, Named, ThreadMoments, Dates
  <1>2. \A c \in Callers : calling[c] = "idle" BY DEF Callers
  <1>3. \A d \in Dates : parents[d] = 0 /\ d # NoParent OBVIOUS
  <1>4. LockIsCall BY <1>2 DEF LockIsCall
  <1>5. NamedIsMade BY <1>2, <1>3 DEF NamedIsMade
  <1>6. PostsAreNeeded BY <1>2 DEF PostsAreNeeded
  <1>7. OnlyParentIsKnown /\ NameIsTheDays BY <1>3 DEF OnlyParentIsKnown, NameIsTheDays, HasParent
  <1>8. RepliesUnderDay BY <1>2 DEF RepliesUnderDay, Callers
  <1>9. QED BY <1>1, <1>4, <1>5, <1>6, <1>7, <1>8 DEF ThreadInv

\* Only one caller posts or names a parent at a time.
LEMMA OneInside ==
  ASSUME LockIsCall, NEW c \in Callers, NEW e \in Callers,
         calling[c] \in {"posts", "names"}, calling[e] \in {"posts", "names"}
  PROVE  c = e
  BY DEF LockIsCall

\* A call begins, with its own day.
LEMMA CallThread ==
  ASSUME ThreadInv, NEW c \in Callers, calling[c] = "idle", Call(c) PROVE ThreadInv'
  <1> USE DEF ThreadInv
  <1>1. /\ calling' = [calling EXCEPT ![c] = "waits"] /\ callDay' = [callDay EXCEPT ![c] = today]
        /\ UNCHANGED <<today, threadDay, threadTs, under, holder, savedDay, savedTs, parents, excuse>>
    BY DEF Call, Goes, threadState, savedState
  <1>2. ThreadTypes' BY <1>1 DEF ThreadTypes, ThreadMoments
  <1>3. \A e \in Callers : e # c => calling'[e] = calling[e] /\ callDay'[e] = callDay[e]
    BY <1>1 DEF ThreadTypes
  <1>4. calling'[c] = "waits" BY <1>1 DEF ThreadTypes
  <1>5. LockIsCall' BY <1>1, <1>3, <1>4 DEF LockIsCall
  <1>6. NamedIsMade' BY <1>1, <1>3, <1>4 DEF NamedIsMade
  <1>7. PostsAreNeeded' BY <1>1, <1>3, <1>4 DEF PostsAreNeeded, HasParent
  <1>8. OnlyParentIsKnown' BY <1>1, <1>3, <1>4 DEF OnlyParentIsKnown
  <1>9. NameIsTheDays' BY <1>1, <1>3, <1>4 DEF NameIsTheDays, HasParent
  <1>10. RepliesUnderDay' BY <1>1, <1>3, <1>4 DEF RepliesUnderDay, Callers
  <1>11. QED BY <1>2, <1>5, <1>6, <1>7, <1>8, <1>9, <1>10

\* A caller leaves with the parent there is, or with none.
LEMMA EnterThread == ASSUME ThreadInv, NEW c \in Callers, Enter(c) PROVE ThreadInv'
  <1> USE NoParentAssumption DEF ThreadInv
  <1>1. /\ calling[c] = "waits" /\ holder = NoParent
        /\ UNCHANGED <<today, threadDay, threadTs, callDay, savedDay, savedTs, parents, excuse>>
    BY DEF Enter, threadState, savedState
  <1>2. \A e \in Callers : calling[e] \notin {"posts", "names"} BY <1>1 DEF LockIsCall
  <1>3. ASSUME NEW ts \in Named, Leaves(c, ts), holder' = holder,
               ts # NoParent => ts = threadTs /\ HasParent(callDay[c])
        PROVE  ThreadInv'
    <2>1. /\ calling'[c] \in {"replies", "idle"} /\ under'[c] = ts
          /\ \A e \in Callers : e # c => calling'[e] = calling[e] /\ under'[e] = under[e]
          /\ calling' \in [Callers -> ThreadMoments] /\ under' \in [Callers -> Named]
      BY <1>3 DEF Leaves, Goes, ThreadTypes, ThreadMoments
    <2>2. ThreadTypes' BY <1>1, <1>3, <2>1 DEF ThreadTypes
    <2>3. \A e \in Callers : calling'[e] \notin {"posts", "names"} BY <1>2, <2>1
    <2>4. LockIsCall' BY <1>1, <1>3, <2>3 DEF LockIsCall
    <2>5. NamedIsMade' /\ PostsAreNeeded' BY <1>1, <2>3 DEF NamedIsMade, PostsAreNeeded
    <2>6. OnlyParentIsKnown' BY <1>1, <1>2 DEF OnlyParentIsKnown
    <2>7. NameIsTheDays' BY <1>1, <1>2 DEF NameIsTheDays, HasParent
    <2>8. RepliesUnderDay'
      <3>1. CASE c = "consumer"
        <4>1. callDay[c] \in Dates BY DEF ThreadTypes
        <4>2. ts # NoParent => ts = callDay[c] \/ "crash" \in excuse[callDay[c]]
          BY <1>2, <1>3, <4>1 DEF NameIsTheDays
        <4>3. QED BY <1>1, <2>1, <3>1, <4>2 DEF RepliesUnderDay
      <3>2. CASE c # "consumer" BY <1>1, <2>1, <3>2 DEF RepliesUnderDay, Callers
      <3>3. QED BY <3>1, <3>2
    <2>9. QED BY <2>2, <2>4, <2>5, <2>6, <2>7, <2>8
  <1>4. ASSUME Known(c), Leaves(c, threadTs), holder' = holder PROVE ThreadInv'
    BY <1>3, <1>4 DEF Known, ThreadTypes
  <1>5. ASSUME Leaves(c, NoParent), holder' = holder PROVE ThreadInv'
    BY <1>3, <1>5 DEF Named
  <1>6. ASSUME ~Known(c), Goes(c, "posts"), holder' = c, UNCHANGED under PROVE ThreadInv'
    <2>1. /\ calling'[c] = "posts"
          /\ \A e \in Callers : e # c => calling'[e] = calling[e]
          /\ calling' \in [Callers -> ThreadMoments]
      BY <1>6 DEF Goes, ThreadTypes, ThreadMoments
    <2>2. ThreadTypes' BY <1>1, <1>6, <2>1 DEF ThreadTypes
    <2>3. LockIsCall' BY <1>2, <1>6, <2>1 DEF LockIsCall
    <2>4. NamedIsMade' BY <1>1, <1>2, <2>1 DEF NamedIsMade
    <2>5. PostsAreNeeded' BY <1>1, <1>2, <1>6, <2>1 DEF PostsAreNeeded, HasParent, Known
    <2>6. OnlyParentIsKnown' BY <1>1, <1>2 DEF OnlyParentIsKnown
    <2>7. NameIsTheDays' BY <1>1, <1>2 DEF NameIsTheDays, HasParent
    <2>8. RepliesUnderDay' BY <1>1, <1>6, <2>1 DEF RepliesUnderDay, Callers
    <2>9. QED BY <2>2, <2>3, <2>4, <2>5, <2>6, <2>7, <2>8
  <1>7. QED BY <1>4, <1>5, <1>6 DEF Enter

\* An attempt: a parent is the first of its day, or an answer was lost.
LEMMA AttemptThread ==
  ASSUME ThreadInv, NEW c \in Callers, NEW arrives \in BOOLEAN, NEW answered \in BOOLEAN,
         NEW again \in BOOLEAN, Attempt(c, arrives, answered, again)
  PROVE  ThreadInv'
  <1> DEFINE d == callDay[c]
  <1> USE NoParentAssumption DEF ThreadInv
  <1>1. /\ calling[c] = "posts" /\ (answered => arrives)
        /\ parents' = [parents EXCEPT ![d] = IF arrives /\ @ < 2 THEN @ + 1 ELSE @]
        /\ IF arrives /\ ~answered THEN Excused(d, "lost answer") ELSE UNCHANGED excuse
        /\ UNCHANGED <<today, threadDay, threadTs, callDay, savedDay, savedTs>>
    BY DEF Attempt, threadState, savedState
  <1>2. /\ holder = c /\ d \in Dates /\ ~HasParent(d)
        /\ \A e \in Callers : e # c => calling[e] \notin {"posts", "names"}
    BY <1>1 DEF LockIsCall, PostsAreNeeded, ThreadTypes
  <1>3. \/ /\ answered /\ Goes(c, "names") /\ UNCHANGED <<under, holder>>
        \/ /\ ~answered /\ UNCHANGED <<calling, under, holder>>
        \/ /\ ~answered /\ Leaves(c, NoParent) /\ holder' = NoParent
    BY DEF Attempt
  <1>4. /\ parents' \in [Dates -> Nat] /\ DOMAIN excuse' = Dates
        /\ \A e \in Dates : e # d => parents'[e] = parents[e] /\ excuse'[e] = excuse[e]
        /\ \A e \in Dates : parents'[e] >= parents[e] /\ excuse[e] \subseteq excuse'[e]
        /\ ~arrives => parents'[d] = parents[d]
        /\ arrives /\ parents[d] = 0 => parents'[d] = 1
        /\ arrives => parents'[d] > 0
        /\ arrives /\ ~answered => excuse'[d] # {}
    <2>1. parents \in [Dates -> Nat] /\ DOMAIN excuse = Dates BY DEF ThreadTypes
    <2>2. /\ parents' \in [Dates -> Nat]
          /\ \A e \in Dates : e # d => parents'[e] = parents[e]
          /\ \A e \in Dates : parents'[e] >= parents[e]
          /\ ~arrives => parents'[d] = parents[d]
          /\ arrives /\ parents[d] = 0 => parents'[d] = 1
          /\ arrives => parents'[d] > 0
      <3> DEFINE n == parents[d]
                 made == IF arrives /\ n < 2 THEN n + 1 ELSE n
      <3>1. n \in Nat BY <1>2, <2>1
      <3>2. parents' = [parents EXCEPT ![d] = made] BY <1>1
      <3> HIDE DEF n
      <3>3. /\ made \in Nat /\ made >= n
            /\ ~arrives => made = n
            /\ arrives /\ n = 0 => made = 1
            /\ arrives => made > 0
        BY <3>1
      <3> HIDE DEF made
      <3>4. /\ parents' \in [Dates -> Nat] /\ parents'[d] = made
            /\ \A e \in Dates : e # d => parents'[e] = parents[e]
        BY <1>2, <2>1, <3>2, <3>3
      <3>5. \A e \in Dates : parents'[e] >= parents[e]
        BY <2>1, <3>3, <3>4 DEF n
      <3>6. QED BY <3>3, <3>4, <3>5 DEF n
    <2>3. excuse' = excuse \/ (arrives /\ ~answered /\ excuse' = [excuse EXCEPT ![d] = @ \cup {"lost answer"}])
      BY <1>1 DEF Excused
    <2>4. arrives /\ ~answered => excuse' = [excuse EXCEPT ![d] = @ \cup {"lost answer"}]
      BY <1>1 DEF Excused
    <2>5. /\ DOMAIN excuse' = Dates
          /\ \A e \in Dates : e # d => excuse'[e] = excuse[e]
          /\ \A e \in Dates : excuse[e] \subseteq excuse'[e]
      BY <1>2, <2>1, <2>3
    <2>6. arrives /\ ~answered => excuse'[d] # {} BY <1>2, <2>1, <2>4
    <2> HIDE DEF d
    <2>7. QED BY <2>2, <2>5, <2>6
  <1>5. /\ calling' \in [Callers -> ThreadMoments] /\ under' \in [Callers -> Named]
        /\ holder' \in Callers \cup {NoParent}
        /\ \A e \in Callers : e # c => calling'[e] = calling[e] /\ under'[e] = under[e]
        /\ IF calling'[c] \in {"posts", "names"} THEN holder' = c ELSE holder' = NoParent
        /\ calling'[c] = "names" <=> answered
        /\ calling'[c] = "replies" => under'[c] = NoParent
    BY <1>1, <1>2, <1>3 DEF Goes, Leaves, ThreadTypes, ThreadMoments, Named
  <1>6. ThreadTypes' BY <1>1, <1>4, <1>5 DEF ThreadTypes
  <1>7. LockIsCall' BY <1>2, <1>5 DEF LockIsCall
  <1>8. NamedIsMade'
    <2>1. \A e \in Dates : parents[e] > 0 => parents'[e] > 0
      <3>1. \A e \in Dates : parents[e] \in Nat /\ parents'[e] \in Nat /\ parents'[e] >= parents[e]
        BY <1>4 DEF ThreadTypes
      <3>2. QED BY <3>1
    <2>2. \A e \in Dates : e \in {threadDay', savedDay'} => parents'[e] > 0
      BY <1>1, <2>1 DEF NamedIsMade
    <2>3. ASSUME NEW b \in Callers, calling'[b] = "names" PROVE parents'[callDay'[b]] > 0
      <3>1. CASE b = c BY <1>1, <1>4, <1>5, <2>3, <3>1
      <3>2. CASE b # c
        <4>1. calling[b] = "names" /\ callDay[b] \in Dates BY <1>5, <2>3, <3>2 DEF ThreadTypes
        <4>2. QED BY <1>1, <2>1, <4>1 DEF NamedIsMade
      <3>3. QED BY <3>1, <3>2
    <2>4. QED BY <2>2, <2>3 DEF NamedIsMade
  <1>9. PostsAreNeeded' BY <1>1, <1>2, <1>5 DEF PostsAreNeeded, HasParent
  <1>10. OnlyParentIsKnown'
    <2> SUFFICES ASSUME NEW e \in Dates, parents'[e] > 0, excuse'[e] = {}
                 PROVE  /\ parents'[e] = 1
                        /\ \/ threadDay = e /\ threadTs = e
                           \/ \E f \in Callers : calling'[f] = "names" /\ callDay[f] = e
      BY <1>1 DEF OnlyParentIsKnown
    <2>1. CASE e = d
      <3>1. parents[d] > 0 /\ excuse[d] = {} => threadDay = d /\ threadTs = d
        BY <1>1, <1>2 DEF OnlyParentIsKnown
      <3>2. excuse[d] = {} BY <1>4, <2>1
      <3>3. parents[d] = 0
        <4>1. parents[d] \in Nat BY <1>2 DEF ThreadTypes
        <4>2. ~(parents[d] > 0) BY <1>2, <3>1, <3>2 DEF HasParent
        <4>3. QED BY <4>1, <4>2
      <3>4. arrives /\ answered BY <1>4, <2>1, <3>3
      <3>5. QED BY <1>4, <1>5, <2>1, <3>3, <3>4
    <2>2. CASE e # d
      <3>1. parents[e] > 0 /\ excuse[e] = {} BY <1>4, <2>2
      <3>2. QED BY <1>2, <1>4, <1>5, <2>2, <3>1 DEF OnlyParentIsKnown
    <2>3. QED BY <2>1, <2>2
  <1>11. NameIsTheDays' BY <1>1, <1>2, <1>4, <1>5 DEF NameIsTheDays, HasParent
  <1>12. RepliesUnderDay' BY <1>1, <1>2, <1>4, <1>5 DEF RepliesUnderDay, Callers, ThreadTypes
  <1>13. QED BY <1>6, <1>7, <1>8, <1>9, <1>10, <1>11, <1>12

\* The day is assigned: the day before has an excuse from now on.
LEMMA NameDayThread == ASSUME ThreadInv, NEW c \in Callers, NameDay(c) PROVE ThreadInv'
  <1> DEFINE d == callDay[c]
  <1> USE NoParentAssumption DEF ThreadInv
  <1>1. /\ calling[c] = "names" /\ threadDay # d /\ threadDay' = d /\ d \in Dates
        /\ excuse' = [e \in Dates |-> IF e = threadDay THEN excuse[e] \cup {"midnight"} ELSE excuse[e]]
        /\ UNCHANGED <<today, threadTs, calling, callDay, under, holder, savedDay, savedTs, parents>>
    BY DEF NameDay, calls, savedState, ThreadTypes
  <1>2. \A e \in Callers : calling[e] = "posts" => FALSE BY <1>1, OneInside
  <1>3. \A e \in Dates : excuse[e] \subseteq excuse'[e] BY <1>1
  <1>4. ThreadTypes' BY <1>1 DEF ThreadTypes, Named
  <1>5. LockIsCall' BY <1>1 DEF LockIsCall
  <1>6. NamedIsMade' BY <1>1 DEF NamedIsMade
  <1>7. PostsAreNeeded' BY <1>1, <1>2 DEF PostsAreNeeded
  <1>8. OnlyParentIsKnown'
    <2> SUFFICES ASSUME NEW e \in Dates, parents[e] > 0, excuse'[e] = {}
                 PROVE  /\ parents[e] = 1
                        /\ \/ threadDay' = e /\ threadTs = e
                           \/ \E f \in Callers : calling[f] = "names" /\ callDay[f] = e
      BY <1>1 DEF OnlyParentIsKnown
    <2>1. excuse[e] = {} /\ e # threadDay BY <1>1, <1>3
    <2>2. QED BY <2>1 DEF OnlyParentIsKnown
  <1>9. NameIsTheDays' BY <1>1 DEF NameIsTheDays, HasParent
  <1>10. RepliesUnderDay' BY <1>1, <1>3 DEF RepliesUnderDay, ThreadTypes, Callers
  <1>11. QED BY <1>4, <1>5, <1>6, <1>7, <1>8, <1>9, <1>10

\* The name is assigned, and the parent known from now on.
LEMMA NameParentThread == ASSUME ThreadInv, NEW c \in Callers, NameParent(c) PROVE ThreadInv'
  <1> DEFINE d == callDay[c]
  <1> USE NoParentAssumption DEF ThreadInv
  <1>1. /\ calling[c] = "names" /\ threadDay = d /\ threadTs' = d /\ d \in Dates
        /\ Leaves(c, d) /\ holder' = NoParent /\ parents[d] > 0
        /\ UNCHANGED <<today, threadDay, callDay, savedDay, savedTs, parents, excuse>>
    BY DEF NameParent, savedState, ThreadTypes, NamedIsMade
  <1>2. \A e \in Callers : e # c => calling[e] \notin {"posts", "names"} BY <1>1, OneInside
  <1>3. /\ calling'[c] \in {"replies", "idle"} /\ under'[c] = d
        /\ \A e \in Callers : e # c => calling'[e] = calling[e] /\ under'[e] = under[e]
        /\ calling' \in [Callers -> ThreadMoments] /\ under' \in [Callers -> Named]
    BY <1>1 DEF Leaves, Goes, ThreadTypes, ThreadMoments, Named
  <1>4. \A e \in Callers : calling'[e] \notin {"posts", "names"} BY <1>2, <1>3
  <1>5. ThreadTypes' BY <1>1, <1>3 DEF ThreadTypes, Named
  <1>6. LockIsCall' BY <1>1, <1>4 DEF LockIsCall
  <1>7. NamedIsMade' BY <1>1, <1>4 DEF NamedIsMade
  <1>8. PostsAreNeeded' BY <1>4 DEF PostsAreNeeded
  <1>9. OnlyParentIsKnown' BY <1>1, <1>2 DEF OnlyParentIsKnown
  <1>10. NameIsTheDays' BY <1>1 DEF NameIsTheDays, HasParent
  <1>11. RepliesUnderDay' BY <1>1, <1>3 DEF RepliesUnderDay, Callers
  <1>12. QED BY <1>5, <1>6, <1>7, <1>8, <1>9, <1>10, <1>11

LEMMA ReplyThread == ASSUME ThreadInv, Reply PROVE ThreadInv'
  <1> USE DEF ThreadInv
  <1>1. /\ calling' = [calling EXCEPT !["consumer"] = "idle"]
        /\ under' = [under EXCEPT !["consumer"] = NoParent] /\ calling["consumer"] = "replies"
        /\ UNCHANGED <<today, threadDay, threadTs, callDay, holder, savedDay, savedTs, parents, excuse>>
    BY DEF Reply, Goes, threadState, savedState
  <1>2. "consumer" \in Callers BY DEF Callers
  <1>3. /\ \A e \in Callers : e # "consumer" => calling'[e] = calling[e]
        /\ calling'["consumer"] = "idle"
        /\ \A e \in Callers : \A place \in {"posts", "names"} : calling'[e] = place <=> calling[e] = place
    BY <1>1, <1>2 DEF ThreadTypes
  <1>4. ThreadTypes' BY <1>1, <1>2 DEF ThreadTypes, ThreadMoments, Named
  <1>5. LockIsCall' BY <1>1, <1>3 DEF LockIsCall
  <1>6. NamedIsMade' BY <1>1, <1>3 DEF NamedIsMade
  <1>7. PostsAreNeeded' BY <1>1, <1>3 DEF PostsAreNeeded, HasParent
  <1>8. OnlyParentIsKnown' BY <1>1, <1>3 DEF OnlyParentIsKnown
  <1>9. NameIsTheDays' BY <1>1, <1>3 DEF NameIsTheDays, HasParent
  <1>10. RepliesUnderDay' BY <1>3 DEF RepliesUnderDay
  <1>11. QED BY <1>4, <1>5, <1>6, <1>7, <1>8, <1>9, <1>10

\* What is saved may have been split between the two assignments.
LEMMA SaveThreadKeeps == ASSUME ThreadInv, SaveThread PROVE ThreadInv'
  <1>1. /\ savedDay' = threadDay /\ savedTs' = threadTs
        /\ UNCHANGED <<today, threadDay, threadTs, calling, callDay, under, holder, parents, excuse>>
    BY DEF SaveThread, threadState, calls
  <1>2. QED
    BY <1>1 DEF ThreadInv, ThreadTypes, LockIsCall, NamedIsMade, PostsAreNeeded,
                OnlyParentIsKnown, NameIsTheDays, RepliesUnderDay, HasParent

LEMMA TimeThread == ASSUME ThreadInv, Midnight \/ PauseEnds PROVE ThreadInv'
  <1>1. /\ today' \in Dates
        /\ UNCHANGED <<threadDay, threadTs, calling, callDay, under, holder, savedDay, savedTs, parents, excuse>>
    BY DailyThreadAssumption
    DEF Midnight, PauseEnds, threadState, calls, savedState, ThreadInv, ThreadTypes, Dates
  <1>2. QED
    BY <1>1 DEF ThreadInv, ThreadTypes, LockIsCall, NamedIsMade, PostsAreNeeded,
                OnlyParentIsKnown, NameIsTheDays, RepliesUnderDay, HasParent

\* A death excuses the days whose parent was not saved whole.
LEMMA DeathThread == ASSUME ThreadInv, NotifierDies PROVE ThreadInv'
  <1> USE NoParentAssumption DEF ThreadInv
  <1>1. /\ threadDay' = savedDay /\ threadTs' = savedTs /\ holder' = NoParent
        /\ calling' = [c \in Callers |-> "idle"] /\ under' = [c \in Callers |-> NoParent]
        /\ excuse' = [d \in Dates |-> IF parents[d] > 0 /\ ~(savedDay = d /\ savedTs = d)
                                      THEN excuse[d] \cup {"crash"} ELSE excuse[d]]
        /\ UNCHANGED <<today, callDay, savedDay, savedTs, parents>>
    BY DEF NotifierDies, savedState
  <1>2. \A c \in Callers : calling'[c] = "idle" BY <1>1
  <1>3. \A d \in Dates : /\ excuse[d] \subseteq excuse'[d]
                         /\ parents[d] > 0 =>
                              (savedDay = d /\ savedTs = d) \/ "crash" \in excuse'[d]
    BY <1>1
  <1>4. ThreadTypes' BY <1>1 DEF ThreadTypes, Named, ThreadMoments
  <1>5. LockIsCall' BY <1>1, <1>2 DEF LockIsCall
  <1>6. NamedIsMade' BY <1>1, <1>2 DEF NamedIsMade
  <1>7. PostsAreNeeded' BY <1>2 DEF PostsAreNeeded
  <1>8. OnlyParentIsKnown'
    <2> SUFFICES ASSUME NEW d \in Dates, parents[d] > 0, excuse'[d] = {}
                 PROVE  parents[d] = 1 /\ savedDay = d /\ savedTs = d
      BY <1>1 DEF OnlyParentIsKnown
    <2>1. savedDay = d /\ savedTs = d /\ excuse[d] = {} BY <1>3
    <2>2. QED BY <2>1 DEF OnlyParentIsKnown
  <1>9. NameIsTheDays' BY <1>1, <1>3 DEF NameIsTheDays, HasParent, NamedIsMade
  <1>10. RepliesUnderDay' BY <1>2 DEF RepliesUnderDay, Callers
  <1>11. QED BY <1>4, <1>5, <1>6, <1>7, <1>8, <1>9, <1>10

LEMMA NextThread == ThreadInv /\ [ThreadNext]_threadVars => ThreadInv'
  <1>1. ThreadInv /\ UNCHANGED threadVars => ThreadInv'
    BY DEF threadVars, threadState, calls, savedState, ThreadInv, ThreadTypes, LockIsCall, NamedIsMade,
           PostsAreNeeded, OnlyParentIsKnown, NameIsTheDays, RepliesUnderDay, HasParent
  <1>2. ThreadInv /\ (Deliver \/ StartParent) => ThreadInv'
    BY CallThread DEF Deliver, StartParent, Callers
  <1>3. ThreadInv /\ ThreadNext => ThreadInv'
    BY <1>2, EnterThread, AttemptThread, NameDayThread, NameParentThread, ReplyThread, TimeThread,
       SaveThreadKeeps, DeathThread, Zenon DEF ThreadNext
  <1>4. QED BY <1>1, <1>3

\* A day gets a second parent, or an alert another day's, only for one of the named
\* reasons, however two threads, saves, midnights, lost answers and deaths interleave
\* (notify.py:741, 756).
THEOREM OneParent == ThreadSpec => []OneParentPerDay
  <1>1. ThreadInv => OneParentPerDay
    BY DEF ThreadInv, ThreadTypes, OnlyParentIsKnown, RepliesUnderDay, OneParentPerDay
  <1>2. QED BY <1>1, InitThread, NextThread, PTL DEF ThreadSpec

-----------------------------------------------------------------------------
(* The screen of the nodes.                                                *)

Found == AnswerRecords \cup {NoAnswer}
RefreshMoments == {"idle", "stat", "read", "first", "second"}

RefreshTypes ==
  /\ mine \in [id : Nat, state : States] /\ changes \in Nat /\ mine.id >= 1
  /\ mine.id <= changes + 1 /\ changes <= MaxChanges
  /\ data \in AnswerRecords /\ found \in Found /\ onScreen \in Found /\ base \in Found
  /\ mtime \in Nat /\ stamp \in Nat /\ lastMtime \in Nat
  /\ at \in RefreshMoments /\ mixed \in BOOLEAN
  /\ told \in [1..(MaxChanges + 1) -> Nat]

\* An answer is not newer than another state of the user's job.
NotAfter(a, b) == a.id < b.id \/ (a.id = b.id /\ (a.state = "over" => b.state = "over"))

\* What was read of the file is what is in it while its time stays the same, and what is
\* shown is not older than a file that counts as seen.
SeenIsShown ==
  /\ 0 < mtime /\ stamp <= mtime /\ lastMtime <= mtime
  /\ data.at <= changes
  /\ lastMtime = mtime => onScreen # NoAnswer /\ onScreen.at >= data.at
  /\ at = "read" => stamp > 0
  /\ at = "read" /\ found # NoAnswer /\ stamp = mtime => found.at >= data.at
  /\ at \in {"idle", "stat", "first"} => found = NoAnswer
  /\ at = "second" => found # NoAnswer /\ (lastMtime = mtime => found.at >= data.at)

\* While the file is the only source, answers come in the order of what they saw.
InOrder ==
  /\ NotAfter(data, mine)
  /\ at = "second" => mixed
  /\ at = "read" /\ found # NoAnswer => NotAfter(found, data)
  /\ ~mixed =>
       /\ base # NoAnswer => NotAfter(base, data)
       /\ at = "read" /\ found # NoAnswer /\ base # NoAnswer => NotAfter(base, found)
       /\ onScreen # NoAnswer /\ ~onScreen.wrong => onScreen = base

\* Told once, of jobs that are over in the list that was compared last.
ToldIsOver ==
  ~mixed => \A i \in DOMAIN told : told[i] > 0 =>
    told[i] = 1 /\ base # NoAnswer /\ (i < base.id \/ (i = base.id /\ base.state = "over"))

RefreshInv == RefreshTypes /\ SeenIsShown /\ InOrder /\ ToldIsOver

LEMMA AnswerNow ==
  ASSUME RefreshInv, NEW wrong \in BOOLEAN
  PROVE  /\ Answer(wrong) \in AnswerRecords /\ Answer(wrong).at = changes
         /\ Answer(wrong).id = mine.id /\ Answer(wrong).state = mine.state
         /\ Answer(wrong).wrong = wrong
  BY RefreshAssumption DEF RefreshInv, RefreshTypes, Answer, AnswerRecords

LEMMA AnswerFields ==
  ASSUME NEW x \in AnswerRecords
  PROVE  /\ x.id \in 1..(MaxChanges + 1) /\ x.id \in Nat /\ x.state \in States /\ x.at \in Nat
         /\ x.wrong \in BOOLEAN
         /\ \A w \in BOOLEAN : [x EXCEPT !.wrong = w] \in AnswerRecords /\ [x EXCEPT !.wrong = w].at = x.at
  BY RefreshAssumption DEF AnswerRecords

LEMMA InitRefresh == RefreshInit => RefreshInv
  <1> SUFFICES ASSUME RefreshInit PROVE RefreshInv OBVIOUS
  <1> USE RefreshAssumption, NoAnswerAssumption DEF RefreshInit
  <1>1. data \in AnswerRecords /\ data.id = 1 /\ data.at = 0 /\ data.state = "running"
    BY DEF Answer, AnswerRecords, States
  <1>2. RefreshTypes
    <2>1. mine \in [id : Nat, state : States] /\ mine.id = 1 BY DEF States
    <2>2. told \in [1..(MaxChanges + 1) -> Nat] OBVIOUS
    <2>3. changes = 0 /\ mtime = 1 /\ stamp = 0 /\ lastMtime = 0 /\ MaxChanges \in Nat OBVIOUS
    <2>4. found \in Found /\ onScreen \in Found /\ base \in Found BY DEF Found
    <2>5. at \in RefreshMoments /\ mixed \in BOOLEAN BY DEF RefreshMoments
    <2>6. mine.id >= 1 /\ mine.id <= changes + 1 /\ changes <= MaxChanges /\ changes \in Nat
      BY ONLY <2>1, <2>3
    <2>7. mtime \in Nat /\ stamp \in Nat /\ lastMtime \in Nat BY ONLY <2>3
    <2>8. QED BY ONLY <1>1, <2>1, <2>2, <2>4, <2>5, <2>6, <2>7 DEF RefreshTypes
  <1>3. SeenIsShown
    <2>1. at = "idle" /\ found = NoAnswer /\ mtime = 1 /\ stamp = 0 /\ lastMtime = 0 /\ changes = 0
      OBVIOUS
    <2>2. QED BY ONLY <1>1, <2>1 DEF SeenIsShown
  <1>4. InOrder BY <1>1 DEF InOrder, NotAfter
  <1>5. ToldIsOver BY DEF ToldIsOver
  <1>6. QED BY <1>2, <1>3, <1>4, <1>5 DEF RefreshInv

\* The scheduler never goes back to an earlier state of a job that is over.
LEMMA JobRefresh == ASSUME RefreshInv, NEW state \in States, JobMoves(state) PROVE RefreshInv'
  <1> USE DEF RefreshInv
  <1>1. /\ changes' = changes + 1 /\ changes < MaxChanges
        /\ UNCHANGED <<data, mtime, young, forced, at, force, stamp, found, lastMtime, onScreen, base, told, mixed>>
    BY DEF JobMoves, thread, screen
  <1>2. /\ mine' \in [id : Nat, state : States] /\ mine'.id <= changes + 2 /\ mine'.id >= 1
        /\ mine'.id > mine.id \/ (mine'.id = mine.id /\ mine.state # "over")
    BY DEF JobMoves, RefreshTypes, States
  <1>3. RefreshTypes' BY <1>1, <1>2, RefreshAssumption DEF RefreshTypes
  <1>4. SeenIsShown' BY <1>1, AnswerFields DEF SeenIsShown, RefreshTypes
  <1>5. NotAfter(data, mine')
    BY <1>2, AnswerFields DEF InOrder, NotAfter, RefreshTypes
  <1>6. InOrder' BY <1>1, <1>5 DEF InOrder
  <1>7. ToldIsOver' BY <1>1 DEF ToldIsOver
  <1>8. QED BY <1>3, <1>4, <1>6, <1>7

LEMMA NotAfterIsOrder ==
  ASSUME NEW x \in AnswerRecords, NEW y \in AnswerRecords, NEW z, z.id \in Nat, NotAfter(x, y), NotAfter(y, z)
  PROVE  NotAfter(x, z)
  BY AnswerFields DEF NotAfter

LEMMA WriteRefresh == ASSUME RefreshInv, NEW wrong \in BOOLEAN, CollectorWrites(wrong) PROVE RefreshInv'
  <1> USE DEF RefreshInv
  <1>1. /\ data' = Answer(wrong) /\ mtime' = mtime + 1
        /\ UNCHANGED <<mine, changes, forced, at, force, stamp, found, lastMtime, onScreen, base, told, mixed>>
    BY DEF CollectorWrites, thread, screen
  <1>2. /\ data' \in AnswerRecords /\ data'.at = changes
        /\ data'.id = mine.id /\ data'.state = mine.state /\ mine.id \in Nat
    BY <1>1, AnswerNow DEF RefreshTypes
  <1>3. RefreshTypes' BY <1>1, <1>2 DEF RefreshTypes
  <1>4. SeenIsShown' BY <1>1, <1>2, AnswerFields DEF SeenIsShown, RefreshTypes
  <1>5. \A a \in AnswerRecords : NotAfter(a, data) => NotAfter(a, data')
    <2> SUFFICES ASSUME NEW a \in AnswerRecords, NotAfter(a, data) PROVE NotAfter(a, data') OBVIOUS
    <2>1. NotAfter(a, mine) BY <1>2, NotAfterIsOrder DEF InOrder, RefreshTypes
    <2>2. QED BY <1>2, <2>1 DEF NotAfter
  <1>6. NotAfter(data', mine) BY <1>2 DEF NotAfter
  <1>7. InOrder' BY <1>1, <1>5, <1>6 DEF InOrder, RefreshTypes, Found
  <1>8. ToldIsOver' BY <1>1 DEF ToldIsOver
  <1>9. QED BY <1>3, <1>4, <1>7, <1>8

\* Steps that neither change what was read nor show anything.
LEMMA QuietRefresh ==
  ASSUME RefreshInv,
         UNCHANGED <<mine, changes, data, mtime, lastMtime, onScreen, base, told, mixed>>,
         \/ UNCHANGED <<at, stamp, found>>
         \/ at' = "stat" /\ at = "idle" /\ UNCHANGED <<stamp, found>>
         \/ at' = "idle" /\ stamp' = 0 /\ found' = NoAnswer
         \/ at' = "first" /\ found = NoAnswer /\ UNCHANGED <<stamp, found>>
         \/ at' = "read" /\ found = NoAnswer /\ found' = found /\ stamp' = mtime
         \/ at' = at /\ at = "read" /\ stamp' = stamp /\ found' = data
  PROVE  RefreshInv'
  <1> USE DEF RefreshInv
  <1>1. RefreshTypes' BY DEF RefreshTypes, RefreshMoments, Found
  <1>2. SeenIsShown' BY AnswerFields DEF SeenIsShown, RefreshTypes
  <1>3. NotAfter(data, data) BY AnswerFields DEF NotAfter
  <1>4. InOrder' BY <1>3 DEF InOrder
  <1>5. ToldIsOver' BY DEF ToldIsOver
  <1>6. QED BY <1>1, <1>2, <1>4, <1>5

\* What is shown, and told, of an answer.
LEMMA ApplyTells ==
  ASSUME RefreshInv, NEW answer \in AnswerRecords, Apply(answer),
         ~mixed => (base # NoAnswer => NotAfter(base, answer))
  PROVE  /\ onScreen' = answer /\ base' = IF answer.wrong THEN base ELSE answer
         /\ base' \in Found
         /\ told' \in [1..(MaxChanges + 1) -> Nat]
         /\ ~mixed => \A i \in DOMAIN told' : told'[i] > 0 =>
              told'[i] = 1 /\ base' # NoAnswer /\ (i < base'.id \/ (i = base'.id /\ base'.state = "over"))
  <1> USE RefreshAssumption, NoAnswerAssumption DEF RefreshInv
  <1>1. /\ onScreen' = answer /\ base' = (IF answer.wrong THEN base ELSE answer)
        /\ told' = [i \in DOMAIN told |-> IF i \in Ended(answer) /\ ~mixed THEN told[i] + 1 ELSE told[i]]
    BY DEF Apply
  <1>2. told' \in [1..(MaxChanges + 1) -> Nat] /\ base' \in Found
    BY <1>1 DEF RefreshTypes, Found
  <1>3. ASSUME ~mixed, NEW i \in DOMAIN told', told'[i] > 0
        PROVE  told'[i] = 1 /\ base' # NoAnswer /\ (i < base'.id \/ (i = base'.id /\ base'.state = "over"))
    <2>1. i \in 1..(MaxChanges + 1) /\ i \in Nat /\ told[i] \in Nat /\ i \in DOMAIN told
      BY <1>1, <1>2, <1>3 DEF RefreshTypes
    <2>2. CASE i \in Ended(answer)
      <3>1. /\ ~answer.wrong /\ base # NoAnswer /\ base.state = "running" /\ i = base.id
            /\ answer.id = base.id => answer.state = "over"
        BY <2>2 DEF Ended
      <3>2. ~(told[i] > 0) BY <1>3, <2>1, <3>1 DEF ToldIsOver
      <3>3. told'[i] = 1 BY <1>1, <1>3, <2>1, <2>2, <3>2
      <3>4. base' = answer /\ NotAfter(base, answer) BY <1>1, <1>3, <3>1
      <3>5. QED BY <3>1, <3>3, <3>4 DEF NotAfter
    <2>3. CASE i \notin Ended(answer)
      <3>1. told[i] > 0 /\ told'[i] = told[i] BY <1>1, <1>3, <2>1, <2>3
      <3>2. told[i] = 1 /\ base # NoAnswer /\ (i < base.id \/ (i = base.id /\ base.state = "over"))
        BY <1>3, <2>1, <3>1 DEF ToldIsOver
      <3>3. CASE answer.wrong BY <1>1, <3>1, <3>2, <3>3
      <3>4. CASE ~answer.wrong
        <4>1. base' = answer /\ NotAfter(base, answer) BY <1>1, <1>3, <3>2, <3>4
        <4>2. base \in AnswerRecords BY <3>2 DEF RefreshTypes, Found
        <4>3. base.id \in Nat /\ answer.id \in Nat BY <4>2, AnswerFields
        <4>4. QED BY <2>1, <3>1, <3>2, <4>1, <4>3 DEF NotAfter
      <3>5. QED BY <3>3, <3>4
    <2>4. QED BY <2>2, <2>3
  <1>4. QED BY <1>1, <1>2, <1>3

\* An answer of the file is shown.
LEMMA ShowFileRefresh == ASSUME RefreshInv, ShowFile PROVE RefreshInv'
  <1> USE NoAnswerAssumption DEF RefreshInv
  <1>1. /\ at = "read" /\ found # NoAnswer /\ found \in AnswerRecords /\ lastMtime' = stamp /\ Apply(found)
        /\ at' = "idle" /\ stamp' = 0 /\ found' = NoAnswer
        /\ UNCHANGED <<mine, changes, data, mtime, young, mixed>>
    BY DEF ShowFile, Noted, Rest, world, RefreshTypes, Found
  <1>2. ~mixed => (base # NoAnswer => NotAfter(base, found)) BY <1>1 DEF InOrder
  <1>3. /\ onScreen' = found /\ base' = (IF found.wrong THEN base ELSE found)
        /\ base' \in Found
        /\ told' \in [1..(MaxChanges + 1) -> Nat]
        /\ ~mixed => \A i \in DOMAIN told' : told'[i] > 0 =>
             told'[i] = 1 /\ base' # NoAnswer /\ (i < base'.id \/ (i = base'.id /\ base'.state = "over"))
    BY <1>1, <1>2, ApplyTells
  <1>4. RefreshTypes' BY <1>1, <1>3 DEF RefreshTypes, Found, RefreshMoments
  <1>5. SeenIsShown' BY <1>1, <1>3 DEF SeenIsShown, RefreshTypes
  <1>6. InOrder' BY <1>1, <1>3 DEF InOrder
  <1>7. ToldIsOver' BY <1>1, <1>3 DEF ToldIsOver
  <1>8. QED BY <1>4, <1>5, <1>6, <1>7

\* The terminal's own answers are as new as what they asked.
LEMMA OwnAnswerRefresh ==
  ASSUME RefreshInv, NEW answer \in AnswerRecords, Apply(answer), mixed',
         lastMtime = mtime => answer.at >= data.at,
         UNCHANGED <<mine, changes, data, mtime, lastMtime>>,
         \/ at' = "idle" /\ stamp' = 0 /\ found' = NoAnswer
         \/ at' = "second" /\ stamp' = stamp /\ found' \in AnswerRecords /\ found'.at >= data.at
  PROVE  RefreshInv'
  <1> USE RefreshAssumption, NoAnswerAssumption DEF RefreshInv
  <1>1. /\ onScreen' = answer /\ base' = (IF answer.wrong THEN base ELSE answer)
        /\ told' = [i \in DOMAIN told |-> IF i \in Ended(answer) /\ ~mixed THEN told[i] + 1 ELSE told[i]]
    BY DEF Apply
  <1>2. told' \in [1..(MaxChanges + 1) -> Nat] /\ base' \in Found /\ mixed' = TRUE
    BY <1>1 DEF RefreshTypes, Found
  <1>3. RefreshTypes' BY <1>1, <1>2 DEF RefreshTypes, Found, RefreshMoments
  <1>4. SeenIsShown' BY <1>1 DEF SeenIsShown, RefreshTypes
  <1>5. InOrder' BY <1>2 DEF InOrder
  <1>6. ToldIsOver' BY <1>2 DEF ToldIsOver
  <1>7. QED BY <1>3, <1>4, <1>5, <1>6

\* A repaint shows and tells nothing new.
LEMMA RerenderRefresh == ASSUME RefreshInv, Rerender PROVE RefreshInv'
  <1> USE NoAnswerAssumption DEF RefreshInv
  <1>1. /\ onScreen \in AnswerRecords /\ Apply(onScreen)
        /\ UNCHANGED <<mine, changes, data, mtime, at, stamp, found, lastMtime, mixed>>
    BY DEF Rerender, world, thread, RefreshTypes, Found
  <1>2. \/ onScreen.wrong \/ mixed \/ onScreen = base
    BY <1>1 DEF InOrder
  <1>3. Ended(onScreen) = {} \/ mixed
    BY <1>2 DEF Ended
  <1>4. /\ onScreen' = onScreen /\ base' = (IF onScreen.wrong THEN base ELSE onScreen)
        /\ told' = [i \in DOMAIN told |-> IF i \in Ended(onScreen) /\ ~mixed THEN told[i] + 1 ELSE told[i]]
    BY <1>1 DEF Apply
  <1>5. /\ ~mixed => base' = base
        /\ told' \in [1..(MaxChanges + 1) -> Nat] /\ base' \in Found
        /\ ~mixed => told' = told
    BY <1>1, <1>2, <1>3, <1>4 DEF RefreshTypes, Found
  <1>6. RefreshTypes' BY <1>1, <1>4, <1>5 DEF RefreshTypes
  <1>7. SeenIsShown' BY <1>1, <1>4 DEF SeenIsShown
  <1>8. InOrder' BY <1>1, <1>4, <1>5 DEF InOrder
  <1>9. ToldIsOver' BY <1>1, <1>5 DEF ToldIsOver
  <1>10. QED BY <1>6, <1>7, <1>8, <1>9

LEMMA NextRefresh == RefreshInv /\ [RefreshNext]_refreshVars => RefreshInv'
  <1> SUFFICES ASSUME RefreshInv, [RefreshNext]_refreshVars PROVE RefreshInv' OBVIOUS
  <1>1. CASE UNCHANGED refreshVars
    BY <1>1, QuietRefresh DEF refreshVars, world, thread, screen
  <1>2. CASE FileAges \/ PressRefresh \/ StartRefresh \/ StatFile
    <2>1. CASE FileAges \/ PressRefresh \/ StartRefresh
      BY <2>1, QuietRefresh DEF FileAges, PressRefresh, StartRefresh, world, thread, screen
    <2>2. CASE StatFile
      <3>1. found = NoAnswer /\ at = "stat"
        BY <2>2 DEF StatFile, RefreshInv, SeenIsShown
      <3>2. UNCHANGED <<mine, changes, data, mtime, lastMtime, onScreen, base, told, mixed>>
        BY <2>2 DEF StatFile, world, screen
      <3>3. \/ at' = "first" /\ UNCHANGED <<stamp, found>>
            \/ at' = "idle" /\ stamp' = 0 /\ found' = NoAnswer
            \/ at' = "read" /\ found' = found /\ stamp' = mtime
        BY <2>2 DEF StatFile, Rest
      <3>4. QED BY <3>1, <3>2, <3>3, QuietRefresh
    <2>3. QED BY <1>2, <2>1, <2>2
  <1>3. ASSUME NEW ok \in BOOLEAN, ReadFile(ok) PROVE RefreshInv'
    BY <1>3, QuietRefresh DEF ReadFile, world, screen
  <1>4. CASE ShowFile BY <1>4, ShowFileRefresh
  <1>5. ASSUME NEW wrong \in BOOLEAN, ShowScheduler(wrong) PROVE RefreshInv'
    <2>1. /\ Answer(TRUE) \in AnswerRecords /\ Answer(wrong) \in AnswerRecords
          /\ Answer(TRUE).at = changes /\ Answer(wrong).at = changes
          /\ changes >= data.at
      BY AnswerNow DEF RefreshInv, RefreshTypes, SeenIsShown, AnswerRecords
    <2>2. /\ found' = Answer(wrong) /\ Apply(Answer(TRUE)) /\ mixed' = TRUE /\ at' = "second"
          /\ UNCHANGED <<mine, changes, data, mtime, lastMtime, stamp>>
      BY <1>5 DEF ShowScheduler, world
    <2> HIDE DEF Answer
    <2>3. QED BY <2>1, <2>2, OwnAnswerRefresh
  <1>6. ASSUME NEW wrong \in BOOLEAN, ShowNoNodes(wrong) PROVE RefreshInv'
    <2>1. Answer(wrong) \in AnswerRecords /\ Answer(wrong).at = changes /\ changes >= data.at
      BY AnswerNow DEF RefreshInv, RefreshTypes, SeenIsShown, AnswerRecords
    <2>2. /\ Apply(Answer(wrong)) /\ mixed' = TRUE
          /\ at' = "idle" /\ stamp' = 0 /\ found' = NoAnswer
          /\ UNCHANGED <<mine, changes, data, mtime, lastMtime>>
      BY <1>6 DEF ShowNoNodes, Rest, world
    <2>3. QED BY <2>1, <2>2, OwnAnswerRefresh
  <1>7. ASSUME NEW failed \in BOOLEAN, ShowNodes(failed) PROVE RefreshInv'
    <2> DEFINE answer == [found EXCEPT !.wrong = @ \/ failed]
    <2>1. /\ at = "second" /\ Apply(answer)
          /\ at' = "idle" /\ stamp' = 0 /\ found' = NoAnswer
          /\ UNCHANGED <<mine, changes, data, mtime, lastMtime, mixed>>
      BY <1>7 DEF ShowNodes, Rest, world
    <2>2. found \in AnswerRecords /\ mixed /\ (lastMtime = mtime => found.at >= data.at)
      BY <2>1 DEF RefreshInv, RefreshTypes, SeenIsShown, InOrder, Found
    <2>3. (found.wrong \/ failed) \in BOOLEAN BY <2>2, AnswerFields
    <2>4. answer \in AnswerRecords /\ answer.at = found.at BY <2>2, <2>3, AnswerFields
    <2> HIDE DEF answer
    <2>5. mixed' BY <2>1, <2>2
    <2>6. QED BY <2>1, <2>2, <2>4, <2>5, OwnAnswerRefresh
  <1>8. CASE Rerender BY <1>8, RerenderRefresh
  <1>9. CASE RefreshNext
    BY <1>2, <1>3, <1>4, <1>5, <1>6, <1>7, <1>8, <1>9, JobRefresh, WriteRefresh DEF RefreshNext
  <1>10. QED BY <1>1, <1>9

\* A file that counts as seen is shown, or something newer is; and while the file is the
\* only source, a job is told done only when it is, and once, over errors, requeues and
\* repaints (tui.py:898, 946).
THEOREM HonestRefresh == RefreshSpec => []RefreshIsHonest
  <1>1. RefreshInv => RefreshIsHonest
    <2> SUFFICES ASSUME RefreshInv PROVE RefreshIsHonest OBVIOUS
    <2>1. at = "idle" /\ lastMtime = mtime => onScreen.at >= data.at BY DEF RefreshInv, SeenIsShown
    <2>2. ASSUME ~mixed, NEW i \in DOMAIN told, told[i] > 0 PROVE told[i] = 1 /\ IsOver(i)
      <3>1. /\ told[i] = 1 /\ base \in AnswerRecords /\ (i < base.id \/ (i = base.id /\ base.state = "over"))
            /\ NotAfter(base, data) /\ NotAfter(data, mine) /\ data \in AnswerRecords /\ mine.id \in Nat
        BY <2>2 DEF RefreshInv, RefreshTypes, ToldIsOver, InOrder, Found
      <3>2. NotAfter(base, mine) /\ base.id \in Nat BY <3>1, NotAfterIsOrder, AnswerFields
      <3>3. i \in Nat BY <2>2 DEF RefreshInv, RefreshTypes
      <3>4. QED BY <3>1, <3>2, <3>3 DEF NotAfter, IsOver
    <2>3. QED BY <2>1, <2>2 DEF RefreshIsHonest
  <1>2. QED BY <1>1, InitRefresh, NextRefresh, PTL DEF RefreshSpec

-----------------------------------------------------------------------------
(* The log panes.                                                          *)

ReaderSteps == {"away", "stat", "read", "mark", "show"}
Stamps == Nat \cup {NoLog}
Shown == Nat \cup {NoLog, Unreadable}
Partial == UNION {[S -> Shown] : S \in SUBSET Streams}
Readers == [at : ReaderSteps, stream : Streams, stamp : Stamps, text : Shown, updates : Partial]

LogViewTypes ==
  /\ log \in [Files -> Nat] /\ open \in BOOLEAN
  /\ open => source \in [Streams -> Files]
  /\ pane \in [Streams -> Shown]
  /\ DOMAIN prints \subseteq Streams /\ \A s \in DOMAIN prints : prints[s] \in Stamps
  /\ reader \in [Polls -> Readers]

\* A screen that is closed has nothing, and a thread nothing before it begins.
NothingIsLeft ==
  /\ ~open => prints = Empty /\ \A p \in Polls : reader[p].at = "away"
  /\ \A p \in Polls : reader[p].at = "away" => reader[p].updates = Empty

\* Only one thread reads, unless two overlapped.
OneReads ==
  ~overlapped => \A p, q \in Polls : reader[p].at # "away" /\ reader[q].at # "away" => p = q

\* A text that was read is not older than the signature that was taken before.
TextIsNotOlder ==
  \A p \in Polls : LET r == reader[p] IN
    /\ r.at \in {"read", "mark"} /\ r.stamp # NoLog => r.stamp \in Nat /\ r.stamp <= log[source[r.stream]]
    /\ r.at = "mark" /\ r.stamp # NoLog /\ r.text # Unreadable =>
         r.text \in Nat /\ r.stamp <= r.text /\ r.text <= log[source[r.stream]]

\* A signature that was noted is not newer than a text, nor this than the file.
Between(s, text) == prints[s] \in Nat /\ text \in Nat /\ prints[s] <= text /\ text <= log[source[s]]

\* So it is with the text of the pane, or the one that is about to be handed over.
SeenIsRead ==
  ~overlapped => \A s \in DOMAIN prints :
    /\ \A p \in Polls : s \in DOMAIN reader[p].updates => Between(s, reader[p].updates[s])
    /\ (\A p \in Polls : s \notin DOMAIN reader[p].updates) => Between(s, pane[s])

LogViewInv == LogViewTypes /\ NothingIsLeft /\ OneReads /\ TextIsNotOlder /\ SeenIsRead

LEMMA EmptyFacts ==
  /\ DOMAIN Empty = {} /\ Empty \in Partial
  /\ Away \in Readers /\ Away.at = "away" /\ Away.updates = Empty
  <1>1. DOMAIN Empty = {} /\ Empty \in [{} -> Shown] BY DEF Empty
  <1>2. Empty \in Partial BY <1>1 DEF Partial
  <1>3. QED BY <1>1, <1>2 DEF Away, Readers, ReaderSteps, Streams, Stamps, Shown

LEMMA WithIsPartial ==
  ASSUME NEW f \in Partial, NEW s \in Streams, NEW value \in Shown
  PROVE  With(f, s, value) \in Partial
  <1>1. PICK S \in SUBSET Streams : f \in [S -> Shown] BY DEF Partial
  <1>2. With(f, s, value) \in [S \cup {s} -> Shown] /\ S \cup {s} \in SUBSET Streams
    BY <1>1 DEF With
  <1>3. QED BY <1>2 DEF Partial

\* The next stream, the pane, or nothing, with the texts that were read.
LEMMA AfterStreamFacts ==
  ASSUME NEW r \in Readers
  PROVE  /\ AfterStream(r) \in Readers
         /\ AfterStream(r).updates = r.updates
         /\ AfterStream(r).at \in {"stat", "show", "away"}
         /\ AfterStream(r).at = "away" => r.updates = Empty
  <1>1. CASE r.stream = "out" BY <1>1 DEF AfterStream, Readers, ReaderSteps, Streams
  <1>2. CASE r.stream # "out" /\ r.updates = Empty BY <1>2, EmptyFacts DEF AfterStream
  <1>3. CASE r.stream # "out" /\ r.updates # Empty BY <1>3 DEF AfterStream, Readers, ReaderSteps
  <1>4. QED BY <1>1, <1>2, <1>3

LEMMA InitLogView == LogViewInit => LogViewInv
  <1> SUFFICES ASSUME LogViewInit PROVE LogViewInv OBVIOUS
  <1> USE EmptyFacts DEF LogViewInit
  <1>1. LogViewTypes BY DEF LogViewTypes, EmptyPane, Shown
  <1>2. NothingIsLeft /\ OneReads /\ TextIsNotOlder /\ SeenIsRead
    BY DEF NothingIsLeft, OneReads, TextIsNotOlder, SeenIsRead
  <1>3. QED BY <1>1, <1>2 DEF LogViewInv

\* A file only grows.
LEMMA WritesKeep == ASSUME LogViewInv, NEW f \in Files, JobWrites(f) PROVE LogViewInv'
  <1> USE DEF LogViewInv
  <1>1. /\ log' \in [Files -> Nat] /\ \A g \in Files : log[g] \in Nat /\ log'[g] >= log[g]
        /\ UNCHANGED <<open, source, pane, prints, reader, overlapped>>
    BY DEF JobWrites, screenVars, LogViewTypes
  <1>2. LogViewTypes' BY <1>1 DEF LogViewTypes
  <1>3. NothingIsLeft' /\ OneReads' BY <1>1 DEF NothingIsLeft, OneReads
  <1>4. \A p \in Polls : reader[p] \in Readers BY DEF LogViewTypes
  <1>5. \A p \in Polls : reader[p].at # "away" => source[reader[p].stream] \in Files
    BY <1>4 DEF NothingIsLeft, LogViewTypes, Readers
  <1>6. \A s \in DOMAIN prints : source[s] \in Files
    BY EmptyFacts DEF NothingIsLeft, LogViewTypes
  <1>7. TextIsNotOlder' BY <1>1, <1>5 DEF TextIsNotOlder
  <1>8. SeenIsRead' BY <1>1, <1>6 DEF SeenIsRead, Between
  <1>9. QED BY <1>2, <1>3, <1>7, <1>8

LEMMA OpenKeeps ==
  ASSUME LogViewInv, NEW merged \in BOOLEAN, NEW readable \in Rights, OpenScreen(merged, readable)
  PROVE  LogViewInv'
  <1> USE DEF LogViewInv
  <1>1. /\ ~open /\ open' = TRUE /\ UNCHANGED <<log, prints, reader, overlapped>>
        /\ source' = [s \in Streams |-> Preferred(IF merged THEN "out" ELSE s, readable)]
        /\ pane' = [s \in Streams |-> IF Can(source'[s], readable) THEN Text(source'[s]) ELSE Unreadable]
    BY DEF OpenScreen
  <1>2. prints = Empty /\ \A p \in Polls : reader[p].at = "away" /\ reader[p].updates = Empty
    BY <1>1 DEF NothingIsLeft
  <1>3. source' \in [Streams -> Files] BY <1>1 DEF Preferred, Files, Streams
  <1>4. \A f \in Files : Text(f) \in Shown BY DEF Text, Shown, LogViewTypes
  <1>5. pane' \in [Streams -> Shown] BY <1>1, <1>3, <1>4 DEF Shown
  <1>6. LogViewTypes' BY <1>1, <1>3, <1>5 DEF LogViewTypes
  <1>7. NothingIsLeft' /\ OneReads' /\ TextIsNotOlder' BY <1>1, <1>2 DEF NothingIsLeft, OneReads, TextIsNotOlder
  <1>8. SeenIsRead' BY <1>1, <1>2, EmptyFacts DEF SeenIsRead
  <1>9. QED BY <1>6, <1>7, <1>8

LEMMA CloseKeeps == ASSUME LogViewInv, CloseScreen PROVE LogViewInv'
  <1> USE EmptyFacts DEF LogViewInv, CloseScreen
  <1>1. \A p \in Polls : reader'[p] = Away OBVIOUS
  <1>2. LogViewTypes' BY DEF LogViewTypes, EmptyPane, Shown
  <1>3. NothingIsLeft' /\ OneReads' /\ TextIsNotOlder' /\ SeenIsRead'
    BY <1>1 DEF NothingIsLeft, OneReads, TextIsNotOlder, SeenIsRead
  <1>4. QED BY <1>2, <1>3

\* One thread moves on with what it has, and nothing else changes.
LEMMA ReaderMoves ==
  ASSUME LogViewInv, NEW p \in Polls, NEW r \in Readers, open,
         reader' = [reader EXCEPT ![p] = r],
         UNCHANGED <<log, open, source, pane, prints>>,
         r.updates = reader[p].updates,
         r.at = "away" => r.updates = Empty,
         \/ reader[p].at # "away" /\ overlapped' = overlapped
         \/ overlapped' = (overlapped \/ \E q \in Polls : reader[q].at # "away"),
         r.at \in {"read", "mark"} /\ r.stamp # NoLog =>
           r.stamp \in Nat /\ r.stamp <= log[source[r.stream]],
         r.at = "mark" /\ r.stamp # NoLog /\ r.text # Unreadable =>
           r.text \in Nat /\ r.stamp <= r.text /\ r.text <= log[source[r.stream]]
  PROVE  LogViewInv'
  <1> USE DEF LogViewInv
  <1>1. /\ reader' \in [Polls -> Readers] /\ reader'[p] = r
        /\ \A q \in Polls : q # p => reader'[q] = reader[q]
        /\ \A q \in Polls : reader'[q].updates = reader[q].updates
    BY DEF LogViewTypes
  <1>2. LogViewTypes' BY <1>1 DEF LogViewTypes
  <1>3. NothingIsLeft' BY <1>1 DEF NothingIsLeft
  <1>4. OneReads' BY <1>1 DEF OneReads
  <1>5. TextIsNotOlder'
    <2> SUFFICES ASSUME NEW q \in Polls
                 PROVE  /\ reader'[q].at \in {"read", "mark"} /\ reader'[q].stamp # NoLog =>
                              reader'[q].stamp \in Nat /\ reader'[q].stamp <= log[source[reader'[q].stream]]
                        /\ reader'[q].at = "mark" /\ reader'[q].stamp # NoLog /\ reader'[q].text # Unreadable =>
                              /\ reader'[q].text \in Nat /\ reader'[q].stamp <= reader'[q].text
                              /\ reader'[q].text <= log[source[reader'[q].stream]]
      BY DEF TextIsNotOlder
    <2>1. CASE q = p BY <1>1, <2>1
    <2>2. CASE q # p BY <1>1, <2>2 DEF TextIsNotOlder
    <2>3. QED BY <2>1, <2>2
  <1>6. ~overlapped' => ~overlapped OBVIOUS
  <1>7. SeenIsRead' BY <1>1, <1>6 DEF SeenIsRead, Between
  <1>8. QED BY <1>2, <1>3, <1>4, <1>5, <1>7

LEMMA StartKeeps == ASSUME LogViewInv, NEW p \in Polls, PollStarts(p) PROVE LogViewInv'
  <1> DEFINE r == [reader[p] EXCEPT !.at = "stat"]
  <1>1. reader[p] \in Readers BY DEF LogViewInv, LogViewTypes
  <1>2. r \in Readers /\ r.at = "stat" /\ r.updates = reader[p].updates BY <1>1 DEF Readers, ReaderSteps
  <1>3. /\ open /\ reader' = [reader EXCEPT ![p] = r]
        /\ overlapped' = (overlapped \/ \E q \in Polls : reader[q].at # "away")
        /\ UNCHANGED <<log, open, source, pane, prints>>
    BY DEF PollStarts
  <1> HIDE DEF r
  <1>4. QED BY <1>2, <1>3, ReaderMoves

\* A thread that reads has an open screen, and its pane a file.
LEMMA ReadingIsOpen ==
  ASSUME LogViewInv, NEW p \in Polls, reader[p].at # "away"
  PROVE  open /\ reader[p] \in Readers /\ reader[p].stream \in Streams
         /\ source[reader[p].stream] \in Files /\ log[source[reader[p].stream]] \in Nat
  <1>1. open /\ reader[p] \in Readers BY DEF LogViewInv, LogViewTypes, NothingIsLeft
  <1>2. reader[p].stream \in Streams BY <1>1 DEF Readers
  <1>3. QED BY <1>1, <1>2 DEF LogViewInv, LogViewTypes

LEMMA StatKeeps == ASSUME LogViewInv, NEW p \in Polls, StatLog(p) PROVE LogViewInv'
  <1> DEFINE s == reader[p].stream
             noticed == LogSignature(source[s])
             r == [reader[p] EXCEPT !.at = "read", !.stamp = noticed]
  <1>1. /\ reader[p].at = "stat" /\ UNCHANGED <<log, open, source, pane, prints, overlapped>>
        /\ reader' = [reader EXCEPT ![p] = IF Seen(s, noticed) THEN AfterStream(reader[p]) ELSE r]
    BY DEF StatLog
  <1>2. /\ open /\ reader[p] \in Readers /\ s \in Streams
        /\ source[s] \in Files /\ log[source[s]] \in Nat
    BY <1>1, ReadingIsOpen
  <1>3. noticed \in Stamps /\ (noticed # NoLog => noticed = log[source[s]])
    BY <1>2 DEF LogSignature, Stamps
  <1> HIDE DEF noticed
  <1>4. r \in Readers /\ r.at = "read" /\ r.stamp = noticed /\ r.stream = s /\ r.updates = reader[p].updates
    BY <1>2, <1>3 DEF Readers, ReaderSteps
  <1> HIDE DEF r, s
  <1>5. CASE Seen(s, noticed)
    <2>1. /\ AfterStream(reader[p]) \in Readers
          /\ AfterStream(reader[p]).updates = reader[p].updates
          /\ AfterStream(reader[p]).at \in {"stat", "show", "away"}
          /\ AfterStream(reader[p]).at = "away" => reader[p].updates = Empty
      BY <1>2, AfterStreamFacts
    <2>2. reader' = [reader EXCEPT ![p] = AfterStream(reader[p])] BY <1>1, <1>5
    <2>3. QED BY <1>1, <1>2, <2>1, <2>2, ReaderMoves
  <1>6. CASE ~Seen(s, noticed)
    <2>1. reader' = [reader EXCEPT ![p] = r] BY <1>1, <1>6
    <2>2. r.stamp # NoLog => r.stamp \in Nat /\ r.stamp <= log[source[r.stream]]
      BY <1>2, <1>3, <1>4
    <2>3. QED BY <1>1, <1>2, <1>4, <2>1, <2>2, ReaderMoves
  <1>7. QED BY <1>5, <1>6

LEMMA ReadKeeps == ASSUME LogViewInv, NEW p \in Polls, NEW ok \in BOOLEAN, ReadTail(p, ok) PROVE LogViewInv'
  <1> DEFINE s == reader[p].stream
             text == IF ok THEN Text(source[s]) ELSE Unreadable
             r == [reader[p] EXCEPT !.at = "mark", !.text = text]
  <1>1. /\ reader[p].at = "read" /\ UNCHANGED <<log, open, source, pane, prints, overlapped>>
        /\ reader' = [reader EXCEPT ![p].at = "mark", ![p].text = text]
    BY DEF ReadTail
  <1>2. /\ open /\ reader[p] \in Readers /\ s \in Streams
        /\ source[s] \in Files /\ log[source[s]] \in Nat
    BY <1>1, ReadingIsOpen
  <1>3. text \in Shown /\ (text # Unreadable => text = log[source[s]])
    BY <1>2 DEF Text, Shown
  <1> HIDE DEF text
  <1>4. reader' = [reader EXCEPT ![p] = r]
    BY <1>1, <1>2 DEF LogViewInv, LogViewTypes, Readers
  <1>5. /\ r \in Readers /\ r.at = "mark" /\ r.stamp = reader[p].stamp /\ r.text = text
        /\ r.stream = s /\ r.updates = reader[p].updates
    BY <1>2, <1>3 DEF Readers, ReaderSteps
  <1> HIDE DEF r
  <1>6. r.stamp # NoLog => r.stamp \in Nat /\ r.stamp <= log[source[r.stream]]
    BY <1>1, <1>5 DEF LogViewInv, TextIsNotOlder
  <1>7. r.stamp # NoLog /\ r.text # Unreadable =>
          r.text \in Nat /\ r.stamp <= r.text /\ r.text <= log[source[r.stream]]
    BY <1>2, <1>3, <1>5, <1>6
  <1>8. QED BY <1>1, <1>2, <1>4, <1>5, <1>6, <1>7, ReaderMoves

\* What is noted goes with the text that is handed over.
LEMMA MarkKeeps == ASSUME LogViewInv, NEW p \in Polls, MarkLog(p) PROVE LogViewInv'
  <1> DEFINE r == reader[p]
             s == reader[p].stream
             given == With(r.updates, s, r.text)
             marked == [r EXCEPT !.updates = given]
             noted == r.stamp # NoLog /\ r.text # Unreadable
  <1> USE DEF LogViewInv
  <1>1. /\ r.at = "mark" /\ UNCHANGED <<log, open, source, pane, overlapped>>
        /\ reader' = [reader EXCEPT ![p] = AfterStream(marked)]
        /\ prints' = IF noted THEN With(prints, s, r.stamp) ELSE Without(prints, s)
    BY DEF MarkLog, Fingerprint
  <1>2. /\ open /\ r \in Readers /\ s \in Streams
        /\ source[s] \in Files /\ log[source[s]] \in Nat
    BY <1>1, ReadingIsOpen
  <1>3. r.updates \in Partial /\ r.text \in Shown /\ r.stamp \in Stamps BY <1>2 DEF Readers
  <1>4. /\ given \in Partial /\ given # Empty
        /\ DOMAIN given = DOMAIN r.updates \cup {s} /\ given[s] = r.text
        /\ \A x \in DOMAIN r.updates : x # s => given[x] = r.updates[x]
    <2> DEFINE f == r.updates
               text == r.text
    <2>1. f \in Partial /\ s \in Streams /\ text \in Shown BY <1>2, <1>3
    <2> HIDE DEF f, text, s
    <2>2. With(f, s, text) \in Partial BY <2>1, WithIsPartial
    <2>3. /\ DOMAIN With(f, s, text) = DOMAIN f \cup {s} /\ With(f, s, text)[s] = text
          /\ \A x \in DOMAIN f : x # s => With(f, s, text)[x] = f[x]
          /\ With(f, s, text) # Empty
      BY EmptyFacts DEF With
    <2>4. QED BY <2>2, <2>3 DEF f, text, s
  <1>5. marked \in Readers /\ marked.updates = given
    <2> HIDE DEF given
    <2>1. QED BY <1>2, <1>4 DEF Readers
  <1>6. noted => /\ r.stamp \in Nat /\ r.text \in Nat
                 /\ r.stamp <= r.text /\ r.text <= log[source[s]]
    BY <1>1 DEF TextIsNotOlder
  <1> HIDE DEF given, marked, noted
  <1>7. /\ AfterStream(marked) \in Readers
        /\ AfterStream(marked).updates = given
        /\ AfterStream(marked).at \in {"stat", "show"}
    BY <1>4, <1>5, AfterStreamFacts
  <1>8. /\ reader' \in [Polls -> Readers] /\ reader'[p].updates = given
        /\ reader'[p].at \in {"stat", "show"}
        /\ \A q \in Polls : q # p => reader'[q] = reader[q]
    BY <1>1, <1>7 DEF LogViewTypes
  <1>9. /\ DOMAIN prints' = IF noted THEN DOMAIN prints \cup {s} ELSE DOMAIN prints \ {s}
        /\ noted => prints'[s] = r.stamp
        /\ \A x \in DOMAIN prints' : x # s => x \in DOMAIN prints /\ prints'[x] = prints[x]
    <2> DEFINE noticed == r.stamp
    <2>1. CASE noted
      <3>1. prints' = With(prints, s, noticed) BY <1>1, <2>1
      <3> HIDE DEF noticed, s
      <3>2. /\ DOMAIN With(prints, s, noticed) = DOMAIN prints \cup {s} /\ With(prints, s, noticed)[s] = noticed
            /\ \A x \in DOMAIN prints : x # s => With(prints, s, noticed)[x] = prints[x]
        BY DEF With
      <3>3. QED BY <2>1, <3>1, <3>2 DEF noticed, s
    <2>2. CASE ~noted
      <3>1. prints' = Without(prints, s) BY <1>1, <2>2
      <3> HIDE DEF s
      <3>2. QED BY <2>2, <3>1 DEF Without
    <2>3. QED BY <2>1, <2>2
  <1>10. LogViewTypes'
    BY <1>1, <1>2, <1>3, <1>8, <1>9 DEF LogViewTypes
  <1>11. NothingIsLeft' BY <1>1, <1>2, <1>8 DEF NothingIsLeft
  <1>12. OneReads' BY <1>1, <1>8 DEF OneReads
  <1>13. TextIsNotOlder' BY <1>1, <1>8 DEF TextIsNotOlder
  <1>14. SeenIsRead'
    <2> SUFFICES ASSUME ~overlapped, NEW x \in DOMAIN prints'
                 PROVE  /\ \A q \in Polls : x \in DOMAIN reader'[q].updates => Between(x, reader[q].updates[x])'
                        /\ (\A q \in Polls : x \notin DOMAIN reader'[q].updates) => Between(x, pane[x])'
      BY <1>1 DEF SeenIsRead
    <2>1. \A q \in Polls : q # p => reader[q].at = "away" /\ reader[q].updates = Empty
      BY <1>1 DEF OneReads, NothingIsLeft
    <2>2. \A q \in Polls : q # p => DOMAIN reader'[q].updates = {}
      BY <1>8, <2>1, EmptyFacts
    <2>3. CASE x = s
      <3>1. noted /\ prints'[s] = r.stamp BY <1>9, <2>3
      <3>2. x \in DOMAIN reader'[p].updates /\ reader'[p].updates[x] = r.text BY <1>4, <1>8, <2>3
      <3>3. Between(x, reader[p].updates[x])' BY <1>1, <1>6, <2>3, <3>1, <3>2 DEF Between
      <3>4. QED BY <2>2, <3>2, <3>3
    <2>4. CASE x # s
      <3>1. x \in DOMAIN prints /\ prints'[x] = prints[x] BY <1>9, <2>4
      <3>2. /\ x \in DOMAIN reader'[p].updates <=> x \in DOMAIN r.updates
            /\ x \in DOMAIN r.updates => reader'[p].updates[x] = r.updates[x]
        BY <1>4, <1>8, <2>4
      <3>3. CASE x \in DOMAIN r.updates
        <4>1. Between(x, r.updates[x]) BY <3>1, <3>3 DEF SeenIsRead
        <4>2. Between(x, reader[p].updates[x])' BY <1>1, <3>1, <3>2, <3>3, <4>1 DEF Between
        <4>3. QED BY <2>2, <3>2, <3>3, <4>2
      <3>4. CASE x \notin DOMAIN r.updates
        <4>1. \A q \in Polls : x \notin DOMAIN reader[q].updates BY <2>1, <3>4, EmptyFacts
        <4>2. Between(x, pane[x]) BY <3>1, <4>1 DEF SeenIsRead
        <4>3. Between(x, pane[x])' BY <1>1, <3>1, <4>2 DEF Between
        <4>4. QED BY <2>2, <3>2, <3>4, <4>3
      <3>5. QED BY <3>3, <3>4
    <2>5. QED BY <2>3, <2>4
  <1>15. QED BY <1>10, <1>11, <1>12, <1>13, <1>14

\* The texts are handed over to the panes.
LEMMA ShowKeeps == ASSUME LogViewInv, NEW p \in Polls, ShowLogs(p) PROVE LogViewInv'
  <1> DEFINE given == reader[p].updates
  <1> USE DEF LogViewInv
  <1>1. /\ reader[p].at = "show" /\ UNCHANGED <<log, open, source, prints, overlapped>>
        /\ pane' = [s \in Streams |-> IF s \in DOMAIN given THEN given[s] ELSE pane[s]]
        /\ reader' = [reader EXCEPT ![p] = Away]
    BY DEF ShowLogs
  <1>2. given \in Partial /\ reader[p] \in Readers BY DEF LogViewTypes, Readers
  <1>3. \A s \in DOMAIN given : given[s] \in Shown BY <1>2 DEF Partial
  <1>4. /\ reader' \in [Polls -> Readers] /\ reader'[p] = Away
        /\ \A q \in Polls : q # p => reader'[q] = reader[q]
    BY <1>1, EmptyFacts DEF LogViewTypes
  <1>5. pane' \in [Streams -> Shown] BY <1>1, <1>3 DEF LogViewTypes
  <1> HIDE DEF given
  <1>6. LogViewTypes' BY <1>1, <1>4, <1>5 DEF LogViewTypes
  <1>7. NothingIsLeft' /\ OneReads' /\ TextIsNotOlder'
    BY <1>1, <1>4, EmptyFacts DEF NothingIsLeft, OneReads, TextIsNotOlder
  <1>8. SeenIsRead'
    <2> SUFFICES ASSUME ~overlapped, NEW s \in DOMAIN prints
                 PROVE  /\ \A q \in Polls : s \in DOMAIN reader'[q].updates => Between(s, reader[q].updates[s])'
                        /\ Between(s, pane[s])'
      BY <1>1 DEF SeenIsRead
    <2>1. \A q \in Polls : q # p => DOMAIN reader[q].updates = {}
      BY <1>1, EmptyFacts DEF OneReads, NothingIsLeft
    <2>2. \A q \in Polls : DOMAIN reader'[q].updates = {} BY <1>4, <2>1, EmptyFacts
    <2>3. s \in Streams BY DEF LogViewTypes
    <2>4. Between(s, IF s \in DOMAIN given THEN given[s] ELSE pane[s])
      BY <2>1 DEF SeenIsRead, given
    <2>5. QED BY <1>1, <2>2, <2>3, <2>4 DEF Between
  <1>9. QED BY <1>6, <1>7, <1>8

LEMMA NextLogView == LogViewInv /\ [LogViewNext]_logViewVars => LogViewInv'
  <1>1. LogViewInv /\ UNCHANGED logViewVars => LogViewInv'
    BY DEF logViewVars, screenVars, LogViewInv, LogViewTypes, NothingIsLeft, OneReads, TextIsNotOlder,
           SeenIsRead, Between
  <1>2. LogViewInv /\ LogViewNext => LogViewInv'
    BY WritesKeep, OpenKeeps, CloseKeeps, StartKeeps, StatKeeps, ReadKeeps, MarkKeeps, ShowKeeps, Zenon
    DEF LogViewNext
  <1>3. QED BY <1>1, <1>2

\* A pane never sticks to an older text than the file that counts as seen, though the job
\* writes between the stat and the read and reads fail (screens.py:136, 150).
THEOREM PanesAreCurrent == LogViewSpec => []PanesCatchUp
  <1>1. LogViewInv => PanesCatchUp
    <2> SUFFICES ASSUME LogViewInv, \A p \in Polls : reader[p].at = "away", ~overlapped,
                        NEW s \in DOMAIN prints, prints[s] = log[source[s]]
                 PROVE  pane[s] = prints[s]
      BY DEF PanesCatchUp
    <2>1. \A p \in Polls : s \notin DOMAIN reader[p].updates BY EmptyFacts DEF LogViewInv, NothingIsLeft
    <2>2. Between(s, pane[s]) BY <2>1 DEF LogViewInv, SeenIsRead
    <2>3. QED BY <2>2 DEF Between
  <1>2. QED BY <1>1, InitLogView, NextLogView, PTL DEF LogViewSpec

-----------------------------------------------------------------------------
(* The cards of a node.                                                    *)

LEMMA SetFacts ==
  ASSUME NEW S \in SUBSET Boards
  PROVE  IsFiniteSet(S) /\ Cardinality(S) \in Nat /\ \A b \in S : b \in Nat
  <1>1. NBoards \in Nat BY AgentTimesAssumption
  <1>2. IsFiniteSet(Boards) BY <1>1, FS_Interval DEF Boards
  <1>3. IsFiniteSet(S) BY <1>2, FS_Subset
  <1>4. QED BY <1>1, <1>3, FS_CardinalityType DEF Boards

\* A board's rank grows with the board, and is below the number of boards.
LEMMA RanksGrow ==
  ASSUME NEW S \in SUBSET Boards, NEW b \in S
  PROVE  /\ Cardinality({x \in S : x < b}) \in Indices(S)
         /\ \A c \in S : b < c => Cardinality({x \in S : x < b}) < Cardinality({x \in S : x < c})
  <1> DEFINE Below(c) == {x \in S : x < c}
  <1>1. IsFiniteSet(S) /\ Cardinality(S) \in Nat /\ \A c \in S : c \in Nat BY SetFacts
  <1>2. \A c \in S : IsFiniteSet(Below(c)) /\ Cardinality(Below(c)) \in Nat /\ Below(c) \subseteq S
    <2> SUFFICES ASSUME NEW c \in S
                 PROVE  IsFiniteSet(Below(c)) /\ Cardinality(Below(c)) \in Nat /\ Below(c) \subseteq S
      OBVIOUS
    <2>1. Below(c) \in SUBSET S OBVIOUS
    <2> HIDE DEF Below
    <2>2. IsFiniteSet(Below(c)) BY <1>1, <2>1, FS_Subset
    <2>3. QED BY <2>1, <2>2, FS_CardinalityType
  <1>3. Cardinality(Below(b)) < Cardinality(S)
    <2>1. Below(b) \in SUBSET S /\ b \notin Below(b) BY <1>1
    <2> HIDE DEF Below
    <2>2. Cardinality(Below(b)) <= Cardinality(S) /\ Cardinality(Below(b)) # Cardinality(S)
      BY <1>1, <2>1, FS_Subset
    <2>3. QED BY <1>1, <1>2, <2>2
  <1>4. ASSUME NEW c \in S, b < c PROVE Cardinality(Below(b)) < Cardinality(Below(c))
    <2>1. Below(b) \in SUBSET Below(c) /\ b \notin Below(b) /\ b \in Below(c) BY <1>1, <1>4
    <2> HIDE DEF Below
    <2>2. /\ Cardinality(Below(b)) <= Cardinality(Below(c))
          /\ Cardinality(Below(b)) # Cardinality(Below(c))
      BY <1>2, <2>1, FS_Subset
    <2>3. QED BY <1>2, <2>2
  <1>5. Cardinality(Below(b)) \in Indices(S) BY <1>1, <1>2, <1>3 DEF Indices
  <1>6. QED BY <1>4, <1>5

\* There is a visible board for every index.
LEMMA AtIsThere ==
  ASSUME NEW S \in SUBSET Boards, NEW i \in Indices(S)
  PROVE  At(S, i) \in S
  <1> DEFINE Rank == [b \in S |-> Cardinality({x \in S : x < b})]
             Others == Indices(S) \ {i}
  <1>1. IsFiniteSet(S) /\ Cardinality(S) \in Nat /\ \A c \in S : c \in Nat BY SetFacts
  <1>2. IsFiniteSet(Indices(S)) /\ Cardinality(Indices(S)) = Cardinality(S)
    <2>1. 0 \in Int /\ Cardinality(S) - 1 \in Int BY <1>1
    <2>2. /\ IsFiniteSet(0..(Cardinality(S) - 1))
          /\ Cardinality(0..(Cardinality(S) - 1))
             = IF 0 > Cardinality(S) - 1 THEN 0 ELSE Cardinality(S) - 1 - 0 + 1
      BY <2>1, FS_Interval
    <2>3. QED BY <1>1, <2>2 DEF Indices
  <1>3. IsFiniteSet(Others) /\ Cardinality(Others) < Cardinality(S)
    <2>1. IsFiniteSet(Others) /\ Cardinality(Others) = Cardinality(Indices(S)) - 1 BY <1>2, FS_RemoveElement
    <2> HIDE DEF Others
    <2>2. QED BY <1>1, <1>2, <2>1
  <1>4. \E b \in S : Rank[b] = i
    <2> SUFFICES ASSUME \A b \in S : Rank[b] # i PROVE FALSE OBVIOUS
    <2>1. Rank \in [S -> Others] BY RanksGrow
    <2>2. \A b, c \in S : b < c => Rank[b] < Rank[c] BY RanksGrow
    <2>3. \A b \in S : Rank[b] \in Nat BY <2>1 DEF Indices
    <2> HIDE DEF Rank, Others
    <2>4. PICK b \in S, c \in S : b # c /\ Rank[b] = Rank[c] BY <1>1, <1>3, <2>1, FS_PigeonHole
    <2>5. b < c \/ c < b BY <1>1, <2>4
    <2>6. QED BY <2>2, <2>3, <2>4, <2>5
  <1>5. QED BY <1>4 DEF At

CardTypes ==
  /\ visible \in SUBSET Boards
  /\ doing \in {"sleep", "probe", "health", "write"}
  /\ took \in 0..MaxTook /\ steady \in Nat
  /\ topologyLeft \in 0..TopologyTtl /\ healthLeft \in Nat
  /\ dynamic \in BOOLEAN

\* Rows are there after the probe only, a cached topology is used up to it only, and what
\* is known of the cards' health is asked again in time.
WorkIsInOrder ==
  /\ rows # NoRows => doing \in {"health", "write"}
  /\ dynamic => doing = "probe"
  /\ health # NoRows => healthLeft <= HealthTtl

\* The rows are those of the boards, if there was no reset since the collection began.
RowsAreBoards == steady > took => \A i \in DOMAIN rows : rows[i].board = At(visible, i)

\* The cached minors are those of the devices, if they were taken, or taken from the cache,
\* after the last reset.
MinorsAreKnown ==
  \/ topologyLeft > 0 /\ steady + topologyLeft > TopologyTtl
  \/ dynamic /\ steady > TopologyTtl + took
MinorsAreDevices ==
  MinorsAreKnown => \A i \in DOMAIN topology : topology[i].minor = numbers[topology[i].board]

\* So is the cards' health.
HealthIsKnown ==
  \/ healthLeft > 0 /\ steady + healthLeft > HealthTtl
  \/ doing = "write" /\ steady > HealthTtl + took
HealthIsOfBoards == HealthIsKnown => \A i \in DOMAIN health : health[i] = At(visible, i)

AgentInv == CardTypes /\ WorkIsInOrder /\ RowsAreBoards /\ MinorsAreDevices /\ HealthIsOfBoards

LEMMA TimeFacts ==
  /\ NBoards \in Nat /\ TopologyTtl \in Nat /\ HealthTtl \in Nat /\ HealthRetry \in Nat /\ MaxTook \in Nat
  BY AgentTimesAssumption

LEMMA InitAgent == AgentInit => AgentInv
  <1> SUFFICES ASSUME AgentInit PROVE AgentInv OBVIOUS
  <1> USE TimeFacts DEF AgentInit
  <1>1. CardTypes
    <2>1. visible \in SUBSET Boards OBVIOUS
    <2>2. doing = "sleep" /\ dynamic \in BOOLEAN OBVIOUS
    <2>3. took = 0 /\ steady = 0 /\ topologyLeft = 0 /\ healthLeft = 0 OBVIOUS
    <2>4. took \in 0..MaxTook /\ topologyLeft \in 0..TopologyTtl BY <2>3
    <2>5. QED BY <2>1, <2>2, <2>3, <2>4 DEF CardTypes
  <1>2. WorkIsInOrder BY DEF WorkIsInOrder
  <1>3. RowsAreBoards /\ MinorsAreDevices /\ HealthIsOfBoards
    BY DEF RowsAreBoards, MinorsAreDevices, HealthIsOfBoards, NoRows
  <1>4. QED BY <1>1, <1>2, <1>3 DEF AgentInv

\* A reset makes everything unknown; a number that /proc learns changes nothing.
LEMMA NodeKeeps ==
  ASSUME AgentInv,
         \/ \E boards \in SUBSET Boards, minors \in Numberings : Reset(boards, minors)
         \/ Settles
  PROVE  AgentInv'
  <1> USE TimeFacts DEF AgentInv
  <1>1. UNCHANGED <<doing, took, dynamic, rows, topology, topologyLeft, health, healthLeft>>
    BY DEF Reset, Settles, caches
  <1>2. WorkIsInOrder' BY <1>1 DEF WorkIsInOrder
  <1>3. CASE Settles
    <2>1. UNCHANGED <<visible, numbers, steady>> BY <1>3 DEF Settles
    <2>2. CardTypes' BY <1>1, <2>1 DEF CardTypes
    <2>3. RowsAreBoards' /\ MinorsAreDevices' /\ HealthIsOfBoards'
      BY <1>1, <2>1 DEF RowsAreBoards, MinorsAreDevices, MinorsAreKnown, HealthIsOfBoards, HealthIsKnown
    <2>4. QED BY <1>2, <2>2, <2>3
  <1>4. CASE \E boards \in SUBSET Boards, minors \in Numberings : Reset(boards, minors)
    <2>1. visible' \in SUBSET Boards /\ steady' = 0 BY <1>4 DEF Reset
    <2>2. CardTypes' BY <1>1, <2>1 DEF CardTypes
    <2>3. RowsAreBoards' BY <1>1, <2>1 DEF RowsAreBoards, CardTypes
    <2>4. MinorsAreDevices' BY <1>1, <2>1 DEF MinorsAreDevices, MinorsAreKnown, CardTypes
    <2>5. HealthIsOfBoards'
      <3>1. CASE health = NoRows BY <1>1, <3>1 DEF HealthIsOfBoards, NoRows
      <3>2. CASE health # NoRows
        BY <1>1, <2>1, <3>2 DEF HealthIsOfBoards, HealthIsKnown, WorkIsInOrder, CardTypes
      <3>3. QED BY <3>1, <3>2
    <2>6. QED BY <1>2, <2>2, <2>3, <2>4, <2>5
  <1>5. QED BY <1>3, <1>4

\* A tick makes a cache as much older as the reset.
LEMMA AgentTickKeeps == ASSUME AgentInv, AgentTick PROVE AgentInv'
  <1> USE TimeFacts DEF AgentInv
  <1>1. /\ UNCHANGED <<visible, numbers, doing, dynamic, rows, topology, health>>
        /\ doing # "sleep" => took' = took + 1 /\ took < MaxTook
        /\ doing = "sleep" => took' = 0
        /\ topologyLeft' = (IF topologyLeft = 0 THEN 0 ELSE topologyLeft - 1)
        /\ healthLeft' = (IF healthLeft = 0 THEN 0 ELSE healthLeft - 1)
        /\ steady' = steady \/ steady' = steady + 1
    BY DEF AgentTick, cards, Less, More
  <1>2. CardTypes' BY <1>1 DEF CardTypes
  <1>3. WorkIsInOrder' BY <1>1 DEF WorkIsInOrder, CardTypes
  <1>4. RowsAreBoards'
    <2>1. CASE doing = "sleep" BY <1>1, <2>1 DEF RowsAreBoards, WorkIsInOrder, NoRows
    <2>2. CASE doing # "sleep" BY <1>1, <2>2 DEF RowsAreBoards, CardTypes
    <2>3. QED BY <2>1, <2>2
  <1>0. took \in Nat /\ steady \in Nat /\ topologyLeft \in Nat /\ healthLeft \in Nat BY DEF CardTypes
  <1>5. ASSUME MinorsAreKnown' PROVE MinorsAreKnown
    <2>1. CASE topologyLeft' > 0 /\ steady' + topologyLeft' > TopologyTtl
      <3>1. topologyLeft > 0 /\ steady + topologyLeft > TopologyTtl BY <1>0, <1>1, <2>1
      <3>2. QED BY <3>1 DEF MinorsAreKnown
    <2>2. CASE dynamic' /\ steady' > TopologyTtl + took'
      <3>1. doing = "probe" /\ dynamic BY <1>1, <2>2 DEF WorkIsInOrder
      <3>2. took' = took + 1 BY <1>1, <3>1
      <3>3. steady > TopologyTtl + took BY <1>0, <1>1, <2>2, <3>2
      <3>4. QED BY <3>1, <3>3 DEF MinorsAreKnown
    <2>3. QED BY <1>5, <2>1, <2>2 DEF MinorsAreKnown
  <1>6. MinorsAreDevices' BY <1>1, <1>5 DEF MinorsAreDevices
  <1>7. ASSUME HealthIsKnown' PROVE HealthIsKnown
    <2>1. CASE healthLeft' > 0 /\ steady' + healthLeft' > HealthTtl
      <3>1. healthLeft > 0 /\ steady + healthLeft > HealthTtl BY <1>0, <1>1, <2>1
      <3>2. QED BY <3>1 DEF HealthIsKnown
    <2>2. CASE doing' = "write" /\ steady' > HealthTtl + took'
      <3>1. doing = "write" /\ took' = took + 1 BY <1>1, <2>2
      <3>2. steady > HealthTtl + took BY <1>0, <1>1, <2>2, <3>1
      <3>3. QED BY <3>1, <3>2 DEF HealthIsKnown
    <2>3. QED BY <1>7, <2>1, <2>2 DEF HealthIsKnown
  <1>8. HealthIsOfBoards' BY <1>1, <1>7 DEF HealthIsOfBoards
  <1>9. QED BY <1>2, <1>3, <1>4, <1>6, <1>8

LEMMA BeginKeeps == ASSUME AgentInv, Begin PROVE AgentInv'
  <1> USE TimeFacts DEF AgentInv
  <1>1. /\ doing = "sleep" /\ doing' = "probe" /\ took' = 0
        /\ dynamic' = (topology # NoRows /\ topologyLeft > 0)
        /\ UNCHANGED <<visible, numbers, rows, topology, topologyLeft, health, healthLeft, steady>>
    BY DEF Begin, cards, caches
  <1>2. rows = NoRows BY <1>1 DEF WorkIsInOrder
  <1>3. CardTypes' BY <1>1 DEF CardTypes
  <1>4. WorkIsInOrder' BY <1>1, <1>2 DEF WorkIsInOrder
  <1>5. RowsAreBoards' BY <1>1, <1>2 DEF RowsAreBoards, NoRows
  <1>6. ASSUME MinorsAreKnown' PROVE MinorsAreKnown
    <2>0. steady \in Nat /\ topologyLeft \in Nat BY DEF CardTypes
    <2>1. CASE topologyLeft' > 0 /\ steady' + topologyLeft' > TopologyTtl
      BY <1>1, <2>1 DEF MinorsAreKnown
    <2>2. CASE dynamic' /\ steady' > TopologyTtl + took'
      <3>1. topologyLeft > 0 BY <1>1, <2>2
      <3>2. steady > TopologyTtl BY <1>1, <2>2
      <3>3. steady + topologyLeft > TopologyTtl BY <2>0, <3>1, <3>2
      <3>4. QED BY <3>1, <3>3 DEF MinorsAreKnown
    <2>3. QED BY <1>6, <2>1, <2>2 DEF MinorsAreKnown
  <1>7. MinorsAreDevices' BY <1>1, <1>6 DEF MinorsAreDevices
  <1>8. HealthIsOfBoards' BY <1>1 DEF HealthIsOfBoards, HealthIsKnown
  <1>9. QED BY <1>3, <1>4, <1>5, <1>7, <1>8

LEMMA ProbedFacts ==
  ASSUME NEW full \in BOOLEAN
  PROVE  /\ DOMAIN Probed(full) = Indices(visible)
         /\ \A i \in Indices(visible) :
              /\ Probed(full)[i].board = At(visible, i)
              /\ Probed(full)[i].minor # Unnumbered => Probed(full)[i].minor = numbers[At(visible, i)]
         /\ DOMAIN GpuSet(Probed(full)) = Indices(visible)
         /\ \A i \in Indices(visible) : GpuSet(Probed(full))[i] = At(visible, i)
  BY DEF Probed, GpuSet

\* Once the driver tells every minor, a full probe has them all.
LEMMA FullProbe ==
  ASSUME visible \in SUBSET Boards, known = visible
  PROVE  Probed(TRUE) = [i \in Indices(visible) |-> [board |-> At(visible, i), minor |-> numbers[At(visible, i)]]]
  <1>1. \A i \in Indices(visible) : At(visible, i) \in known BY AtIsThere
  <1>2. QED BY <1>1 DEF Probed

\* What a probe of the cached topology has, where the boards are the cached ones.
CachedRows ==
  [i \in DOMAIN Probed(FALSE) |-> [Probed(FALSE)[i] EXCEPT !.minor = topology[i].minor]]

LEMMA CachedRowFacts ==
  ASSUME GpuSet(Probed(FALSE)) = GpuSet(topology)
  PROVE  /\ CachedRows = [i \in Indices(visible) |-> [board |-> At(visible, i), minor |-> topology[i].minor]]
         /\ DOMAIN topology = Indices(visible)
         /\ \A i \in Indices(visible) : topology[i].board = At(visible, i)
  <1> DEFINE r == Probed(FALSE)
  <1>1. r = [i \in Indices(visible) |-> [board |-> At(visible, i), minor |-> Unnumbered]]
    BY DEF Probed
  <1>2. /\ GpuSet(r) = GpuSet(topology)
        /\ CachedRows = [i \in DOMAIN r |-> [r[i] EXCEPT !.minor = topology[i].minor]]
    BY DEF CachedRows
  <1> HIDE DEF r
  <1>3. GpuSet(r) = [i \in Indices(visible) |-> At(visible, i)] BY <1>1 DEF GpuSet
  <1>4. DOMAIN GpuSet(topology) = DOMAIN topology
        /\ \A i \in DOMAIN topology : GpuSet(topology)[i] = topology[i].board
    BY DEF GpuSet
  <1>5. DOMAIN topology = Indices(visible) /\ \A i \in Indices(visible) : topology[i].board = At(visible, i)
    BY <1>2, <1>3, <1>4
  <1>6. CachedRows = [i \in Indices(visible) |-> [board |-> At(visible, i), minor |-> topology[i].minor]]
    BY <1>1, <1>2
  <1>7. QED BY <1>5, <1>6

LEMMA ProbeKeeps == ASSUME AgentInv, Probe PROVE AgentInv'
  <1> USE TimeFacts DEF AgentInv
  <1>1. doing = "probe" /\ UNCHANGED <<visible, numbers, took, health, healthLeft, steady>>
    BY DEF Probe, cards
  <1>2. HealthIsKnown' => HealthIsKnown /\ doing' # "write"
    BY <1>1 DEF HealthIsKnown, Probe
  <1>3. HealthIsOfBoards' BY <1>1, <1>2 DEF HealthIsOfBoards
  <1>4. CASE ~dynamic
    <2>1. /\ rows' = Probed(TRUE) /\ Remember(Probed(TRUE)) /\ doing' = "health" /\ dynamic' = dynamic
      BY <1>4 DEF Probe
    <2>2. topologyLeft' \in 0..TopologyTtl
      <3>1. took \in Nat BY DEF CardTypes
      <3>2. topologyLeft' = 0 \/ (TopologyTtl > took /\ topologyLeft' = TopologyTtl - took)
        BY <2>1 DEF Remember
      <3>3. CASE topologyLeft' = 0 BY <3>3
      <3>4. CASE TopologyTtl > took /\ topologyLeft' = TopologyTtl - took BY <3>1, <3>4
      <3>5. QED BY <3>2, <3>3, <3>4
    <2>3. CardTypes' BY <1>1, <2>1, <2>2 DEF CardTypes
    <2>4. WorkIsInOrder' BY <1>1, <1>4, <2>1 DEF WorkIsInOrder
    <2>5. RowsAreBoards' BY <1>1, <2>1, ProbedFacts DEF RowsAreBoards
    <2>6. \A i \in DOMAIN topology' : topology'[i].minor = numbers[topology'[i].board]
      <3>1. CASE Complete(Probed(TRUE))
        <4>1. topology' = Probed(TRUE) BY <2>1, <3>1 DEF Remember
        <4>2. \A i \in DOMAIN Probed(TRUE) : Probed(TRUE)[i].minor # Unnumbered BY <3>1 DEF Complete
        <4>3. QED BY <4>1, <4>2, ProbedFacts
      <3>2. CASE ~Complete(Probed(TRUE)) BY <2>1, <3>2 DEF Remember, NoRows
      <3>3. QED BY <3>1, <3>2
    <2>7. MinorsAreDevices' BY <1>1, <2>6 DEF MinorsAreDevices
    <2>8. QED BY <1>3, <2>3, <2>4, <2>5, <2>7
  <1>5. CASE dynamic /\ GpuSet(Probed(FALSE)) # GpuSet(topology)
    <2>1. dynamic' = FALSE /\ UNCHANGED <<rows, topology, topologyLeft, doing>> BY <1>5 DEF Probe
    <2>2. CardTypes' /\ WorkIsInOrder' /\ RowsAreBoards' /\ MinorsAreDevices'
      BY <1>1, <2>1
      DEF CardTypes, WorkIsInOrder, RowsAreBoards, MinorsAreDevices, MinorsAreKnown
    <2>3. QED BY <1>3, <2>2
  <1>6. CASE dynamic /\ GpuSet(Probed(FALSE)) = GpuSet(topology)
    <2>1. /\ rows' = CachedRows /\ dynamic' = FALSE /\ doing' = "health"
          /\ UNCHANGED <<topology, topologyLeft>>
      BY <1>6 DEF Probe, CachedRows
    <2>2. CardTypes' /\ WorkIsInOrder' /\ MinorsAreDevices'
      BY <1>1, <2>1 DEF CardTypes, WorkIsInOrder, MinorsAreDevices, MinorsAreKnown
    <2>3. RowsAreBoards' BY <1>1, <1>6, <2>1, CachedRowFacts DEF RowsAreBoards
    <2>4. QED BY <1>3, <2>2, <2>3
  <1>7. QED BY <1>4, <1>5, <1>6

LEMMA ExamineKeeps == ASSUME AgentInv, NEW ok \in BOOLEAN, Examine(ok) PROVE AgentInv'
  <1> USE TimeFacts DEF AgentInv
  <1>1. /\ doing = "health" /\ doing' = "write"
        /\ UNCHANGED <<visible, numbers, took, dynamic, rows, topology, topologyLeft, steady>>
    BY DEF Examine, cards
  <1>2. RowsAreBoards' /\ MinorsAreDevices'
    BY <1>1 DEF RowsAreBoards, MinorsAreDevices, MinorsAreKnown
  <1>3. CASE healthLeft > 0
    <2>1. UNCHANGED <<health, healthLeft>> BY <1>3 DEF Examine
    <2>2. CardTypes' /\ WorkIsInOrder' BY <1>1, <2>1 DEF CardTypes, WorkIsInOrder
    <2>3. HealthIsKnown' => HealthIsKnown BY <1>1, <1>3, <2>1 DEF HealthIsKnown, CardTypes
    <2>4. HealthIsOfBoards' BY <1>1, <2>1, <2>3 DEF HealthIsOfBoards
    <2>5. QED BY <1>2, <2>2, <2>4
  <1>4. CASE ~(healthLeft > 0) /\ ok
    <2>1. health' = GpuSet(Probed(FALSE)) /\ healthLeft' = HealthTtl BY <1>4 DEF Examine
    <2>2. CardTypes' /\ WorkIsInOrder' BY <1>1, <2>1 DEF CardTypes, WorkIsInOrder
    <2>3. HealthIsOfBoards' BY <1>1, <2>1, ProbedFacts DEF HealthIsOfBoards
    <2>4. QED BY <1>2, <2>2, <2>3
  <1>5. CASE ~(healthLeft > 0) /\ ~ok
    <2>1. health' = NoRows /\ healthLeft' = HealthRetry BY <1>5 DEF Examine, Forgotten
    <2>2. CardTypes' /\ WorkIsInOrder' BY <1>1, <2>1 DEF CardTypes, WorkIsInOrder
    <2>3. HealthIsOfBoards' BY <2>1 DEF HealthIsOfBoards, NoRows
    <2>4. QED BY <1>2, <2>2, <2>3
  <1>6. QED BY <1>3, <1>4, <1>5

\* A collection is over, or the agent starts again.
LEMMA EndOfWorkKeeps ==
  ASSUME AgentInv, (\E ok \in BOOLEAN : Publish(ok)) \/ CollectFails \/ AgentRestart
  PROVE  AgentInv'
  <1> USE TimeFacts DEF AgentInv
  <1>1. /\ doing' = "sleep" /\ took' = 0 /\ rows' = NoRows /\ dynamic' = FALSE
        /\ UNCHANGED <<visible, numbers, steady>>
        /\ \/ UNCHANGED <<topology, topologyLeft, health, healthLeft>>
           \/ topology' = NoRows /\ topologyLeft' = 0 /\ health' = NoRows /\ healthLeft' = 0
    BY DEF Publish, CollectFails, AgentRestart, cards, caches, WorkIsInOrder, CardTypes
  <1>2. CardTypes'
    <2>0. took' = 0 /\ dynamic' = FALSE BY <1>1
    <2>1. took' \in 0..MaxTook /\ dynamic' \in BOOLEAN
      <3>1. took' \in 0..MaxTook BY <2>0
      <3>2. dynamic' \in BOOLEAN BY <2>0
      <3>3. QED BY <3>1, <3>2
    <2>2. topologyLeft' \in 0..TopologyTtl /\ healthLeft' \in Nat BY <1>1 DEF CardTypes
    <2>3. QED BY <1>1, <2>1, <2>2 DEF CardTypes
  <1>3. WorkIsInOrder' BY <1>1 DEF WorkIsInOrder
  <1>4. RowsAreBoards' BY <1>1 DEF RowsAreBoards, NoRows
  <1>5. MinorsAreDevices' BY <1>1 DEF MinorsAreDevices, MinorsAreKnown
  <1>6. HealthIsOfBoards' BY <1>1 DEF HealthIsOfBoards, HealthIsKnown
  <1>7. QED BY <1>2, <1>3, <1>4, <1>5, <1>6

LEMMA NextAgent == AgentInv /\ [AgentNext]_agentVars => AgentInv'
  <1> SUFFICES ASSUME AgentInv, [AgentNext]_agentVars PROVE AgentInv' OBVIOUS
  <1>1. CASE UNCHANGED agentVars
    BY <1>1
    DEF AgentInv, agentVars, cards, caches, CardTypes, WorkIsInOrder, RowsAreBoards,
        MinorsAreDevices, MinorsAreKnown, HealthIsOfBoards, HealthIsKnown
  <1>2. QED
    BY <1>1, NodeKeeps, AgentTickKeeps, BeginKeeps, ProbeKeeps, ExamineKeeps, EndOfWorkKeeps
    DEF AgentNext

\* What a step writes, where the invariant holds.
LEMMA PayloadStep ==
  ASSUME AgentInv
  PROVE  /\ Probe /\ rows' # rows /\ steady > TopologyTtl + MaxTook /\ known = visible =>
              rows' = [i \in Indices(visible) |-> [board |-> At(visible, i), minor |-> numbers[At(visible, i)]]]
         /\ Publish(TRUE) /\ steady > HealthTtl + MaxTook =>
              \A i \in DOMAIN Payload : Payload[i].health \in {Unread, Payload[i].board}
  <1> USE TimeFacts DEF AgentInv
  <1>1. ASSUME Probe, rows' # rows, steady > TopologyTtl + MaxTook, known = visible
        PROVE  rows' = [i \in Indices(visible) |-> [board |-> At(visible, i), minor |-> numbers[At(visible, i)]]]
    <2>1. CASE ~dynamic
      <3>1. rows' = Probed(TRUE) BY <1>1, <2>1 DEF Probe
      <3>2. visible \in SUBSET Boards BY DEF CardTypes
      <3>3. QED BY <1>1, <3>1, <3>2, FullProbe
    <2>2. CASE dynamic
      <3>1. GpuSet(Probed(FALSE)) = GpuSet(topology) /\ rows' = CachedRows
        BY <1>1, <2>2 DEF Probe, CachedRows
      <3>2. MinorsAreKnown BY <1>1, <2>2 DEF MinorsAreKnown, CardTypes
      <3>3. \A i \in Indices(visible) : topology[i].minor = numbers[At(visible, i)]
        BY <3>1, <3>2, CachedRowFacts DEF MinorsAreDevices
      <3>4. QED BY <3>1, <3>3, CachedRowFacts
    <2>3. QED BY <2>1, <2>2 DEF CardTypes
  <1>2. ASSUME Publish(TRUE), steady > HealthTtl + MaxTook, NEW i \in DOMAIN Payload
        PROVE  Payload[i].health \in {Unread, Payload[i].board}
    <2>1. /\ i \in DOMAIN rows /\ Payload[i].board = rows[i].board /\ Payload[i].health = HealthAt(i)
      BY <1>2 DEF Payload
    <2>2. doing = "write" /\ steady > took /\ HealthIsKnown
      BY <1>2 DEF Publish, HealthIsKnown, CardTypes
    <2>3. rows[i].board = At(visible, i) BY <2>1, <2>2 DEF RowsAreBoards
    <2>4. i \in DOMAIN health => health[i] = At(visible, i) BY <2>2 DEF HealthIsOfBoards
    <2>5. QED BY <2>1, <2>3, <2>4 DEF HealthAt
  <1>3. QED BY <1>1, <1>2

\* Whatever resets, failures and restarts there are, the rows of a probe carry the numbers
\* of their own devices, and what is published of a card's health is that card's, once the
\* last reset is longer ago than the life of a cache and a collection (agent.py:185-278).
THEOREM PayloadOfTheCards == AgentSpec => PayloadIsTheCards
  <1>1. AgentInv /\ [AgentNext]_agentVars =>
          [/\ Probe /\ rows' # rows /\ steady > TopologyTtl + MaxTook /\ known = visible =>
                rows' = [i \in Indices(visible) |-> [board |-> At(visible, i), minor |-> numbers[At(visible, i)]]]
           /\ Publish(TRUE) /\ steady > HealthTtl + MaxTook =>
                \A i \in DOMAIN Payload : Payload[i].health \in {Unread, Payload[i].board}]_agentVars
    BY PayloadStep
  <1>2. QED BY <1>1, InitAgent, NextAgent, PTL DEF AgentSpec, PayloadIsTheCards

-----------------------------------------------------------------------------
(* Usage accounting.                                                       *)

Ages == Nat \cup {Never}

LedgerTypes ==
  /\ {time, account, kept, awake} \subseteq Nat
  /\ since \in Ages /\ checked \in Ages

\* The time that was awake ends where the interval since the last sample begins.
TimeIsCovered ==
  /\ kept <= awake /\ account <= awake /\ awake <= time
  /\ since # Never => awake + since <= time

\* What is not written yet.
CleanIsKept == ~dirty => kept = account

\* What is not written was sampled since the last write, but for the interval between two
\* samples that the write fell into; before the first write it is one interval at most,
\* unless a save was missed.
UnwrittenIsRecent ==
  /\ since = Never => account = kept
  /\ since # Never /\ checked # Never =>
       account = kept \/ account + since <= kept + checked + MaxGap
  /\ ~missed /\ checked = Never =>
       IF step = "sleep" THEN account = kept ELSE account <= kept + MaxGap

LedgerInv == LedgerTypes /\ TimeIsCovered /\ CleanIsKept /\ UnwrittenIsRecent /\ LossIsBounded

LEMMA InitLedger == LedgerInit => LedgerInv
  <1> SUFFICES ASSUME LedgerInit PROVE LedgerInv OBVIOUS
  <1>1. LedgerTypes BY SMT DEF LedgerInit, LedgerTypes, Ages
  <1>2. TimeIsCovered /\ CleanIsKept BY SMT DEF LedgerInit, TimeIsCovered, CleanIsKept
  <1>3. UnwrittenIsRecent BY SMT DEF LedgerInit, UnwrittenIsRecent
  <1>4. LossIsBounded BY LedgerTimesAssumption, SMT DEF LedgerInit, LossIsBounded
  <1>5. QED BY <1>1, <1>2, <1>3, <1>4 DEF LedgerInv

\* A write: the file gets what was sampled, or the write is not due, or it fails.
LEMMA WriteCases ==
  ASSUME LedgerInv, NEW urgent \in BOOLEAN, NEW ok \in BOOLEAN, Write(urgent, ok)
  PROVE  \/ /\ kept' = account /\ checked' = 0 /\ dirty' = FALSE
            /\ account' = account /\ since' = since /\ missed' = FALSE
         \/ /\ UNCHANGED <<account, since, checked, dirty, kept>>
            /\ missed' = TRUE
         \/ /\ UNCHANGED <<account, since, checked, dirty, kept>>
            /\ ~missed'
            /\ ~dirty \/ (~urgent /\ checked # Never /\ checked < SaveEvery)
  <1> USE LedgerTimesAssumption
  <1>1. CASE SaveDue(urgent) /\ ok BY <1>1 DEF Write
  <1>2. CASE SaveDue(urgent) /\ ~ok BY <1>2 DEF Write, books, usageFile
  <1>3. CASE ~SaveDue(urgent)
    <2>1. UNCHANGED <<account, since, checked, dirty, kept>> /\ ~missed'
      BY <1>3, Zenon DEF Write, books, usageFile
    <2>2. ~dirty \/ (~urgent /\ checked # Never /\ checked < SaveEvery)
      BY <1>3, SMT DEF SaveDue, AtLeast, LedgerInv, LedgerTypes, Ages
    <2>3. QED BY <2>1, <2>2, Zenon
  <1>4. QED BY <1>1, <1>2, <1>3

LEMMA WriteKeeps ==
  ASSUME LedgerInv, NEW urgent \in BOOLEAN, NEW ok \in BOOLEAN, Write(urgent, ok),
         UNCHANGED <<time, awake>>, step' \in {"sleep", "down"}
  PROVE  LedgerInv'
  <1> USE LedgerTimesAssumption
  <1>1. CASE /\ kept' = account /\ checked' = 0 /\ dirty' = FALSE
             /\ account' = account /\ since' = since /\ missed' = FALSE
    <2>1. LedgerTypes' /\ CleanIsKept'
      BY <1>1, SMT DEF LedgerInv, LedgerTypes, CleanIsKept, Ages
    <2>2. TimeIsCovered' BY <1>1, SMT DEF LedgerInv, LedgerTypes, TimeIsCovered
    <2>3. UnwrittenIsRecent' /\ LossIsBounded'
      BY <1>1, SMT DEF LedgerInv, LedgerTypes, UnwrittenIsRecent, LossIsBounded
    <2>4. QED BY <2>1, <2>2, <2>3 DEF LedgerInv
  <1>2. ASSUME UNCHANGED <<account, since, checked, dirty, kept>>
        PROVE  LedgerTypes' /\ CleanIsKept' /\ TimeIsCovered'
    BY <1>2, SMT DEF LedgerInv, LedgerTypes, CleanIsKept, TimeIsCovered
  <1>3. CASE UNCHANGED <<account, since, checked, dirty, kept>> /\ missed' = TRUE
    <2>1. UnwrittenIsRecent' /\ LossIsBounded'
      BY <1>3 DEF LedgerInv, UnwrittenIsRecent, LossIsBounded
    <2>2. QED BY <1>2, <1>3, <2>1 DEF LedgerInv
  <1>4. CASE /\ UNCHANGED <<account, since, checked, dirty, kept>>
             /\ ~missed'
             /\ ~dirty \/ (~urgent /\ checked # Never /\ checked < SaveEvery)
    <2>1. UnwrittenIsRecent'
      BY <1>4, SMT DEF LedgerInv, LedgerTypes, CleanIsKept, UnwrittenIsRecent
    <2>2. LossIsBounded'
      BY <1>4, SMT
      DEF LedgerInv, LedgerTypes, Ages, CleanIsKept, UnwrittenIsRecent, LossIsBounded
    <2>3. QED BY <1>2, <1>4, <2>1, <2>2 DEF LedgerInv
  <1>5. QED BY <1>1, <1>3, <1>4, WriteCases, Zenon

LEMMA NextLedger == LedgerInv /\ [LedgerNext]_ledgerVars => LedgerInv'
  <1> SUFFICES ASSUME LedgerInv, [LedgerNext]_ledgerVars PROVE LedgerInv' OBVIOUS
  <1>1. CASE LedgerTick
    <2>1. LedgerTypes' BY <1>1, LedgerTimesAssumption, SMT DEF LedgerTick, OlderBy, LedgerInv, LedgerTypes, Ages
    <2>2. TimeIsCovered'
      BY <1>1, LedgerTimesAssumption, SMT DEF LedgerTick, OlderBy, LedgerInv, LedgerTypes, Ages, TimeIsCovered
    <2>3. CleanIsKept' BY <1>1, SMT DEF LedgerTick, OlderBy, LedgerInv, CleanIsKept
    <2>4. UnwrittenIsRecent'
      BY <1>1, LedgerTimesAssumption, SMT
      DEF LedgerTick, OlderBy, LedgerInv, LedgerTypes, Ages, CleanIsKept, UnwrittenIsRecent
    <2>5. LossIsBounded'
      BY <1>1, LedgerTimesAssumption, SMT
      DEF LedgerTick, OlderBy, LedgerInv, LedgerTypes, Ages, LossIsBounded
    <2>6. QED BY <2>1, <2>2, <2>3, <2>4, <2>5 DEF LedgerInv
  <1>2. CASE Sample
    <2>1. LedgerTypes' BY <1>2, LedgerTimesAssumption, SMT DEF Sample, Credited, usageFile, LedgerInv, LedgerTypes, Ages
    <2>2. TimeIsCovered'
      BY <1>2, LedgerTimesAssumption, SMT DEF Sample, Credited, usageFile, LedgerInv, LedgerTypes, Ages, TimeIsCovered
    <2>3. CleanIsKept' BY <1>2, SMT DEF Sample, Credited, usageFile, LedgerInv, CleanIsKept
    <2>4. UnwrittenIsRecent'
      BY <1>2, LedgerTimesAssumption, SMT
      DEF Sample, Credited, usageFile, LedgerInv, LedgerTypes, Ages, CleanIsKept, UnwrittenIsRecent
    <2>5. LossIsBounded'
      BY <1>2, LedgerTimesAssumption, SMT
      DEF Sample, Credited, usageFile, LedgerInv, LedgerTypes, Ages, LossIsBounded
    <2>6. QED BY <2>1, <2>2, <2>3, <2>4, <2>5 DEF LedgerInv
  <1>3. ASSUME NEW started \in BOOLEAN, CycleFails \/ NotYetDue \/ Backfill(started)
        PROVE  LedgerInv'
    <2>1. /\ UNCHANGED <<time, account, kept, since, checked, dirty, awake>>
          /\ missed' = TRUE \/ (missed' = missed /\ step = "backfill" /\ step' = "save")
      BY <1>3 DEF CycleFails, NotYetDue, Backfill, books, usageFile
    <2>2. LedgerTypes' /\ CleanIsKept' /\ TimeIsCovered'
      BY <2>1, SMT DEF LedgerInv, LedgerTypes, CleanIsKept, TimeIsCovered
    <2>3. UnwrittenIsRecent' BY <2>1, SMT DEF LedgerInv, UnwrittenIsRecent
    <2>4. LossIsBounded' BY <2>1, SMT DEF LossIsBounded
    <2>5. QED BY <2>2, <2>3, <2>4 DEF LedgerInv
  <1>4. ASSUME NEW ok \in BOOLEAN, Checkpoint(ok) PROVE LedgerInv'
    BY <1>4, WriteKeeps DEF Checkpoint
  <1>5. ASSUME NEW ok \in BOOLEAN, NEW written \in BOOLEAN, SacctAnswers(ok, written)
        PROVE  LedgerInv'
    <2>1. LedgerTypes' BY <1>5, LedgerTimesAssumption, SMT DEF SacctAnswers, books, usageFile, LedgerInv, LedgerTypes, Ages
    <2>2. TimeIsCovered'
      BY <1>5, LedgerTimesAssumption, SMT DEF SacctAnswers, books, usageFile, LedgerInv, LedgerTypes, Ages, TimeIsCovered
    <2>3. CleanIsKept' BY <1>5, SMT DEF SacctAnswers, books, usageFile, LedgerInv, CleanIsKept
    <2>4. UnwrittenIsRecent'
      BY <1>5, LedgerTimesAssumption, SMT
      DEF SacctAnswers, books, usageFile, LedgerInv, LedgerTypes, Ages, CleanIsKept, UnwrittenIsRecent
    <2>5. LossIsBounded'
      BY <1>5, LedgerTimesAssumption, SMT
      DEF SacctAnswers, books, usageFile, LedgerInv, LedgerTypes, Ages, LossIsBounded
    <2>6. QED BY <2>1, <2>2, <2>3, <2>4, <2>5 DEF LedgerInv
  <1>6. ASSUME NEW ok \in BOOLEAN, Stop(ok) PROVE LedgerInv'
    BY <1>6, WriteKeeps DEF Stop, Gone
  <1>7. CASE Die
    <2>1. LedgerTypes' BY <1>7, LedgerTimesAssumption, SMT DEF Die, Gone, books, usageFile, LedgerInv, LedgerTypes, Ages
    <2>2. TimeIsCovered'
      BY <1>7, LedgerTimesAssumption, SMT DEF Die, Gone, books, usageFile, LedgerInv, LedgerTypes, Ages, TimeIsCovered
    <2>3. CleanIsKept' BY <1>7, SMT DEF Die, Gone, books, usageFile, LedgerInv, CleanIsKept
    <2>4. UnwrittenIsRecent'
      BY <1>7, LedgerTimesAssumption, SMT
      DEF Die, Gone, books, usageFile, LedgerInv, LedgerTypes, Ages, CleanIsKept, UnwrittenIsRecent
    <2>5. LossIsBounded'
      BY <1>7, LedgerTimesAssumption, SMT
      DEF Die, Gone, books, usageFile, LedgerInv, LedgerTypes, Ages, LossIsBounded
    <2>6. QED BY <2>1, <2>2, <2>3, <2>4, <2>5 DEF LedgerInv
  <1>8. CASE Load
    <2>1. LedgerTypes' BY <1>8, LedgerTimesAssumption, SMT DEF Load, usageFile, LedgerInv, LedgerTypes, Ages
    <2>2. TimeIsCovered'
      BY <1>8, LedgerTimesAssumption, SMT DEF Load, usageFile, LedgerInv, LedgerTypes, Ages, TimeIsCovered
    <2>3. CleanIsKept' BY <1>8, SMT DEF Load, usageFile, LedgerInv, CleanIsKept
    <2>4. UnwrittenIsRecent'
      BY <1>8, LedgerTimesAssumption, SMT
      DEF Load, usageFile, LedgerInv, LedgerTypes, Ages, CleanIsKept, UnwrittenIsRecent
    <2>5. LossIsBounded'
      BY <1>8, LedgerTimesAssumption, SMT
      DEF Load, usageFile, LedgerInv, LedgerTypes, Ages, LossIsBounded
    <2>6. QED BY <2>1, <2>2, <2>3, <2>4, <2>5 DEF LedgerInv
  <1>9. CASE UNCHANGED ledgerVars
    <2>1. LedgerTypes' BY <1>9, LedgerTimesAssumption, SMT DEF ledgerVars, books, usageFile, LedgerInv, LedgerTypes, Ages
    <2>2. TimeIsCovered'
      BY <1>9, LedgerTimesAssumption, SMT DEF ledgerVars, books, usageFile, LedgerInv, LedgerTypes, Ages, TimeIsCovered
    <2>3. CleanIsKept' BY <1>9, SMT DEF ledgerVars, books, usageFile, LedgerInv, CleanIsKept
    <2>4. UnwrittenIsRecent'
      BY <1>9, LedgerTimesAssumption, SMT
      DEF ledgerVars, books, usageFile, LedgerInv, LedgerTypes, Ages, CleanIsKept, UnwrittenIsRecent
    <2>5. LossIsBounded'
      BY <1>9, LedgerTimesAssumption, SMT
      DEF ledgerVars, books, usageFile, LedgerInv, LedgerTypes, Ages, LossIsBounded
    <2>6. QED BY <2>1, <2>2, <2>3, <2>4, <2>5 DEF LedgerInv
  <1>10. QED BY <1>1, <1>2, <1>3, <1>4, <1>5, <1>6, <1>7, <1>8, <1>9 DEF LedgerNext

THEOREM LedgerInvariance == LedgerSpec => []LedgerInv
  BY InitLedger, NextLedger, PTL DEF LedgerSpec

\* No second is credited twice or without two samples close around it, whatever
\* crashes, restarts and reloads come between (collector.py:863, 866); and a crash between
\* two checkpoints costs less than a checkpoint interval and one interval between samples,
\* if the last cycle got to its save and did not fail to write (collector.py:847, 2190).
THEOREM LittleIsLost == LedgerSpec => []UsageIsBounded
  <1>1. LedgerInv => NoTimeIsInvented
    BY DEF LedgerInv, TimeIsCovered, NoTimeIsInvented
  <1>2. LedgerInv => LossIsBounded BY DEF LedgerInv
  <1>3. LedgerInv => UsageIsBounded BY <1>1, <1>2 DEF UsageIsBounded
  <1>4. QED BY <1>3, LedgerInvariance, PTL

\* A stop whose write does not fail leaves everything in the file, also when the
\* worker saved last (collector.py:2199).
THEOREM StopLosesNothing == LedgerSpec => StopKeepsAll
  <1>1. LedgerInv /\ [LedgerNext]_ledgerVars =>
          [(\E ok \in BOOLEAN : Stop(ok)) /\ ~missed' => kept' = account]_ledgerVars
    <2> SUFFICES ASSUME LedgerInv, NEW ok \in BOOLEAN, Stop(ok), ~missed'
                 PROVE  kept' = account
      OBVIOUS
    <2>1. Write(TRUE, ok) BY DEF Stop
    <2>2. \/ kept' = account
          \/ kept' = kept /\ ~dirty
      BY <2>1, WriteCases
    <2>3. QED BY <2>2 DEF LedgerInv, CleanIsKept
  <1>2. QED BY <1>1, LedgerInvariance, PTL DEF LedgerSpec, StopKeepsAll

-----------------------------------------------------------------------------
(* Wasted GPUs.                                                            *)

Spans == 0..MaxAge
Running == [owner : Jobs \cup {NoJob, Outsider}, age : Spans]
Clocks == Running \cup {NoClock}

WasteTypes ==
  /\ job \in Jobs \cup {NoJob} /\ past \subseteq Jobs /\ held \in Spans
  /\ load \in Loads
  /\ idle \in Clocks /\ parked \in Clocks
  /\ disk \in (Clocks \X Clocks) \cup {NoFile}
  /\ digest \in (Clocks \X Clocks) \cup {NoFile}
  /\ shown \in [job : Jobs \cup {NoJob}, idle : Spans, parked : Spans, live : BOOLEAN]
  /\ unsaved \in BOOLEAN /\ used \in BOOLEAN /\ sound \in BOOLEAN
  /\ calm \in Spans

\* A clock runs for one of "earlier" jobs or for the outsider, and for the job that has the
\* GPU now no longer than that.
Since(c, earlier, now, span) ==
  c # NoClock => c.owner \in earlier \cup {Outsider} /\ (c.owner = now => c.age <= span)

\* An idle clock has seen no use that was saved.
Undisturbed(c, span) == c # NoClock => c.age <= span

Honest(c, d) ==
  Since(c, past, job, held) /\ Since(d, past, job, held) /\ Undisturbed(c, calm)

ClocksAreOwned ==
  /\ job \in past \cup {NoJob} /\ shown.job \in past \cup {NoJob}
  /\ Honest(idle, parked)
  /\ disk # NoFile => Honest(disk[1], disk[2])

\* The file has what was written if its identity says so.
SoundIsWritten == sound => disk = digest

\* A use that was measured stopped the idle clock, and is still to be saved.
UseStopsClock == used => unsaved /\ idle = NoClock

ShownIsRecent ==
  shown.job = job /\ job # NoJob =>
    shown.idle <= held /\ (shown.live => shown.parked <= held)

WasteInv == WasteTypes /\ ClocksAreOwned /\ SoundIsWritten /\ UseStopsClock /\ ShownIsRecent

LEMMA SpanFacts ==
  /\ 0 \in Spans /\ MaxAge \in Spans
  /\ \A a \in Spans : 0 <= a /\ Later(a) \in Spans
  /\ \A a, b \in Spans : a <= b => Later(a) <= Later(b)
  /\ \A a, b \in Spans : a <= b => a <= Later(b)
  BY WasteAgeAssumption, SMT DEF Spans, Later, Sooner

\* Time makes clocks older, and what they are compared with.
LEMMA OlderClock ==
  ASSUME NEW c \in Clocks
  PROVE  /\ Older(c) \in Clocks
         /\ Older(c) # NoClock => /\ c # NoClock /\ c \in Running
                                  /\ Older(c).owner = c.owner /\ Older(c).age = Later(c.age)
  <1>1. CASE c = NoClock BY <1>1 DEF Older, Clocks
  <1>2. CASE c # NoClock
    <2>1. c \in Running /\ Older(c) = [c EXCEPT !.age = Later(c.age)]
      BY <1>2 DEF Clocks, Older
    <2>2. c.age \in Spans BY <2>1 DEF Running
    <2>3. Later(c.age) \in Spans BY <2>2, SpanFacts
    <2>4. QED BY <1>2, <2>1, <2>3 DEF Running, Clocks
  <1>3. QED BY <1>1, <1>2

LEMMA NewClock ==
  ASSUME NEW owner \in Jobs \cup {NoJob, Outsider}
  PROVE  Clock(owner) \in Clocks /\ Clock(owner).owner = owner /\ Clock(owner).age = 0
  BY SpanFacts DEF Clock, Clocks, Running

LEMMA AgeIsSpan == ASSUME NEW c \in Clocks PROVE AgeOf(c) \in Spans
  BY SpanFacts DEF AgeOf, Clocks, Running

\* A clock that is kept, started or dropped.
LEMMA KeptClock ==
  ASSUME NEW c \in Clocks, NEW runs \in BOOLEAN, NEW owner \in Jobs \cup {NoJob, Outsider}
  PROVE  /\ Kept(c, runs, owner) \in Clocks
         /\ ~runs => Kept(c, runs, owner) = NoClock
         /\ Kept(c, runs, owner) # NoClock =>
              /\ Kept(c, runs, owner).owner = owner
              /\ Kept(c, runs, owner) = c \/ Kept(c, runs, owner).age = 0
  BY NewClock DEF Kept, Clocks

LEMMA BlankRow ==
  /\ Blank \in [job : Jobs \cup {NoJob}, idle : Spans, parked : Spans, live : BOOLEAN]
  /\ Blank.job = NoJob
  BY SpanFacts DEF Blank

LEMMA InitWaste == WasteInit => WasteInv
  <1> SUFFICES ASSUME WasteInit PROVE WasteInv OBVIOUS
  <1>1. WasteTypes BY SpanFacts, BlankRow DEF WasteInit, WasteTypes, Clocks, Loads
  <1>2. ClocksAreOwned
    BY BlankRow DEF WasteInit, ClocksAreOwned, Honest, Since, Undisturbed
  <1>3. SoundIsWritten /\ UseStopsClock /\ ShownIsRecent
    BY DEF WasteInit, SoundIsWritten, UseStopsClock, ShownIsRecent
  <1>4. QED BY <1>1, <1>2, <1>3 DEF WasteInv

\* The GPU gets another job: no clock is that job's yet.
LEMMA AllocateWaste == ASSUME WasteInv, NEW j \in Jobs, Allocate(j) PROVE WasteInv'
  <1> USE WasteValuesAssumption DEF WasteInv, Allocate, clocks, file, history
  <1>1. WasteTypes' BY SpanFacts DEF WasteTypes
  <1>2. \A c : Since(c, past, job, held) => Since(c, past', job', held') BY DEF Since
  <1>3. ClocksAreOwned' BY <1>2 DEF ClocksAreOwned, Honest
  <1>4. SoundIsWritten' /\ UseStopsClock' BY DEF SoundIsWritten, UseStopsClock
  <1>5. ShownIsRecent' BY DEF ShownIsRecent, ClocksAreOwned
  <1>6. QED BY <1>1, <1>3, <1>4, <1>5

LEMMA ReleaseWaste == ASSUME WasteInv, Release PROVE WasteInv'
  <1> USE WasteValuesAssumption DEF WasteInv, Release, clocks, file, history
  <1>1. WasteTypes' BY SpanFacts DEF WasteTypes, Loads
  <1>2. past \subseteq Jobs BY DEF WasteTypes
  <1>3. \A c : Since(c, past, job, held) => Since(c, past', job', held') BY <1>2 DEF Since
  <1>4. ClocksAreOwned' BY <1>3 DEF ClocksAreOwned, Honest
  <1>5. SoundIsWritten' /\ UseStopsClock' /\ ShownIsRecent'
    BY DEF SoundIsWritten, UseStopsClock, ShownIsRecent
  <1>6. QED BY <1>1, <1>4, <1>5

LEMMA RunWaste == ASSUME WasteInv, NEW l \in Loads, Run(l) PROVE WasteInv'
  BY DEF Run, clocks, file, history, WasteInv, WasteTypes, ClocksAreOwned, Honest,
         SoundIsWritten, UseStopsClock, ShownIsRecent

\* Time passes for clocks and for what they are compared with.
LEMMA TickWaste == ASSUME WasteInv, WasteTick PROVE WasteInv'
  <1> USE DEF WasteInv, WasteTick
  <1>1. \A c \in Clocks : Since(c, past, job, held) => Since(Older(c), past', job', held')
    <2> SUFFICES ASSUME NEW c \in Clocks, Since(c, past, job, held), Older(c) # NoClock
                 PROVE  Since(Older(c), past', job', held')
      BY DEF Since
    <2>1. /\ c # NoClock /\ c.age \in Spans
          /\ Older(c).owner = c.owner /\ Older(c).age = Later(c.age)
      BY OlderClock DEF Running
    <2>2. held \in Spans /\ held' = Later(held) /\ past' = past /\ job' = job BY DEF WasteTypes
    <2>3. QED BY <2>1, <2>2, SpanFacts DEF Since
  <1>2. \A c \in Clocks : Undisturbed(c, calm) => Undisturbed(Older(c), calm')
    <2> SUFFICES ASSUME NEW c \in Clocks, Undisturbed(c, calm), Older(c) # NoClock
                 PROVE  Undisturbed(Older(c), calm')
      BY DEF Undisturbed
    <2>1. c # NoClock /\ c.age \in Spans /\ Older(c).age = Later(c.age)
      BY OlderClock DEF Running
    <2>2. calm \in Spans /\ calm' = Later(calm) BY DEF WasteTypes
    <2>3. QED BY <2>1, <2>2, SpanFacts DEF Undisturbed
  <1>3. \A f \in (Clocks \X Clocks) \cup {NoFile} :
          /\ OlderFile(f) \in (Clocks \X Clocks) \cup {NoFile}
          /\ OlderFile(f) # NoFile => f # NoFile /\ OlderFile(f) = <<Older(f[1]), Older(f[2])>>
                                      /\ f[1] \in Clocks /\ f[2] \in Clocks
    BY OlderClock DEF OlderFile
  <1>4. WasteTypes' BY <1>3, OlderClock, SpanFacts DEF WasteTypes
  <1>5. Honest(idle, parked)' BY <1>1, <1>2 DEF ClocksAreOwned, Honest, WasteTypes
  <1>6. disk' # NoFile => Honest(disk[1], disk[2])'
    <2> SUFFICES ASSUME disk' # NoFile PROVE Honest(disk[1], disk[2])' OBVIOUS
    <2>1. /\ disk # NoFile /\ disk' = <<Older(disk[1]), Older(disk[2])>>
          /\ disk[1] \in Clocks /\ disk[2] \in Clocks
      BY <1>3 DEF WasteTypes
    <2>2. Honest(disk[1], disk[2]) BY <2>1 DEF ClocksAreOwned
    <2>3. QED BY <1>1, <1>2, <2>1, <2>2 DEF Honest
  <1>7. ClocksAreOwned' BY <1>5, <1>6 DEF ClocksAreOwned
  <1>8. SoundIsWritten' /\ UseStopsClock' BY DEF SoundIsWritten, UseStopsClock
  <1>9. ShownIsRecent'
    BY SpanFacts DEF ShownIsRecent, WasteTypes
  <1>10. QED BY <1>4, <1>7, <1>8, <1>9

\* A clock that a row keeps or starts is the job's or the outsider's.
LEMMA MeasureWaste == ASSUME WasteInv, NEW ok \in BOOLEAN, Measure(ok) PROVE WasteInv'
  <1> DEFINE jid == IF ok THEN job ELSE NoJob
             owner == IF jid = NoJob THEN Outsider ELSE jid
  <1> USE WasteValuesAssumption DEF WasteInv
  <1>1. /\ idle' = Kept(idle, jid # NoJob /\ load = "none", jid)
        /\ parked' = Kept(parked, load = "holding", owner)
        /\ shown' = [job |-> jid, idle |-> AgeOf(idle'), parked |-> AgeOf(parked'), live |-> TRUE]
        /\ used' = (load # "none") /\ unsaved' = TRUE
        /\ UNCHANGED <<job, past, held, load, disk, sound, digest, calm>>
    BY DEF Measure, IdleClock, ParkedClock, gpu, file
  <1>2. jid \in past \cup {NoJob} /\ past \subseteq Jobs
        /\ idle \in Clocks /\ parked \in Clocks /\ held \in Spans /\ calm \in Spans
    BY DEF WasteTypes, ClocksAreOwned
  <1>3. /\ idle' \in Clocks
        /\ ~(jid # NoJob /\ load = "none") => idle' = NoClock
        /\ idle' # NoClock => idle'.owner = jid /\ (idle' = idle \/ idle'.age = 0)
    <2>1. jid \in Jobs \cup {NoJob, Outsider} BY <1>2
    <2> DEFINE runs == jid # NoJob /\ load = "none"
    <2>2. runs \in BOOLEAN /\ idle' = Kept(idle, runs, jid) BY <1>1
    <2> HIDE DEF jid, owner, runs
    <2>3. /\ idle' \in Clocks
          /\ ~runs => idle' = NoClock
          /\ idle' # NoClock => idle'.owner = jid /\ (idle' = idle \/ idle'.age = 0)
      BY <1>2, <2>1, <2>2, KeptClock
    <2>4. QED BY <2>3 DEF runs
  <1>4. /\ parked' \in Clocks
        /\ parked' # NoClock => parked'.owner = owner /\ (parked' = parked \/ parked'.age = 0)
    <2>1. owner \in Jobs \cup {NoJob, Outsider} BY <1>2
    <2> HIDE DEF jid, owner
    <2>2. QED BY <1>1, <1>2, <2>1, KeptClock
  <1> HIDE DEF jid, owner
  <1>5. AgeOf(idle') \in Spans /\ AgeOf(parked') \in Spans BY <1>3, <1>4, AgeIsSpan
  <1>6. WasteTypes' BY <1>1, <1>2, <1>3, <1>4, <1>5 DEF WasteTypes
  <1>7. Honest(idle, parked)'
    <2>1. Honest(idle, parked) BY DEF ClocksAreOwned
    <2>2. Since(idle', past', job', held') /\ Undisturbed(idle', calm')
      BY <1>1, <1>2, <1>3, <2>1, SpanFacts DEF Honest, Since, Undisturbed
    <2>3. Since(parked', past', job', held')
      BY <1>1, <1>2, <1>4, <2>1, SpanFacts DEF Honest, Since, owner
    <2>4. QED BY <2>2, <2>3 DEF Honest
  <1>8. ClocksAreOwned' BY <1>1, <1>2, <1>7 DEF ClocksAreOwned, Honest
  <1>9. SoundIsWritten' /\ UseStopsClock' BY <1>1, <1>3 DEF SoundIsWritten, UseStopsClock
  <1>10. ShownIsRecent'
    <2> SUFFICES ASSUME jid = job, job # NoJob
                 PROVE  AgeOf(idle') <= held /\ AgeOf(parked') <= held
      BY <1>1 DEF ShownIsRecent
    <2>1. owner = job BY DEF owner
    <2>2. QED BY <1>1, <1>2, <1>3, <1>4, <1>7, <2>1, SpanFacts DEF AgeOf, Honest, Since
  <1>11. QED BY <1>6, <1>8, <1>9, <1>10

LEMMA RecallWaste == ASSUME WasteInv, NEW ok \in BOOLEAN, Recall(ok) PROVE WasteInv'
  <1> DEFINE jid == IF ok THEN job ELSE NoJob
  <1> USE DEF WasteInv
  <1>1. /\ shown' = [job |-> jid, idle |-> IdleShown(jid), parked |-> AgeOf(parked), live |-> FALSE]
        /\ unsaved' = TRUE /\ ~unsaved
        /\ UNCHANGED <<job, past, held, load, idle, parked, disk, sound, digest, used, calm>>
    BY DEF Recall, gpu, clocks, file, history
  <1>2. jid \in past \cup {NoJob} /\ past \subseteq Jobs
    BY DEF WasteTypes, ClocksAreOwned
  <1>3. IdleShown(jid) \in Spans /\ (jid = job => IdleShown(jid) <= held)
    BY SpanFacts DEF IdleShown, WasteTypes, ClocksAreOwned, Honest, Since, Clocks, Running
  <1> HIDE DEF jid
  <1>4. AgeOf(parked) \in Spans BY AgeIsSpan DEF WasteTypes
  <1>5. WasteTypes' BY <1>1, <1>2, <1>3, <1>4 DEF WasteTypes
  <1>6. ClocksAreOwned' BY <1>1, <1>2 DEF ClocksAreOwned, Honest
  <1>7. SoundIsWritten' /\ UseStopsClock' BY <1>1 DEF SoundIsWritten, UseStopsClock
  <1>8. ShownIsRecent' BY <1>1, <1>3 DEF ShownIsRecent
  <1>9. QED BY <1>5, <1>6, <1>7, <1>8

\* What is under the path is the clocks as they are, or it is written.
LEMMA SaveWaste == ASSUME WasteInv, SaveIdle PROVE WasteInv'
  <1> USE DEF WasteInv
  <1>1. disk' = <<idle, parked>> /\ digest' = <<idle, parked>>
    BY DEF SaveIdle, Unchanged, clocks, SoundIsWritten
  <1>2. /\ unsaved' = FALSE /\ used' = FALSE /\ calm' = IF used THEN 0 ELSE calm
        /\ UNCHANGED <<job, past, held, load, idle, parked, shown>> /\ sound' \in BOOLEAN
    BY DEF SaveIdle, Saved, gpu, clocks
  <1>3. WasteTypes' BY <1>1, <1>2, SpanFacts DEF WasteTypes
  <1>4. Honest(idle, parked)'
    BY <1>2 DEF ClocksAreOwned, Honest, UseStopsClock, Undisturbed
  <1>5. ClocksAreOwned' BY <1>1, <1>2, <1>4 DEF ClocksAreOwned, Honest
  <1>6. SoundIsWritten' /\ UseStopsClock' BY <1>1, <1>2 DEF SoundIsWritten, UseStopsClock
  <1>7. ShownIsRecent' BY <1>2 DEF ShownIsRecent
  <1>8. QED BY <1>3, <1>5, <1>6, <1>7

LEMMA SaveFailsWaste == ASSUME WasteInv, SaveIdleFails PROVE WasteInv'
  BY DEF SaveIdleFails, gpu, clocks, file, WasteInv, WasteTypes, ClocksAreOwned, Honest,
         SoundIsWritten, UseStopsClock, ShownIsRecent

LEMMA TamperWaste == ASSUME WasteInv, NEW f \in {NoFile, disk}, Tamper(f) PROVE WasteInv'
  BY DEF Tamper, gpu, clocks, history, WasteInv, WasteTypes, ClocksAreOwned, Honest,
         SoundIsWritten, UseStopsClock, ShownIsRecent

LEMMA RestartWaste == ASSUME WasteInv, WasteRestart PROVE WasteInv'
  <1> USE DEF WasteInv
  <1>1. /\ idle' = Loaded[1] /\ parked' = Loaded[2] /\ shown' = Blank
        /\ unsaved' = FALSE /\ used' = FALSE /\ digest' = NoFile /\ sound' = FALSE
        /\ UNCHANGED <<job, past, held, load, disk, calm>>
    BY DEF WasteRestart, gpu
  <1>2. Loaded[1] \in Clocks /\ Loaded[2] \in Clocks /\ Honest(Loaded[1], Loaded[2])
    BY DEF Loaded, WasteTypes, ClocksAreOwned, Clocks, Honest, Since, Undisturbed
  <1>3. WasteTypes' BY <1>1, <1>2, BlankRow DEF WasteTypes
  <1>4. ClocksAreOwned' BY <1>1, <1>2, BlankRow DEF ClocksAreOwned, Honest
  <1>5. SoundIsWritten' /\ UseStopsClock' /\ ShownIsRecent'
    BY <1>1, BlankRow DEF SoundIsWritten, UseStopsClock, ShownIsRecent
  <1>6. QED BY <1>3, <1>4, <1>5

LEMMA NextWaste == WasteInv /\ [WasteNext]_wasteVars => WasteInv'
  <1> SUFFICES ASSUME WasteInv, [WasteNext]_wasteVars PROVE WasteInv' OBVIOUS
  <1>1. CASE UNCHANGED wasteVars
    BY <1>1 DEF wasteVars, gpu, clocks, file, history, WasteInv, WasteTypes, ClocksAreOwned,
                Honest, SoundIsWritten, UseStopsClock, ShownIsRecent
  <1>2. CASE WasteNext
    BY <1>2, AllocateWaste, ReleaseWaste, RunWaste, TickWaste, MeasureWaste, RecallWaste,
       SaveWaste, SaveFailsWaste, TamperWaste, RestartWaste DEF WasteNext
  <1>3. QED BY <1>1, <1>2

\* No row that names the job on the GPU shows time from before that job, and an idle clock
\* spans no use that was measured and saved, over failed writes, restarts and a file that
\* others touch (collector.py:327, 347, 1501).
THEOREM HonestClocks == WasteSpec => []ClocksAreHonest
  <1>1. WasteInv => ClocksAreHonest
    BY DEF WasteInv, ClocksAreOwned, Honest, Undisturbed, ShownIsRecent, ClocksAreHonest
  <1>2. QED BY <1>1, InitWaste, NextWaste, PTL DEF WasteSpec
=============================================================================
