-------------------------------- MODULE LogView --------------------------------
(***************************************************************************)
(* The log panes of an open job (screens.py:35-170, tui.py:105-121,        *)
(* common.py:2028-2062): the job's own files, or the collector's mirrors   *)
(* where those are unreadable, and a timer that reads them again.          *)
(*                                                                         *)
(* A file counts the writes to it (0: there is none yet), which stands for *)
(* its text and for its signature.  A tick starts another thread although  *)
(* the one before may still hang in a read.                                *)
(***************************************************************************)
EXTENDS Naturals

CONSTANTS
  Polls,      \* threads that read the logs
  MaxLines,   \* bound: writes to all files
  Rights,     \* what may be readable
  NoLog,      \* no path, no signature
  Unreadable  \* what is shown instead of a text

ASSUME LogViewAssumption ==
  /\ MaxLines \in Nat
  /\ Rights \subseteq SUBSET ({"out", "err"} \X {"own", "mirror"})

VARIABLES
  log, lines, \* writes to each file, and to all
  open,       \* the screen is open
  source,     \* the file of each pane
  pane,       \* the text each pane shows
  prints,     \* _log_fingerprints
  reader,     \* what each thread is doing
  overlapped  \* history: two threads read for this screen at once

screenVars == <<open, source, pane, prints, reader, overlapped>>
logViewVars == <<log, lines, screenVars>>

Streams == {"out", "err"}
Files == Streams \X {"own", "mirror"}
\* Nothing for any stream.
Empty == [s \in {} |-> NoLog]
With(f, s, value) == [x \in DOMAIN f \cup {s} |-> IF x = s THEN value ELSE f[x]]
Without(f, s) == [x \in DOMAIN f \ {s} |-> f[x]]
Away == [at |-> "away", stream |-> "out", stamp |-> NoLog, text |-> NoLog, updates |-> Empty]
Text(f) == IF log[f] = 0 THEN Unreadable ELSE log[f]
\* _log_signature: None if there is no file.
LogSignature(f) == IF log[f] = 0 THEN NoLog ELSE log[f]
EmptyPane == [s \in Streams |-> NoLog]

\* read_job_log: the job's own file if it can be read, or the mirror, or the error.
Can(f, readable) == f \in readable /\ log[f] > 0
Preferred(s, readable) ==
  IF ~Can(<<s, "own">>, readable) /\ Can(<<s, "mirror">>, readable)
  THEN <<s, "mirror">> ELSE <<s, "own">>

-----------------------------------------------------------------------------
JobWrites(f) ==
  /\ lines < MaxLines /\ lines' = lines + 1
  /\ log' = [log EXCEPT ![f] = @ + 1]
  /\ UNCHANGED screenVars

\* _job_log_views and DetailScreen: a merged stderr is the file of stdout.
OpenScreen(merged, readable) ==
  /\ ~open
  /\ open' = TRUE
  /\ source' = [s \in Streams |-> Preferred(IF merged THEN "out" ELSE s, readable)]
  /\ pane' = [s \in Streams |-> IF Can(source'[s], readable) THEN Text(source'[s]) ELSE Unreadable]
  /\ UNCHANGED <<log, lines, prints, reader, overlapped>>

\* The threads of a closed screen touch no other.
CloseScreen ==
  /\ open
  /\ open' = FALSE /\ source' = EmptyPane /\ pane' = EmptyPane /\ prints' = Empty
  /\ reader' = [p \in Polls |-> Away] /\ overlapped' = FALSE
  /\ UNCHANGED <<log, lines>>

-----------------------------------------------------------------------------
(* _poll_logs.                                                             *)

PollStarts(p) ==
  /\ open /\ reader[p].at = "away"
  /\ reader' = [reader EXCEPT ![p].at = "stat"]
  /\ overlapped' = (overlapped \/ \E q \in Polls : reader[q].at # "away")
  /\ UNCHANGED <<log, lines, open, source, pane, prints>>

\* Standard output first, then standard error, then what is new is shown.
AfterStream(r) ==
  IF r.stream = "out" THEN [r EXCEPT !.at = "stat", !.stream = "err"]
  ELSE IF r.updates = Empty THEN Away ELSE [r EXCEPT !.at = "show"]

Seen(s, stamp) == s \in DOMAIN prints /\ prints[s] = stamp

StatLog(p) ==
  LET s == reader[p].stream
      stamp == LogSignature(source[s])
  IN
  /\ reader[p].at = "stat"
  /\ reader' = [reader EXCEPT ![p] =
       IF Seen(s, stamp) THEN AfterStream(@) ELSE [@ EXCEPT !.at = "read", !.stamp = stamp]]
  /\ UNCHANGED <<log, lines, open, source, pane, prints, overlapped>>

ReadTail(p, ok) ==
  /\ reader[p].at = "read"
  /\ reader' = [reader EXCEPT ![p].at = "mark",
                  ![p].text = IF ok THEN Text(source[reader[p].stream]) ELSE Unreadable]
  /\ UNCHANGED <<log, lines, open, source, pane, prints, overlapped>>

\* Mistaken variant of Fingerprint: the file as it is after it was read.
FingerprintAfter(p) == LogSignature(source[reader[p].stream])
\* The file as it was before it was read.
Fingerprint(p) == reader[p].stamp

\* What could not be read is tried again, even if the file stays the same.
MarkLog(p) ==
  LET r == reader[p] IN
  /\ r.at = "mark"
  /\ prints' = IF Fingerprint(p) # NoLog /\ r.text # Unreadable
               THEN With(prints, r.stream, Fingerprint(p)) ELSE Without(prints, r.stream)
  /\ reader' = [reader EXCEPT ![p] = AfterStream([r EXCEPT !.updates = With(@, r.stream, r.text)])]
  /\ UNCHANGED <<log, lines, open, source, pane, overlapped>>

\* _apply_log_updates, in the thread of the screen.
ShowLogs(p) ==
  /\ reader[p].at = "show"
  /\ pane' = [s \in Streams |-> IF s \in DOMAIN reader[p].updates THEN reader[p].updates[s] ELSE pane[s]]
  /\ reader' = [reader EXCEPT ![p] = Away]
  /\ UNCHANGED <<log, lines, open, source, prints, overlapped>>

-----------------------------------------------------------------------------
LogViewInit ==
  /\ log = [f \in Files |-> 0] /\ lines = 0
  /\ open = FALSE /\ source = EmptyPane /\ pane = EmptyPane /\ prints = Empty
  /\ reader = [p \in Polls |-> Away] /\ overlapped = FALSE

LogViewNext ==
  \/ \E f \in Files : JobWrites(f)
  \/ \E merged \in BOOLEAN, readable \in Rights : OpenScreen(merged, readable)
  \/ CloseScreen
  \/ \E p \in Polls :
       \/ PollStarts(p)
       \/ StatLog(p)
       \/ \E ok \in BOOLEAN : ReadTail(p, ok)
       \/ MarkLog(p)
       \/ ShowLogs(p)

LogViewSpec == LogViewInit /\ [][LogViewNext]_logViewVars

-----------------------------------------------------------------------------
\* When no thread reads, a pane whose file counts as seen shows that file's text, though
\* the job writes between the stat and the read and a read may fail (screens.py:136,
\* 150): the pane never sticks to an older text.  It can if two threads overlap, and
\* the later one is done first.
PanesCatchUp ==
  (\A p \in Polls : reader[p].at = "away") /\ ~overlapped =>
    \A s \in DOMAIN prints : prints[s] = log[source[s]] => pane[s] = prints[s]
=============================================================================
