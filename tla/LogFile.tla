------------------------------ MODULE LogFile ------------------------------
(***************************************************************************)
(* An appender of type LOGLIB_APND_TYPE_FILE: it writes to one file per    *)
(* hour, moves a file that has grown too large out of the way under the    *)
(* next number, and keeps its own count of what it wrote.  The files       *)
(* outlive the process.                                                    *)
(*                                                                         *)
(* A file is the sequence of its messages and a message a record of its    *)
(* number, its hour and its length.  File 0 of an hour is "name<hour>.log" *)
(* and file i is "name<hour>.log.<i>".                                     *)
(*                                                                         *)
(* loglibInt_apndMakeFile adds ".<i>" to a path with a call of vsnprintf   *)
(* that reads the path from the buffer it writes to, which is undefined.   *)
(* The outcome depends on the C library: the path is kept, or it is cut    *)
(* off because the first character is cleared before anything is read, as  *)
(* glibc does.  Then only ".<i>" is left, a file of the working directory. *)
(***************************************************************************)
EXTENDS Integers, Sequences, FiniteSetsExt

CONSTANTS Hours,       \* the hours of a run, 0 .. Hours
          Keep,        \* the highest number moved up when a file is put aside, 24 in the code
          MaxLogSize,  \* maxLogSize of the configuration
          Lens,        \* lengths of messages
          MaxMsgs,     \* bound on the messages of a run
          MaxStarts    \* bound on the restarts of a run

ASSUME FileAssumption ==
  /\ Hours \in Nat /\ Keep \in Nat /\ MaxLogSize \in Nat /\ MaxMsgs \in Nat /\ MaxStarts \in Nat
  /\ Lens \subseteq Nat \ {0}
  /\ \E longest \in Lens : \A len \in Lens : len <= longest    \* the size of the log buffer

Hour == 0 .. Hours
Spill == Hours + 1    \* the working directory: file 0 is ".1" there and file 1 ".1.2"
Place == 0 .. Hours + 1
Number == 0 .. Keep + 1
NoFile == << >>       \* an empty file is never left behind a write

VARIABLES cut,        \* what the C library does to the path
          files,      \* the files of each hour, and of the working directory
          now,        \* the hour of the clock
          open,       \* fp is not NULL
          fpPlace,    \* the place whose file 0 fp writes to
          lastTms,    \* the hour of the last loglibInt_apndMake
          logSize,    \* the count that is compared with maxLogSize
          tm,         \* the hour of the last message
          cnt,        \* messages written so far
          starts,     \* restarts so far
          written,    \* history: what was written to the files of each place
          dirFailed   \* history: a directory could not be made

fileVars == <<cut, files, now, open, fpPlace, lastTms, logSize, tm, cnt, starts, written, dirFailed>>

FileInit ==
  /\ cut \in BOOLEAN
  /\ files = [h \in Place |-> [i \in Number |-> NoFile]]
  /\ now = 0 /\ open = FALSE /\ fpPlace = 0 /\ lastTms = 0 /\ logSize = 0
  /\ tm = 0 /\ cnt = 0 /\ starts = 0
  /\ written = [h \in Place |-> << >>]
  /\ dirFailed = FALSE

FileSize(f) ==
  LET sum[n \in 0 .. Len(f)] == IF n = 0 THEN 0 ELSE sum[n - 1] + f[n].len
  IN sum[Len(f)]

-----------------------------------------------------------------------------
(* loglibInt_apndMakeFile: each number that exists is renamed to the next  *)
(* one, which it replaces, ...                                             *)
Rename(fs, i) == IF fs[i] = NoFile THEN fs ELSE [fs EXCEPT ![i + 1] = fs[i], ![i] = NoFile]

\* Fault: from the lowest number to the highest.
Rotate_Up(fs) ==
  LET moved[k \in 0 .. Keep + 1] == IF k = 0 THEN fs ELSE Rename(moved[k - 1], k - 1)
  IN moved[Keep + 1]

(* ... from the highest number to the lowest.                              *)
Rotate(fs) ==
  LET moved[k \in 0 .. Keep + 1] == IF k = 0 THEN fs ELSE Rename(moved[k - 1], Keep + 1 - k)
  IN moved[Keep + 1]

(* With the path cut off ".1" is moved to ".1.2" and nothing else is found. *)
RotateCut(fs) == Rename(fs, 0)

\* Fault: a file that is just full is moved too.
TooLarge_Full(f) == FileSize(f) >= MaxLogSize

TooLarge(f) == FileSize(f) > MaxLogSize

(* The count starts from the size of the file that is there; when none is  *)
(* there it keeps its value.                                               *)
CountAfter(f) ==
  IF f = NoFile THEN logSize
  ELSE IF TooLarge(f) THEN 0 ELSE FileSize(f)

(* loglibInt_apndMake makes the directory and the file of the hour of the  *)
(* clock.  It may end in "ok", in "nofile" when the file cannot be opened, *)
(* and in "nodir" when the directory cannot be made: then it returns       *)
(* before the old file is closed.                                          *)
FilesMade(outcome) ==
  IF outcome = "nodir" \/ ~TooLarge(files[now][0]) THEN files
  ELSE IF cut THEN [files EXCEPT ![Spill] = RotateCut(@)]
              ELSE [files EXCEPT ![now] = Rotate(@)]

PlaceMade(outcome) ==
  IF outcome = "nodir" THEN fpPlace
  ELSE IF cut /\ TooLarge(files[now][0]) THEN Spill ELSE now

MustMake(t) == ~open \/ lastTms # t \/ logSize >= MaxLogSize

(* Without a file a message goes to stderr and is counted all the same.    *)
Put(m, fs, isOpen, h, size) ==
  /\ files' = IF isOpen THEN [fs EXCEPT ![h][0] = Append(@, m)] ELSE fs
  /\ written' = IF isOpen THEN [written EXCEPT ![h] = Append(@, m)] ELSE written
  /\ logSize' = size + m.len

(* loglibInt_apndWrite: a message of hour t, which is the hour of the      *)
(* clock or, for a logger with a thread, an earlier one.                   *)
Write(t, len) ==
  LET m == [id |-> cnt, tm |-> t, len |-> len] IN
  /\ cnt < MaxMsgs
  /\ t \in tm .. now
  /\ cnt' = cnt + 1
  /\ tm' = t
  /\ IF MustMake(t)
       THEN \E outcome \in {"ok", "nofile", "nodir"} :
              LET isOpen == IF outcome = "nodir" THEN open ELSE outcome = "ok"
                  h == PlaceMade(outcome)
                  size == IF outcome = "nodir" THEN logSize ELSE CountAfter(files[now][0]) IN
              /\ lastTms' = now
              /\ open' = isOpen /\ fpPlace' = h
              /\ dirFailed' = (dirFailed \/ outcome = "nodir")
              /\ Put(m, FilesMade(outcome), isOpen, h, size)
       ELSE /\ Put(m, files, TRUE, fpPlace, logSize)
            /\ UNCHANGED <<open, fpPlace, lastTms, dirFailed>>
  /\ UNCHANGED <<cut, now, starts>>

(* The clock goes on.                                                      *)
Tick ==
  /\ now < Hours
  /\ now' = now + 1
  /\ UNCHANGED <<cut, files, open, fpPlace, lastTms, logSize, tm, cnt, starts, written, dirFailed>>

(* A new process: loglibInt_apndInit.                                      *)
Restart ==
  /\ starts < MaxStarts
  /\ starts' = starts + 1
  /\ open' = FALSE /\ logSize' = 0
  /\ UNCHANGED <<cut, files, now, fpPlace, lastTms, tm, cnt, written, dirFailed>>

FileNext ==
  \/ \E t \in Hour, len \in Lens : Write(t, len)
  \/ Tick
  \/ Restart

FileSpec == FileInit /\ [][FileNext]_fileVars

-----------------------------------------------------------------------------
\* The files of an hour, oldest first.
AllOf(fs) ==
  LET all[k \in 0 .. Keep + 2] == IF k = 0 THEN << >> ELSE all[k - 1] \o fs[Keep + 2 - k]
  IN all[Keep + 2]

EndOf(s, w) == \E n \in 0 .. Len(w) : s = SubSeq(w, n + 1, Len(w))

(* Through all renaming, restarts and failures to open, the files of an    *)
(* hour put one behind the other, from the highest number to the lowest,   *)
(* are the last messages written to that hour, in order and without a gap, *)
(* and nothing is lost before every number is in use.  In the working      *)
(* directory the first half holds as well.                                 *)
OnlyOldestLost ==
  /\ \A h \in Place : EndOf(AllOf(files[h]), written[h])
  /\ \A h \in Hour : AllOf(files[h]) # written[h] => \A i \in Number \ {0} : files[h][i] # NoFile

(* No file exceeds the configured size by more than one message, unless a  *)
(* directory could not be made and the appender went on in the old file;   *)
(* and a file is put aside only when it exceeds that size.                 *)
SizeBound ==
  /\ dirFailed \/ \A h \in Place, i \in Number : FileSize(files[h][i]) <= MaxLogSize + Max(Lens)
  /\ \A h \in Hour, i \in Number \ {0} : files[h][i] # NoFile => FileSize(files[h][i]) > MaxLogSize

(* A message of an earlier hour may be found in the file of a later one,   *)
(* the other way round only after a directory could not be made.           *)
NotEarlier ==
  dirFailed \/ \A h \in Hour : \A i \in DOMAIN written[h] : written[h][i].tm <= h

(* Files stay within their size and hold no message of a later hour.       *)
FilesBounded == SizeBound /\ NotEarlier
=============================================================================
