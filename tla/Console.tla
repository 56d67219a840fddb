------------------------------ MODULE Console -------------------------------
(***************************************************************************)
(* The console: the simulated devices ConsoleInput and ConsoleOutput       *)
(* (machine/console.cc), the synchronous layer above them                  *)
(* (userprog/synchconsole.cc), and the system calls that read and print    *)
(* through it: Read and Write on descriptors 0 and 1, ReadString,          *)
(* PrintString and PrintNum (userprog/ksyscall.h, userprog/exception.cc).  *)
(*                                                                         *)
(* Each thread makes the calls of its list.  A step ends where the kernel  *)
(* may switch: at the P or V of a lock or of waitFor.  Locks and           *)
(* semaphores are the atomic ones of SemaphoreAbs.tla.  A char is a small  *)
(* signed integer; EOF is the char -1, which is also the byte 0xFF.        *)
(***************************************************************************)
EXTENDS Integers, Sequences

CONSTANTS User, NoUser, \* the threads, and none of them
          Jobs,       \* what programs do: for each thread the calls it makes in turn
          Typed,      \* the bytes the keyboard delivers
          AtEnd,      \* "EOF": the input then ends, "open": it stays quiet
          LineMax,    \* longest line SysReadString takes (255)
          Least       \* the least int, -2147483648

ASSUME ConsoleAssumption == NoUser \notin User

EOF == -1
Newline == 10
Minus == 45

VARIABLES
  keys,      \* bytes not read yet
  incoming,  \* ConsoleInput::incoming
  readInt,   \* a ConsoleReadInt is pending
  putBusy,   \* ConsoleOutput::putBusy
  writeInt,  \* a ConsoleWriteInt is pending
  inLock, outLock,  \* holders of the two locks
  inSem, outSem,    \* values of the two waitFor
  consoleAt,        \* where a thread is
  jobs,      \* the calls that are not finished
  buf,       \* characters the current call has read, or has still to print
  screen,    \* what was printed: thread and character
  results,   \* the finished calls of each thread and their results
  machine    \* "running", or "aborted" by an ASSERT

consoleVars == << keys, incoming, readInt, putBusy, writeInt, inLock, outLock, inSem, outSem,
           consoleAt, jobs, buf, screen, results, machine >>
consoleDevice == << keys, incoming, readInt, putBusy, writeInt >>
consoleSynch == << inLock, outLock, inSem, outSem >>

\* The constructors
ConsoleInit ==
  /\ keys = Typed /\ incoming = EOF /\ readInt = TRUE
  /\ putBusy = FALSE /\ writeInt = FALSE
  /\ inLock = NoUser /\ outLock = NoUser /\ inSem = 0 /\ outSem = 0
  /\ consoleAt = [t \in User |-> "user"] /\ jobs \in Jobs
  /\ buf = [t \in User |-> << >>] /\ results = [t \in User |-> << >>]
  /\ screen = << >> /\ machine = "running"

Go(t, from, to) == machine = "running" /\ consoleAt[t] = from /\ consoleAt' = [consoleAt EXCEPT ![t] = to]
Job(t) == Head(jobs[t])

-----------------------------------------------------------------------------
(* Handle_PrintNum: the characters of a number.                            *)

Negated(n) == IF n = Least THEN Least ELSE -n      \* int arithmetic wraps
Rem10(n) == IF n >= 0 THEN n % 10 ELSE -((-n) % 10)
Quot10(n) == IF n >= 0 THEN n \div 10 ELSE -((-n) \div 10)

\* temp: the digits from the last to the first; Depth bounds their number.
Depth == 11
DigitsOf(n) ==
  LET rest[i \in 0 .. Depth] == IF i = 0 THEN n ELSE Quot10(rest[i - 1])
      count == CHOOSE i \in 1 .. Depth : rest[i] = 0 /\ \A j \in 1 .. i - 1 : rest[j] # 0
  IN [i \in 1 .. count |-> Rem10(rest[i - 1])]

\* Mutant: the digits are printed as they were found, last one first.
NumBufferReversed(n) ==
  LET digits == DigitsOf(IF n < 0 THEN Negated(n) ELSE n)
      chars == [i \in DOMAIN digits |-> 48 + digits[i]]
  IN IF n < 0 THEN << Minus >> \o chars ELSE chars

NumBuffer(n) ==
  LET digits == DigitsOf(IF n < 0 THEN Negated(n) ELSE n)
      chars == [i \in DOMAIN digits |-> 48 + digits[Len(digits) + 1 - i]]
  IN IF n < 0 THEN << Minus >> \o chars ELSE chars

-----------------------------------------------------------------------------
(* The calls.                                                              *)

\* The handlers, up to the first character: a call that reads starts with an
\* empty buffer, one that prints with the characters to print.
SC_ReadString(t) == /\ Job(t).op = "ReadString" /\ Go(t, "user", "inAcquire")
                    /\ buf' = [buf EXCEPT ![t] = << >>]
GetString(t) == /\ Job(t).op = "Read" /\ Job(t).size > 0 /\ Go(t, "user", "inAcquire")
                /\ buf' = [buf EXCEPT ![t] = << >>]
SC_PrintString(t) == /\ Job(t).op = "Print" /\ Go(t, "user", "outLoop")
                     /\ buf' = [buf EXCEPT ![t] = Job(t).chars]
PutString(t) == /\ Job(t).op = "Write" /\ Go(t, "user", "outLoop")
                /\ buf' = [buf EXCEPT ![t] = Job(t).chars]
Handle_PrintNum(t) == /\ Job(t).op = "PrintNum" /\ Go(t, "user", "outLoop")
                      /\ buf' = [buf EXCEPT ![t] = NumBuffer(Job(t).n)]
Begin(t) ==
  /\ jobs[t] # << >>
  /\ \/ SC_ReadString(t) \/ GetString(t)
     \/ SC_PrintString(t) \/ PutString(t) \/ Handle_PrintNum(t)
  /\ UNCHANGED << consoleDevice, consoleSynch, jobs, screen, results, machine >>

\* The call is over: its result, and back to the program.
End(t, r) == /\ results' = [results EXCEPT ![t] = Append(@, [job |-> Job(t), result |-> r])]
             /\ jobs' = [jobs EXCEPT ![t] = Tail(@)]

\* SynchConsoleInput::GetChar: lock->Acquire, waitFor->P
InAcquire(t) ==
  /\ inLock = NoUser /\ Go(t, "inAcquire", "inWait")
  /\ inLock' = t
  /\ UNCHANGED << consoleDevice, outLock, inSem, outSem, jobs, buf, screen, results, machine >>

InWait(t) ==
  /\ inSem > 0 /\ Go(t, "inWait", "inGet")
  /\ inSem' = inSem - 1
  /\ UNCHANGED << consoleDevice, inLock, outLock, outSem, jobs, buf, screen, results, machine >>

\* What SysReadString and GetString do with a character.
ReadStringChar(t, ch) ==
  LET line == IF ch = Newline THEN buf[t] ELSE Append(buf[t], ch) IN
  /\ buf' = [buf EXCEPT ![t] = line]
  /\ IF ch = Newline \/ Len(line) = LineMax
     THEN Go(t, "inGet", "user") /\ End(t, Len(line))
     ELSE Go(t, "inGet", "inAcquire") /\ UNCHANGED << results, jobs >>

GetStringChar(t, ch) ==
  LET got == IF ch = EOF THEN buf[t] ELSE Append(buf[t], ch) IN
  /\ buf' = [buf EXCEPT ![t] = got]
  /\ IF ch = EOF \/ Len(got) = Job(t).size
     THEN Go(t, "inGet", "user") /\ End(t, IF ch = EOF THEN -1 ELSE Len(got))
     ELSE Go(t, "inGet", "inAcquire") /\ UNCHANGED << results, jobs >>

\* ConsoleInput::GetChar
GetChar == readInt' = (readInt \/ incoming # EOF) /\ incoming' = EOF

\* The rest of SynchConsoleInput::GetChar, with lock->Release.
InGet(t) ==
  /\ consoleAt[t] = "inGet"
  /\ GetChar
  /\ inLock' = NoUser
  /\ \/ Job(t).op = "ReadString" /\ ReadStringChar(t, incoming)
     \/ Job(t).op = "Read" /\ GetStringChar(t, incoming)
  /\ UNCHANGED << keys, putBusy, writeInt, outLock, inSem, outSem, screen, machine >>

\* PutString, SysPrintString or the loop of Handle_PrintNum, up to
\* lock->Acquire of the next SynchConsoleOutput::PutChar.
OutLoop(t) ==
  /\ IF buf[t] = << >> THEN Go(t, "outLoop", "user") /\ End(t, 0) /\ UNCHANGED outLock
     ELSE /\ outLock = NoUser /\ Go(t, "outLoop", "outPut")
          /\ outLock' = t /\ UNCHANGED << results, jobs >>
  /\ UNCHANGED << consoleDevice, inLock, inSem, outSem, buf, screen, machine >>

\* ConsoleOutput::PutChar
OutPut(t) ==
  /\ Go(t, "outPut", "outWait")
  /\ machine' = IF putBusy THEN "aborted" ELSE machine
  /\ putBusy' = TRUE /\ writeInt' = TRUE
  /\ screen' = Append(screen, << t, Head(buf[t]) >>)
  /\ buf' = [buf EXCEPT ![t] = Tail(@)]
  /\ UNCHANGED << keys, incoming, readInt, consoleSynch, jobs, results >>

\* waitFor->P and lock->Release of SynchConsoleOutput::PutChar
OutWait(t) ==
  /\ outSem > 0 /\ Go(t, "outWait", "outLoop")
  /\ outSem' = outSem - 1 /\ outLock' = NoUser
  /\ UNCHANGED << consoleDevice, inLock, inSem, jobs, buf, screen, results, machine >>

-----------------------------------------------------------------------------
(* The interrupts.                                                         *)

\* Mutant: a character that is already waiting is overwritten, the device
\* being polled again at once.
ConsoleInputCallBackTwice ==
  /\ machine = "running" /\ readInt /\ keys # << >>
  /\ readInt' = TRUE
  /\ incoming' = Head(keys) /\ keys' = Tail(keys)
  /\ inSem' = inSem + 1
  /\ machine' = IF incoming = EOF THEN machine ELSE "aborted"
  /\ UNCHANGED << putBusy, writeInt, inLock, outLock, outSem, consoleAt, jobs, buf, screen, results >>

\* ConsoleInput::CallBack and SynchConsoleInput::CallBack.  A poll that finds
\* nothing is scheduled again, which changes nothing.
ConsoleInputCallBack ==
  /\ machine = "running" /\ readInt
  /\ keys # << >> \/ AtEnd = "EOF"
  /\ readInt' = FALSE
  /\ IF keys = << >> THEN UNCHANGED << incoming, keys >>
     ELSE incoming' = Head(keys) /\ keys' = Tail(keys)
  /\ inSem' = inSem + 1
  /\ machine' = IF incoming = EOF THEN machine ELSE "aborted"
  /\ UNCHANGED << putBusy, writeInt, inLock, outLock, outSem, consoleAt, jobs, buf, screen, results >>

\* ConsoleOutput::CallBack and SynchConsoleOutput::CallBack
ConsoleOutputCallBack ==
  /\ machine = "running" /\ writeInt
  /\ writeInt' = FALSE /\ putBusy' = FALSE
  /\ outSem' = outSem + 1
  /\ UNCHANGED << keys, incoming, readInt, inLock, outLock, inSem, consoleAt, jobs, buf, screen,
                  results, machine >>

ConsoleStep(t) == Begin(t) \/ InAcquire(t) \/ InWait(t) \/ InGet(t) \/ OutLoop(t) \/ OutPut(t) \/ OutWait(t)
ConsoleNext == ConsoleInputCallBack \/ ConsoleOutputCallBack \/ \E t \in User : ConsoleStep(t)

\* Time goes on and pending interrupts happen; a thread that can run gets
\* its turn.
ConsoleSpec ==
  /\ ConsoleInit /\ [][ConsoleNext]_consoleVars
  /\ WF_consoleVars(ConsoleInputCallBack) /\ WF_consoleVars(ConsoleOutputCallBack)
  /\ \A t \in User : WF_consoleVars(ConsoleStep(t))

-----------------------------------------------------------------------------
\* The ASSERTs of the devices hold (console.cc): no character arrives before
\* the last one was taken, and none is printed while the display is busy.
DeviceAssertsHold == machine = "running"

Printed(t) == LET mine == SelectSeq(screen, LAMBDA e : e[1] = t)
              IN [i \in DOMAIN mine |-> mine[i][2]]

\* No typed character is lost or doubled between the keyboard and the
\* readers (ConsoleInput::CallBack, GetChar): there is a token in waitFor
\* for the one that waits in incoming, or the reader that took the token is
\* on its way to it; and the device is polled only when incoming is free.
OneCharacterAtATime ==
  /\ readInt => incoming = EOF /\ inSem = 0 /\ \A t \in User : consoleAt[t] # "inGet"
  /\ incoming # EOF => LET takers == {t \in User : consoleAt[t] = "inGet"}
                       IN \/ inSem = 1 /\ takers = {}
                          \/ inSem = 0 /\ \E t \in User : takers = {t}

\* No ASSERT of the console devices fails, and no typed character is lost or
\* doubled on its way from ConsoleInput::CallBack to the reader that GetChar
\* gives it to.
CharactersReadOnce == DeviceAssertsHold /\ OneCharacterAtATime

\* The int that a numeral stands for.
ValueOf(s) == LET v[i \in 0 .. Len(s)] ==
                    IF i = 0 THEN 0 ELSE IF s[i] \in 48 .. 57 THEN 10 * v[i - 1] + s[i] - 48 ELSE v[i - 1]
              IN IF s # << >> /\ s[1] = Minus THEN -v[Len(s)] ELSE v[Len(s)]
Numeral(s, n) ==
  /\ ValueOf(s) = n
  /\ \A i \in DOMAIN s : s[i] \in 48 .. 57 \/ (i = 1 /\ s[i] = Minus)

\* Each character c behind the first for the one as far on the other side of '0'.
Mirrored(s) == [i \in DOMAIN s |-> IF i = 1 THEN s[1] ELSE 96 - s[i]]

\* When a thread is done, what the display shows of it is what it printed, in
\* order (SynchConsoleOutput::PutString, Handle_PrintNum): its strings, and its
\* numbers as numerals.  The one exception is the least int, which the comment on
\* num_buffer (userprog/exception.cc:246) has in its range: -number is number
\* again and its remainders are negative, so that a '-' is printed and then, for
\* each digit d, the character '0' - d.
PrintedInOrder ==
  \A t \in User : Len(results[t]) = 1 /\ jobs[t] = << >> =>
    LET j == results[t][1].job IN
    /\ j.op \in {"Print", "Write"} => Printed(t) = j.chars
    /\ j.op = "PrintNum" => Numeral(IF j.n = Least THEN Mirrored(Printed(t)) ELSE Printed(t), j.n)

\* "int: [-2147483648 , 2147483647] --> max buffer = 11" (userprog/exception.cc:246):
\* every int is printed as a numeral, the least one too.
LeastPrinted ==
  \A t \in User : Len(results[t]) = 1 /\ jobs[t] = << >> =>
    LET j == results[t][1].job IN j.op = "PrintNum" => Numeral(Printed(t), j.n)

\* Read of the console gives the program what there was when the input ends
\* (userprog/syscall.h, Read).
ReadGivesWhatThereIs ==
  \A t \in User : Len(results[t]) = 1 /\ jobs[t] = << >> /\ buf[t] # << >> =>
    (results[t][1].job.op = "Read" => results[t][1].result = Len(buf[t]))

\* Every call returns (SynchConsoleInput::GetChar, SynchConsoleOutput::PutChar),
\* when the keyboard delivers what the readers ask for, or the input ends.
ConsoleCallsReturn == <>[](\A t \in User : jobs[t] = << >>)

=============================================================================
