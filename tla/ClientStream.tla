------------------------------- MODULE ClientStream ----------------------------
(***************************************************************************)
(* How a client cuts the byte stream of its connection into the greeting   *)
(* line and frames, and hands the updates to its window loop: RecvThread   *)
(* (src/src/Client.cpp:34-197) and the loop in display_func                *)
(* (src/src/gltestplus.cpp:1327-1438), with the mutex hGameMutex.  The     *)
(* server is what it sends on one connection (src/src/Server.cpp).         *)
(*                                                                         *)
(* A byte is a number.  A size takes Word bytes, the low one first, so     *)
(* that the second byte of a short frame is NUL; a size may have the value *)
(* of CR or LF.  The members of a frame that are not told apart (counters, *)
(* the client list) are left out of its bytes.                             *)
(***************************************************************************)
EXTENDS Integers, Sequences, SequencesExt

CONSTANTS
  CR, LF,        \* the bytes that end a line
  MaxFrames,     \* bound: frames after the greeting
  MaxTimeouts,   \* bound: waits of ten seconds
  SplitLineEnd   \* may a recv() end between CR and LF?

NUL == 0
L == 11  \* 'L', the limit of clients
U == 12  \* 'U', an update
M == 13  \* 'M', a message
Word == 2

\* Lines: the protocol's signature and version, another version, "FULL".
Welcome == <<21, 22>>
OtherVersion == <<21, 23>>
Full == <<24>>

\* Neither a line nor the size of the limit's frame, 3, has the bytes of a line end.
ASSUME StreamAssumption ==
  /\ {CR, LF} \subseteq 1 .. 255 \ ({3} \cup 21 .. 24) /\ CR # LF
  /\ MaxFrames \in 0 .. 254 /\ MaxTimeouts \in Nat
  /\ SplitLineEnd \in BOOLEAN

\* The bytes of a frame; a buffer or a text comes after its own size.
Body(f) == IF f.kind = L THEN <<L>> \o f.buf ELSE <<f.kind, Len(f.buf)>> \o f.buf
Bytes(f) == <<Len(Body(f)) % 256, Len(Body(f)) \div 256>> \o Body(f)

Limit == [kind |-> L, buf |-> <<2, 0>>]

\* The n-th frame, whose contents tell it from the others; an update has no buffer
\* when the server has not made its first diff.
FrameNo(n) == {[kind |-> U, buf |-> <<n>>], [kind |-> U, buf |-> <<>>],
               [kind |-> M, buf |-> <<n>>]}
Frame == {Limit} \cup UNION {FrameNo(n) : n \in 1 .. MaxFrames + 1}

VARIABLES
  wire,      \* bytes on the way
  greeting,  \* the line the server sent, <<>> before
  closed,    \* the server closed the connection
  pc,        \* where RecvThread is
  lbuf,      \* its buffer, lbp bytes of it
  mode,      \* -1 before the greeting, 0 after
  hGameMutex,\* who owns it
  recvbuf,   \* update buffers for the window loop
  wpc,       \* where the window loop is
  sbuf,      \* what it is about to interpret, <<>> for nothing
  timeouts,  \* how many waits for hGameMutex were given up
  sent,      \* history: the frames sent
  done,      \* history: how many of them were consumed
  got,       \* history: the frames interpreted
  applied    \* history: the buffers the window loop interpreted

server == <<greeting, closed, sent>>
window == <<wpc, sbuf, applied>>
vars == <<wire, lbuf, pc, mode, hGameMutex, recvbuf, timeouts, done, got, server, window>>

Init ==
  /\ wire = <<>> /\ greeting = <<>> /\ closed = FALSE
  /\ pc = "recv" /\ lbuf = <<>> /\ mode = -1
  /\ hGameMutex = "free" /\ recvbuf = <<>>
  /\ wpc = "idle" /\ sbuf = <<>>
  /\ timeouts = 0
  /\ sent = <<>> /\ done = 0 /\ got = <<>> /\ applied = <<>>

-----------------------------------------------------------------------------
(* The server *)

\* The greeting and the 'L' frame are one send(); a server without a free slot
\* says so and closes.
Greet(line) ==
  /\ greeting = <<>>
  /\ greeting' = line
  /\ wire' = wire \o line \o <<CR, LF>> \o (IF line = Full THEN <<>> ELSE Bytes(Limit))
  /\ sent' = IF line = Full THEN sent ELSE Append(sent, Limit)
  /\ closed' = (line = Full)
  /\ UNCHANGED <<pc, lbuf, mode, hGameMutex, recvbuf, timeouts, done, got, window>>

SendFrame(f) ==
  /\ ~closed
  /\ f \in FrameNo(Len(sent)) /\ Len(sent) <= MaxFrames
  /\ greeting # <<>>
  /\ wire' = wire \o Bytes(f)
  /\ sent' = Append(sent, f)
  /\ UNCHANGED <<greeting, closed, pc, lbuf, mode, hGameMutex, recvbuf, timeouts, done, got, window>>

\* The client is in the list before it is greeted (only in EarlySpec).
BroadcastEarly ==
  /\ greeting = <<>> /\ sent = <<>>
  /\ sent' = <<[kind |-> M, buf |-> <<1>>]>>
  /\ wire' = Bytes(sent'[1])
  /\ UNCHANGED <<greeting, closed, pc, lbuf, mode, hGameMutex, recvbuf, timeouts, done, got, window>>

CloseStream ==
  /\ greeting # <<>> /\ ~closed
  /\ closed' = TRUE
  /\ UNCHANGED <<wire, greeting, sent, pc, lbuf, mode, hGameMutex, recvbuf, timeouts, done, got, window>>

-----------------------------------------------------------------------------
(* RecvThread *)

\* strpbrk(s, "\r\n"): the first end of a line before a NUL, 0 for none.
LineEnd(s) ==
  LET ends == {i \in DOMAIN s : s[i] \in {CR, LF} /\ \A j \in 1 .. i : s[j] # NUL}
  IN  IF ends = {} THEN 0 ELSE CHOOSE i \in ends : \A j \in ends : i <= j

\* What comes after the line that ends at i and all the line ends that follow it.
AfterLine(s, i) ==
  LET n == CHOOSE k \in i .. Len(s) :
             /\ \A j \in i .. k : s[j] \in {CR, LF}
             /\ k = Len(s) \/ s[k + 1] \notin {CR, LF}
  IN  SubSeq(s, n + 1, Len(s))

Verdict(line) ==
  CASE line = Welcome -> "welcome"
    [] line \in {OtherVersion, Full} -> "refused"
    [] OTHER -> "bad"

\* The loop over the lines of s: what they mean and what is left in the buffer.
Lines[s \in Seq(0 .. 255)] ==
  LET i == LineEnd(s)
      verdict == Verdict(SubSeq(s, 1, i - 1))
      more == Lines[AfterLine(s, i)]
  IN  CASE i = 0 -> [verdict |-> "none", left |-> s]
        [] i > 0 /\ verdict # "welcome" -> [verdict |-> verdict, left |-> s]
        [] OTHER -> [more EXCEPT !.verdict = IF @ = "none" THEN "welcome" ELSE @]

\* recv() brings the first k bytes; none are left when the server has closed.
\* Before the greeting the lines are looked at, and what follows them stays in the
\* buffer until the next recv().
Recv(k) ==
  /\ pc = "recv"
  /\ k \in 1 .. Len(wire)
  /\ mode = -1 /\ ~SplitLineEnd /\ k < Len(wire) => ~(wire[k] = CR /\ wire[k + 1] = LF)
  /\ wire' = SubSeq(wire, k + 1, Len(wire))
  /\ LET filled == lbuf \o SubSeq(wire, 1, k)
         lines == Lines[filled]
     IN  IF mode = 0
         THEN pc' = "frames" /\ lbuf' = filled /\ UNCHANGED mode
         ELSE /\ lbuf' = lines.left
              /\ mode' = IF lines.verdict = "welcome" THEN 0 ELSE -1
              /\ pc' = IF lines.verdict \in {"none", "welcome"} THEN "recv" ELSE lines.verdict
  /\ UNCHANGED <<hGameMutex, recvbuf, timeouts, done, got, server, window>>

RecvEnds ==
  /\ pc = "recv" /\ wire = <<>> /\ closed
  /\ pc' = "ended"
  /\ UNCHANGED <<wire, lbuf, mode, hGameMutex, recvbuf, timeouts, done, got, server, window>>

FrameSize(s) == s[1] + 256 * s[2]

\* Mistake: off by one, the last byte of a frame must be followed by another.
WholeButLast(s) == Len(s) >= Word /\ FrameSize(s) + Word < Len(s)

\* The test of the frame loop; it fails when the size itself is not there yet,
\* whatever stale bytes stand in its place.
Whole(s) == Len(s) >= Word /\ FrameSize(s) + Word <= Len(s)

\* What the members of a frame say; they are read from the buffer, not the frame.
Parsed(s) ==
  [kind |-> s[3],
   buf |-> IF s[3] = L THEN SubSeq(s, 4, 5) ELSE SubSeq(s, 5, 4 + s[4])]

\* Mistake: the size integer itself is taken to be counted.
ConsumeSizeLess(s) == SubSeq(s, FrameSize(s) + 1, Len(s))

\* The next frame is moved to the front.
Consume(s) == SubSeq(s, FrameSize(s) + Word + 1, Len(s))

NoMoreFrames ==
  /\ pc = "frames" /\ ~Whole(lbuf)
  /\ pc' = "recv"
  /\ UNCHANGED <<wire, lbuf, mode, hGameMutex, recvbuf, timeouts, done, got, server, window>>

\* 'L' and 'M' frames need no mutex.
Interpret ==
  /\ pc = "frames" /\ Whole(lbuf) /\ Parsed(lbuf).kind \in {L, M}
  /\ got' = Append(got, Parsed(lbuf))
  /\ lbuf' = Consume(lbuf) /\ done' = done + 1
  /\ UNCHANGED <<wire, pc, mode, hGameMutex, recvbuf, timeouts, server, window>>

LockUpdate ==
  /\ pc = "frames" /\ Whole(lbuf) /\ Parsed(lbuf).kind = U
  /\ hGameMutex = "free"
  /\ hGameMutex' = "recv" /\ pc' = "update"
  /\ UNCHANGED <<wire, lbuf, mode, recvbuf, timeouts, done, got, server, window>>

\* Mistake: an empty update leaves without the mutex's release.
UpdateKeepsMutex ==
  /\ pc = "update"
  /\ recvbuf' = IF Parsed(lbuf).buf = <<>> THEN recvbuf ELSE Append(recvbuf, Parsed(lbuf).buf)
  /\ got' = Append(got, Parsed(lbuf))
  /\ lbuf' = Consume(lbuf) /\ done' = done + 1
  /\ hGameMutex' = IF Parsed(lbuf).buf = <<>> THEN "recv" ELSE "free"
  /\ pc' = "frames"
  /\ UNCHANGED <<wire, mode, timeouts, server, window>>

\* The buffer is queued, unless it is empty.
Update ==
  /\ pc = "update"
  /\ recvbuf' = IF Parsed(lbuf).buf = <<>> THEN recvbuf ELSE Append(recvbuf, Parsed(lbuf).buf)
  /\ got' = Append(got, Parsed(lbuf))
  /\ lbuf' = Consume(lbuf) /\ done' = done + 1
  /\ hGameMutex' = "free" /\ pc' = "frames"
  /\ UNCHANGED <<wire, mode, timeouts, server, window>>

\* Mistake: the frame that was given up stays in the buffer.
GiveUpKeeps ==
  /\ pc = "frames" /\ Whole(lbuf) /\ Parsed(lbuf).kind = U
  /\ hGameMutex = "window" /\ timeouts < MaxTimeouts
  /\ timeouts' = timeouts + 1
  /\ done' = done + 1
  /\ UNCHANGED <<wire, lbuf, pc, mode, hGameMutex, recvbuf, got, server, window>>

\* Ten seconds have passed: the update is given up.
GiveUp ==
  /\ pc = "frames" /\ Whole(lbuf) /\ Parsed(lbuf).kind = U
  /\ hGameMutex = "window" /\ timeouts < MaxTimeouts
  /\ timeouts' = timeouts + 1
  /\ lbuf' = Consume(lbuf) /\ done' = done + 1
  /\ UNCHANGED <<wire, pc, mode, hGameMutex, recvbuf, got, server, window>>

-----------------------------------------------------------------------------
(* The window loop *)

\* Mistake: the queue is read without the mutex, which is taken to pop only.
TakeUnlocked ==
  /\ wpc = "idle"
  /\ hGameMutex' = IF hGameMutex = "free" THEN "window" ELSE hGameMutex
  /\ wpc' = "taken"
  /\ sbuf' = IF recvbuf = <<>> THEN <<>> ELSE Head(recvbuf)
  /\ UNCHANGED <<wire, lbuf, pc, mode, recvbuf, timeouts, done, got, applied, server>>

\* It interprets the oldest buffer, if there is one; when it cannot get the mutex
\* in 100 ms it draws and comes back.
Take ==
  /\ wpc = "idle" /\ hGameMutex = "free"
  /\ hGameMutex' = "window" /\ wpc' = "taken"
  /\ sbuf' = IF recvbuf = <<>> THEN <<>> ELSE Head(recvbuf)
  /\ UNCHANGED <<wire, lbuf, pc, mode, recvbuf, timeouts, done, got, applied, server>>

\* The oldest buffer is popped if there is one now.
Pop ==
  /\ wpc = "taken"
  /\ applied' = IF sbuf = <<>> THEN applied ELSE Append(applied, sbuf)
  /\ recvbuf' = IF recvbuf = <<>> THEN recvbuf ELSE Tail(recvbuf)
  /\ hGameMutex' = "free" /\ wpc' = "idle" /\ sbuf' = <<>>
  /\ UNCHANGED <<wire, lbuf, pc, mode, timeouts, done, got, server>>

-----------------------------------------------------------------------------
Server ==
  \/ \E line \in {Welcome, OtherVersion, Full} : Greet(line)
  \/ \E f \in Frame : SendFrame(f)
  \/ CloseStream

RecvThread ==
  \/ \E k \in 1 .. Len(wire) : Recv(k)
  \/ RecvEnds \/ NoMoreFrames \/ Interpret \/ Update

Next == Server \/ RecvThread \/ LockUpdate \/ GiveUp \/ Take \/ Pop

\* Both threads go on.  hGameMutex is free while the window loop draws, so that
\* RecvThread gets it some time; it need not wait as long as ten seconds, and the
\* server need not send.
Fairness == WF_vars(RecvThread) /\ SF_vars(LockUpdate) /\ WF_vars(Take \/ Pop)

Spec == Init /\ [][Next]_vars /\ Fairness

\* The same with a server that may broadcast before it greets.
EarlySpec == Init /\ [][Next \/ BroadcastEarly]_vars /\ Fairness

-----------------------------------------------------------------------------
(* Properties *)

\* Every variable has its type; RecvThread owns hGameMutex just in its update.
TypeOK ==
  /\ wire \in Seq(0 .. 255) /\ lbuf \in Seq(0 .. 255)
  /\ greeting \in {<<>>, Welcome, OtherVersion, Full} /\ closed \in BOOLEAN
  /\ pc \in {"recv", "frames", "update", "refused", "bad", "ended"}
  /\ mode \in {-1, 0}
  /\ hGameMutex = "recv" <=> pc = "update"
  /\ hGameMutex = "window" <=> wpc = "taken"
  /\ recvbuf \in Seq({<<n>> : n \in 1 .. MaxFrames + 1})
  /\ wpc \in {"idle", "taken"}
  /\ timeouts \in 0 .. MaxTimeouts
  /\ done \in 0 .. Len(sent)

Channel == INSTANCE FrameChannel WITH Update <- {f \in Frame : f.kind = U}

\* However the bytes arrive, the frames come out whole, in order and once; only an
\* update may be given up ("all ::= greeting frame*", Server.cpp:187).
KeepsPromise == Channel!Spec

\* RecvThread never loses its place: what is in its buffer and on the way begins
\* with the greeting or at the beginning of the next frame (Client.cpp:93, 183).
InStep ==
  pc \in {"recv", "frames", "update"} =>
    lbuf \o wire =
      (IF mode = -1 /\ greeting # <<>> THEN greeting \o <<CR, LF>> ELSE <<>>)
      \o FlattenSeq([i \in 1 .. Len(sent) - done |-> Bytes(sent[done + i])])

Buffers(frames) ==
  FlattenSeq([i \in 1 .. Len(frames) |->
    IF frames[i].kind = U /\ frames[i].buf # <<>> THEN <<frames[i].buf>> ELSE <<>>])

\* The window loop interprets every buffer that was queued, in order and once: the
\* one it pops is the one it has read (gltestplus.cpp:1434).
AppliedInOrder ==
  applied \o recvbuf = Buffers(got) /\ (wpc = "taken" /\ sbuf # <<>> => sbuf = Head(recvbuf))

\* Everything has come with the greeting, in one recv(); it is looked at only when
\* more bytes come.
Stalled == pc = "recv" /\ mode = 0 /\ wire = <<>> /\ done = 0

Settled ==
  \/ done = Len(sent) /\ recvbuf = <<>> /\ wire = <<>>
  \/ Stalled
  \/ greeting \in {OtherVersion, Full} /\ pc = "refused"
  \/ closed /\ pc = "ended" /\ done = 0

\* When the server sends no more, the client has interpreted all of it in the end,
\* unless it was turned away, the server closed or nothing came after the greeting.
Settles == <>[]Settled
=============================================================================
