---------------------------- MODULE RemoteProofs ----------------------------
(* What RemoteCommand guarantees for any chunk, window, tries and lookups.   *)
EXTENDS RemoteCommand, SequenceTheorems, WellFoundedInduction, TLAPS

Bytes == {"x", "c1", "c2"}
Drain == {"select", "recv", "recv_stderr", "write", "check", "finish"}
NodeSteps == {"status", "read", "read_stderr", "close", "close_raising", "again"}
SftpSteps == {"open_sftp", "put"}

\* The command did not end well, or nothing of it is under way.
Broken == ExitStatus # 0 \/ (~chan.closed /\ \A s \in Streams : sent[s] = 0)

Typed ==
    /\ sent \in [Streams -> Nat] /\ seen \in [Streams -> Nat]
    /\ buf \in [Streams -> Seq(Bytes)]
    /\ all \in [Streams -> Seq(Bytes)] /\ shown \in [Streams -> Seq(Bytes)]
    /\ queue \in [Streams -> Seq(Seq(Bytes))]
    /\ chan \in [status : {"none", "exited"}, closed : BOOLEAN]
    /\ pc \in {"connect", "exec", "returned", "returned_error", "raised"} \cup Drain \cup NodeSteps \cup SftpSteps

\* Which client takes which steps, and how many tries it has left.
StepInv ==
    /\ pc \in Drain => client = "ssh"
    /\ pc \in NodeSteps => client = "node"
    /\ pc \in SftpSteps => client = "sftp"
    /\ pc = "exec" => client # "sftp"
    /\ pc = "again" => Methods[method] = "lookup"
    /\ pc = "returned_error" => client = "node" /\ Methods[method] = "lookup" /\ lookups > 1
    /\ pc # "raised" => tries > 0

\* What the remote side can have done by now.
RemoteInv ==
    /\ \A s \in Streams : seen[s] <= sent[s] /\ sent[s] <= Len(program[s])
    /\ chan.status = "exited" => \A s \in Streams : sent[s] = Len(program[s])
    /\ chan.closed => chan.status = "exited" \/ lost
    /\ pc \in {"connect", "exec"} => chan.status = "none" /\ \A s \in Streams : sent[s] = 0
    /\ pc = "connect" => ~chan.closed

\* Who holds a connection.
OpenInv ==
    /\ pc \in {"connect", "again", "returned", "returned_error"} => ~open
    /\ pc = "raised" /\ client = "node" => ~open
    /\ pc = "raised" /\ client = "sftp" /\ open => chan.closed

\* How far Node has read, and what it has learnt of the status by then.
NodeInv ==
    /\ pc \in {"close", "returned"} /\ client = "node" => program.status = 0 /\ all.out = program.out
    /\ pc \in {"close", "again"} => ExitStatus = 0
    /\ pc = "again" => ~LookupDone
    /\ pc \in {"read_stderr", "close_raising"} => ExitStatus # 0 /\ chan.closed
    /\ client = "node" /\ pc \notin {"close_raising", "returned_error", "raised"} => all.err = << >>
    /\ client = "node" /\ pc \in {"connect", "exec", "status", "read", "again"} => all.out = << >>
    /\ client = "node" => \A s \in Streams : seen[s] = 0

\* Why Node raises when its method asks nothing of the output, and why a lookup does; why a lookup
\* returns an error.
RaisedInv ==
    /\ pc = "raised" /\ client = "node" /\ Methods[method] \in {"plain", "text"} => Broken
    /\ pc = "raised" /\ client = "node" /\ Methods[method] = "lookup"
         => \/ lookups = 1 /\ Broken
            \/ lookups = MaxLookups /\ ExitStatus = 0 /\ ~LookupDone
    /\ pc = "returned_error" => Broken

\* What drain_ssh_channel has found ready, and what is left to be shown when a look at a stream
\* did not reach its end: one chunk more than the next write takes.
DrainInv ==
    client = "ssh" =>
        /\ pc \in {"recv", "recv_stderr", "write"} => \A s \in writable : queue[s] # << >>
        /\ pc = "recv" => \A s \in Streams : queue[s] # << >> => s \in writable
        /\ pc = "recv_stderr" => (queue["err"] # << >> => "err" \in writable)
        /\ \A s \in Streams :
               ~quiet /\ Len(all[s]) < seen[s] =>
                   /\ queue[s] # << >> \/ pc = "raised"
                   /\ s \in writable /\ (pc = "write" \/ (pc = "recv_stderr" /\ s = "out"))
                        => Len(queue[s]) > 1
        /\ pc \in {"finish", "returned"} => chan.closed /\ \A s \in Streams : queue[s] = << >>

\* With nobody to show the output to nothing is queued, and a look reads the first chunk if none
\* did before.
QuietInv ==
    quiet => \A s \in Streams : queue[s] = << >> /\ Len(all[s]) >= Least(Chunk, seen[s])

IInv == TypeOK /\ Typed /\ StepInv /\ RemoteInv /\ OpenInv /\ NodeInv /\ RaisedInv /\ DrainInv /\ QuietInv
-----------------------------------------------------------------------------
(* Induction, from the least-element principle of the library.               *)

LEMMA NatSetInduction ==
    ASSUME NEW S, 0 \in S, \A n \in Nat : n \in S => n + 1 \in S
    PROVE  \A n \in Nat : n \in S
<1> DEFINE R == OpToRel(<, Nat)
           T == Nat \ S
<1>1. \A i, j \in Nat : i < j => <<i, j>> \in R
  BY DEF OpToRel
<1>2. IsWellFoundedOn(R, Nat)
  BY NatLessThanWellFounded, Zenon
<1> HIDE DEF R
<1>3. SUFFICES ASSUME T # {} PROVE FALSE
  OBVIOUS
<1>4. PICK x \in T : \A y \in T : ~ (<<y, x>> \in R)
  BY <1>2, <1>3, WFMin, Zenon
<1>5. x \in Nat /\ x # 0 /\ x \notin S
  OBVIOUS
<1>6. x - 1 \in Nat /\ x - 1 < x /\ (x - 1) + 1 = x
  BY <1>5
<1>7. x - 1 \in S
  BY <1>1, <1>4, <1>5, <1>6
<1> QED  BY <1>5, <1>6, <1>7

-----------------------------------------------------------------------------
(* Chunks that are put together.                                             *)

\* f[i] is the first i chunks put together.
PutsTogether(f, chunks) ==
    /\ f[0] = << >>
    /\ \A i \in 1 .. Len(chunks) : f[i] = f[i - 1] \o chunks[i]

\* There is such a function for every sequence of chunks.
LEMMA PartsExist ==
    ASSUME NEW S, NEW chunks \in Seq(Seq(S))
    PROVE  \E f \in [0 .. Len(chunks) -> Seq(S)] : PutsTogether(f, chunks)
<1> DEFINE Upto(n) == \E f \in [0 .. n -> Seq(S)] :
                         f[0] = << >> /\ \A i \in 1 .. n : f[i] = f[i - 1] \o chunks[i]
           Good == {n \in Nat : n <= Len(chunks) => Upto(n)}
<1>1. Len(chunks) \in Nat /\ \A i \in 1 .. Len(chunks) : chunks[i] \in Seq(S)
  OBVIOUS
<1>2. Upto(0)
  <2> DEFINE f == [i \in 0 .. 0 |-> << >>]
  <2>1. f \in [0 .. 0 -> Seq(S)] /\ f[0] = << >> /\ \A i \in 1 .. 0 : f[i] = f[i - 1] \o chunks[i]
    OBVIOUS
  <2> QED  BY <2>1
<1>3. ASSUME NEW n \in Nat, n \in Good PROVE n + 1 \in Good
  <2>0. SUFFICES ASSUME n + 1 <= Len(chunks) PROVE Upto(n + 1)
    <3> HIDE DEF Upto
    <3> QED  OBVIOUS
  <2>1. n <= Len(chunks) /\ n + 1 \in 1 .. Len(chunks)
    BY <1>1, <2>0
  <2>2. PICK f \in [0 .. n -> Seq(S)] : f[0] = << >> /\ \A i \in 1 .. n : f[i] = f[i - 1] \o chunks[i]
    BY <1>3, <2>1
  <2> DEFINE g == [i \in 0 .. (n + 1) |-> IF i <= n THEN f[i] ELSE f[n] \o chunks[n + 1]]
  <2>3. f[n] \in Seq(S) /\ chunks[n + 1] \in Seq(S)
    BY <1>1, <2>1, <2>2
  <2>4. f[n] \o chunks[n + 1] \in Seq(S)
    BY <2>3
  <2>5. g \in [0 .. (n + 1) -> Seq(S)]
    BY <2>2, <2>4
  <2>6. g[0] = << >>
    BY <2>2
  <2>7. ASSUME NEW i \in 1 .. (n + 1) PROVE g[i] = g[i - 1] \o chunks[i]
    <3>1. i \in 0 .. (n + 1) /\ i - 1 \in 0 .. (n + 1) /\ i - 1 <= n /\ (i <= n \/ i = n + 1)
      OBVIOUS
    <3>2. g[i - 1] = f[i - 1]
      BY <3>1
    <3>3. CASE i <= n
      <4>1. i \in 1 .. n /\ g[i] = f[i]
        BY <3>1, <3>3
      <4>2. f[i] = f[i - 1] \o chunks[i]
        BY <2>2, <4>1
      <4> HIDE DEF g
      <4> QED  BY <3>2, <4>1, <4>2
    <3>4. CASE i = n + 1
      <4>1. g[i] = f[n] \o chunks[n + 1] /\ i - 1 = n
        BY <3>1, <3>4
      <4> HIDE DEF g
      <4> QED  BY <3>2, <3>4, <4>1
    <3> HIDE DEF g
    <3> QED  BY <3>1, <3>3, <3>4, Zenon
  <2> QED  BY <2>5, <2>6, <2>7
<1> HIDE DEF Upto
<1>4. \A n \in Nat : n \in Good
  BY <1>2, <1>3, NatSetInduction
<1>5. Upto(Len(chunks))
  BY <1>1, <1>4
<1> QED  BY <1>5 DEF Upto, PutsTogether

\* Whichever way it is put together, the whole is what Flat computes.
LEMMA FlatIsTheWhole ==
    ASSUME NEW S, NEW chunks \in Seq(Seq(S)), NEW g, PutsTogether(g, chunks)
    PROVE  Flat(chunks) = g[Len(chunks)]
<1> DEFINE Def(f) == [i \in 0 .. Len(chunks) |-> IF i = 0 THEN << >> ELSE f[i - 1] \o chunks[i]]
           F == CHOOSE f : f = Def(f)
           Good == {n \in Nat : n <= Len(chunks) => F[n] = g[n]}
<1>1. Len(chunks) \in Nat
  OBVIOUS
<1>2. \E f : f = Def(f)
  <2>1. PICK f \in [0 .. Len(chunks) -> Seq(S)] : PutsTogether(f, chunks)
    BY PartsExist
  <2>2. \A i \in 0 .. Len(chunks) : f[i] = IF i = 0 THEN << >> ELSE f[i - 1] \o chunks[i]
    <3> TAKE i \in 0 .. Len(chunks)
    <3>1. CASE i = 0
      BY <2>1, <3>1 DEF PutsTogether
    <3>2. CASE i # 0
      <4>1. i \in 1 .. Len(chunks)
        BY <1>1, <3>2
      <4> QED  BY <2>1, <3>2, <4>1 DEF PutsTogether
    <3> QED  BY <3>1, <3>2
  <2>3. f = Def(f)
    BY <2>2
  <2> QED  BY <2>3
<1>3. F = Def(F)
  BY <1>2
<1> HIDE DEF F
<1>4. F[0] = << >> /\ \A i \in 1 .. Len(chunks) : F[i] = F[i - 1] \o chunks[i]
  <2>1. ASSUME NEW i \in 0 .. Len(chunks)
        PROVE  F[i] = IF i = 0 THEN << >> ELSE F[i - 1] \o chunks[i]
    <3>1. Def(F)[i] = IF i = 0 THEN << >> ELSE F[i - 1] \o chunks[i]
      BY <2>1
    <3> HIDE DEF Def
    <3> QED  BY <1>3, <3>1
  <2>2. 0 \in 0 .. Len(chunks) /\ \A i \in 1 .. Len(chunks) : i \in 0 .. Len(chunks) /\ i # 0
    BY <1>1
  <2> QED  BY <2>1, <2>2
<1>5. ASSUME NEW n \in Nat, n \in Good PROVE n + 1 \in Good
  <2>0. SUFFICES ASSUME n + 1 <= Len(chunks) PROVE F[n + 1] = g[n + 1]
    OBVIOUS
  <2>1. n + 1 \in 1 .. Len(chunks) /\ (n + 1) - 1 = n /\ n <= Len(chunks)
    BY <1>1, <2>0
  <2>2. F[n] = g[n]
    BY <1>5, <2>1
  <2>3. F[n + 1] = F[(n + 1) - 1] \o chunks[n + 1]
    BY <1>4, <2>1
  <2>4. g[n + 1] = g[(n + 1) - 1] \o chunks[n + 1]
    BY <2>1 DEF PutsTogether
  <2> QED  BY <2>1, <2>2, <2>3, <2>4
<1>6. \A n \in Nat : n \in Good
  <2>1. 0 \in Good
    BY <1>4 DEF PutsTogether
  <2> QED  BY <1>5, <2>1, NatSetInduction
<1>7. F[Len(chunks)] = g[Len(chunks)]
  BY <1>1, <1>6
<1>8. Flat(chunks) = F[Len(chunks)]
  BY DEF Flat, F
<1> QED  BY <1>7, <1>8

LEMMA FlatIsSeq ==
    ASSUME NEW chunks \in Seq(Seq(Bytes))
    PROVE  Flat(chunks) \in Seq(Bytes)
<1>1. PICK f \in [0 .. Len(chunks) -> Seq(Bytes)] : PutsTogether(f, chunks)
  BY PartsExist
<1>2. Flat(chunks) = f[Len(chunks)]
  BY <1>1, FlatIsTheWhole
<1>3. Len(chunks) \in 0 .. Len(chunks)
  OBVIOUS
<1> QED  BY <1>2, <1>3

LEMMA FlatEmpty == Flat(<< >>) = << >>
<1>1. << >> \in Seq(Seq(Bytes)) /\ Len(<< >>) = 0
  OBVIOUS
<1>2. PICK f \in [0 .. Len(<< >>) -> Seq(Bytes)] : PutsTogether(f, << >>)
  BY <1>1, PartsExist
<1>3. Flat(<< >>) = f[0]
  BY <1>1, <1>2, FlatIsTheWhole
<1> QED  BY <1>2, <1>3 DEF PutsTogether

\* A chunk queued at the end comes after the others.
LEMMA FlatAppend ==
    ASSUME NEW chunks \in Seq(Seq(Bytes)), NEW c \in Seq(Bytes)
    PROVE  Flat(Append(chunks, c)) = Flat(chunks) \o c
<1> DEFINE longer == Append(chunks, c)
<1>1. longer \in Seq(Seq(Bytes)) /\ Len(longer) = Len(chunks) + 1 /\ longer[Len(chunks) + 1] = c
      /\ \A i \in 1 .. Len(chunks) : longer[i] = chunks[i]
  OBVIOUS
<1>2. Len(chunks) \in Nat
  OBVIOUS
<1> HIDE DEF longer
<1>3. PICK f \in [0 .. Len(longer) -> Seq(Bytes)] : PutsTogether(f, longer)
  BY <1>1, PartsExist
<1>4. Flat(longer) = f[Len(longer)]
  BY <1>1, <1>3, FlatIsTheWhole
<1>5. PutsTogether(f, chunks)
  <2>1. f[0] = << >>
    BY <1>3 DEF PutsTogether
  <2>2. ASSUME NEW i \in 1 .. Len(chunks) PROVE f[i] = f[i - 1] \o chunks[i]
    <3>1. i \in 1 .. Len(longer) /\ longer[i] = chunks[i]
      BY <1>1, <1>2
    <3>2. f[i] = f[i - 1] \o longer[i]
      BY <1>3, <3>1 DEF PutsTogether
    <3> QED  BY <3>1, <3>2
  <2> QED  BY <2>1, <2>2 DEF PutsTogether
<1>6. Flat(chunks) = f[Len(chunks)]
  BY <1>5, FlatIsTheWhole
<1>7. Len(chunks) + 1 \in 1 .. Len(longer) /\ (Len(chunks) + 1) - 1 = Len(chunks)
  BY <1>1, <1>2
<1>8. f[Len(chunks) + 1] = f[Len(chunks)] \o c
  BY <1>1, <1>3, <1>7 DEF PutsTogether
<1>9. Flat(longer) = Flat(chunks) \o c
  BY <1>1, <1>4, <1>6, <1>8
<1> QED  BY <1>9 DEF longer

\* The first chunk comes before the others.
LEMMA FlatHeadTail ==
    ASSUME NEW chunks \in Seq(Seq(Bytes)), chunks # << >>
    PROVE  Flat(chunks) = Head(chunks) \o Flat(Tail(chunks))
<1>0. \A a, b, c \in Seq(Bytes) : (a \o b) \o c = a \o (b \o c)
  BY ConcatAssociative
<1> DEFINE head == Head(chunks)
           tail == Tail(chunks)
<1>1. /\ tail \in Seq(Seq(Bytes)) /\ head \in Seq(Bytes) /\ head = chunks[1]
      /\ Len(chunks) \in Nat /\ Len(tail) = Len(chunks) - 1 /\ Len(chunks) >= 1
      /\ \A i \in 1 .. Len(tail) : tail[i] = chunks[i + 1]
      /\ \A i \in 1 .. Len(chunks) : chunks[i] \in Seq(Bytes)
  OBVIOUS
<1> HIDE DEF head, tail
<1>2. PICK f \in [0 .. Len(tail) -> Seq(Bytes)] : PutsTogether(f, tail)
  BY <1>1, PartsExist
<1>3. Flat(tail) = f[Len(tail)]
  BY <1>1, <1>2, FlatIsTheWhole
<1> DEFINE g == [i \in 0 .. Len(chunks) |-> IF i = 0 THEN << >> ELSE head \o f[i - 1]]
<1>4. g[0] = << >>
  BY <1>1
<1>5. ASSUME NEW i \in 1 .. Len(chunks) PROVE g[i] = g[i - 1] \o chunks[i]
  <2>1. i \in 0 .. Len(chunks) /\ i - 1 \in 0 .. Len(chunks) /\ i # 0
    BY <1>1
  <2>2. g[i] = head \o f[i - 1]
    BY <2>1
  <2>3. CASE i = 1
    <3>1. g[i - 1] = << >>
      BY <1>1, <2>3
    <3>2. f[i - 1] = << >>
      BY <1>2, <2>3 DEF PutsTogether
    <3> HIDE DEF g
    <3>3. g[i] = head
      BY <1>1, <2>2, <3>2
    <3>4. g[i - 1] \o chunks[i] = head
      BY <1>1, <2>3, <3>1
    <3> QED  BY <3>3, <3>4
  <2>4. CASE i # 1
    <3>1. i - 1 # 0 /\ i - 1 \in 1 .. Len(tail) /\ i - 2 \in 0 .. Len(tail) /\ (i - 1) - 1 = i - 2
          /\ (i - 1) + 1 = i
      BY <1>1, <2>4
    <3>2. g[i - 1] = head \o f[i - 2]
      BY <2>1, <3>1
    <3> HIDE DEF g
    <3>3. f[i - 1] = f[i - 2] \o tail[i - 1] /\ tail[i - 1] = chunks[i]
      BY <1>1, <1>2, <3>1 DEF PutsTogether
    <3>4. head \in Seq(Bytes) /\ f[i - 2] \in Seq(Bytes) /\ chunks[i] \in Seq(Bytes)
      BY <1>1, <1>2, <3>1
    <3>5. head \o (f[i - 2] \o chunks[i]) = (head \o f[i - 2]) \o chunks[i]
      BY <1>0, <3>4, Zenon
    <3> QED  BY <2>2, <3>2, <3>3, <3>5
  <2> QED  BY <2>3, <2>4
<1>6. g[Len(chunks)] = head \o f[Len(tail)]
  <2>1. Len(chunks) \in 0 .. Len(chunks) /\ Len(chunks) # 0 /\ Len(chunks) - 1 = Len(tail)
    BY <1>1
  <2>2. g[Len(chunks)] = head \o f[Len(chunks) - 1]
    BY <2>1
  <2> QED  BY <2>1, <2>2, Zenon
<1> HIDE DEF g
<1>7. PutsTogether(g, chunks)
  BY <1>4, <1>5 DEF PutsTogether
<1>8. Flat(chunks) = head \o Flat(tail)
  BY <1>3, <1>6, <1>7, FlatIsTheWhole
<1> QED  BY <1>8 DEF head, tail

-----------------------------------------------------------------------------
(* One look at a stream.                                                     *)

LEMMA TakeRest ==
    ASSUME NEW s \in Seq(Bytes)
    PROVE  /\ Take(s) \in Seq(Bytes) /\ Rest(s) \in Seq(Bytes)
           /\ Take(s) \o Rest(s) = s
           /\ Len(s) = Len(Take(s)) + Len(Rest(s))
           /\ s # << >> => Take(s) # << >>
           /\ Len(Rest(s)) = 0 \/ Len(Take(s)) = Chunk
           /\ s = << >> => Take(s) = << >> /\ Rest(s) = << >>
<1> DEFINE n == Least(Chunk, Len(s))
<1>1. n \in 0 .. Len(s) /\ (s # << >> => n > 0) /\ Len(s) \in Nat
  BY SizesAssumption DEF Least
<1> HIDE DEF n
<1>2. Take(s) = SubSeq(s, 1, n) /\ Rest(s) = SubSeq(s, n + 1, Len(s))
  BY DEF Take, Rest, n
<1>3. Take(s) \in Seq(Bytes) /\ Rest(s) \in Seq(Bytes) /\ Len(Take(s)) = n /\ Len(Rest(s)) = Len(s) - n
  BY <1>1, <1>2
<1>4. Take(s) \o Rest(s) = s
  <2>1. SubSeq(s, 1, n) \o SubSeq(s, n + 1, Len(s)) = SubSeq(s, 1, Len(s))
    <3>1. 1 \in 1 .. Len(s) + 1 /\ n \in 1 - 1 .. Len(s) /\ Len(s) \in n .. Len(s)
      BY <1>1
    <3> QED  BY <3>1, ConcatAdjacentSubSeq, Zenon
  <2> QED  BY <1>2, <2>1, SubSeqFull
<1>5. Len(Rest(s)) = 0 \/ Len(Take(s)) = Chunk
  BY <1>1, <1>3, SizesAssumption DEF n, Least
<1> QED  BY <1>1, <1>3, <1>4, <1>5

\* What has been written is a prefix of the output; one byte more is one byte more of it.
LEMMA Prefix ==
    ASSUME NEW p \in Seq(Bytes), NEW n \in 0 .. Len(p)
    PROVE  /\ SubSeq(p, 1, n) \in Seq(Bytes) /\ Len(SubSeq(p, 1, n)) = n
           /\ n = 0 => SubSeq(p, 1, n) = << >>
           /\ n = Len(p) => SubSeq(p, 1, n) = p
           /\ n < Len(p) => SubSeq(p, 1, n + 1) = Append(SubSeq(p, 1, n), p[n + 1])
<1>1. Len(p) \in Nat /\ n \in Nat
  OBVIOUS
<1>2. SubSeq(p, 1, n) \in Seq(Bytes) /\ Len(SubSeq(p, 1, n)) = n
  BY <1>1
<1>3. n = 0 => SubSeq(p, 1, n) = << >>
  BY <1>2
<1>4. n = Len(p) => SubSeq(p, 1, n) = p
  BY <1>1
<1>5. n < Len(p) => SubSeq(p, 1, n + 1) = Append(SubSeq(p, 1, n), p[n + 1])
  BY <1>1
<1> QED  BY <1>2, <1>3, <1>4, <1>5

LEMMA AppendToBoth ==
    \A a, b \in Seq(Bytes), x \in Bytes : a \o Append(b, x) = Append(a \o b, x)
<1> QED  OBVIOUS

LEMMA Associative ==
    \A a, b, c \in Seq(Bytes) : (a \o b) \o c = a \o (b \o c)
<1> QED  BY ConcatAssociative

LEMMA OutputIsBytes ==
    ASSUME NEW p \in Programs
    PROVE  \A s \in Streams : p[s] \in Seq(Bytes)
<1>1. Outputs \subseteq Seq(Bytes) /\ {<< >>, <<"x">>} \subseteq Seq(Bytes)
  BY DEF Outputs, Bytes
<1>2. p.out \in Outputs /\ p.err \in {<< >>, <<"x">>}
  BY DEF Programs
<1> QED  BY <1>1, <1>2 DEF Streams

-----------------------------------------------------------------------------
(* The invariant, action by action.                                          *)

LEMMA InitIInv == Init => IInv
<1> SUFFICES ASSUME Init PROVE IInv
  OBVIOUS
<1>1. \A s \in Streams : /\ all[s] = << >> /\ buf[s] = << >> /\ sent[s] = 0
                         /\ shown[s] = << >> /\ queue[s] = << >> /\ seen[s] = 0
  BY DEF Init
<1>2. program \in Programs /\ \A s \in Streams : program[s] \in Seq(Bytes)
  BY OutputIsBytes DEF Init
<1>3. TypeOK
  <2>1. /\ client \in {"ssh", "node", "sftp"} /\ method \in DOMAIN Methods
        /\ chan.status = "none" /\ chan.closed = FALSE /\ lost = FALSE /\ open = FALSE /\ writable = {}
    BY DEF Init, Methods
  <2>6. quiet \in BOOLEAN /\ (quiet => client = "ssh")
    BY DEF Init
  <2>2. tries \in 0 .. Tries /\ lookups \in 1 .. MaxLookups
    BY SizesAssumption DEF Init
  <2>3. window = Window - Len(buf.out) - Len(buf.err)
    <3>1. Len(buf.out) = 0 /\ Len(buf.err) = 0
      BY <1>1 DEF Streams
    <3>2. window = Window /\ Window \in Nat
      BY SizesAssumption DEF Init
    <3> QED  BY <3>1, <3>2
  <2>4. \A s \in Streams : SubSeq(program[s], 1, sent[s]) = << >>
    BY <1>1, <1>2
  <2>5. \A s \in Streams : all[s] \o buf[s] = SubSeq(program[s], 1, sent[s])
                           /\ all[s] = shown[s] \o Flat(queue[s])
    <3> TAKE s \in Streams
    <3>1. all[s] = << >> /\ buf[s] = << >> /\ shown[s] = << >> /\ queue[s] = << >>
      BY <1>1
    <3>2. Flat(queue[s]) = << >>
      BY <3>1, FlatEmpty
    <3>3. << >> \o << >> = << >>
      OBVIOUS
    <3> QED  BY <2>4, <3>1, <3>2, <3>3, Zenon
  <2> QED  BY <1>2, <2>1, <2>2, <2>3, <2>5, <2>6 DEF TypeOK
<1>4. Typed
  BY DEF Init, Typed, Streams
<1>5. StepInv /\ OpenInv /\ RaisedInv
  BY SizesAssumption DEF Init, StepInv, OpenInv, RaisedInv, Drain, NodeSteps, SftpSteps, remote, ExitStatus, LookupDone, Broken
<1>6. RemoteInv
  <2>1. \A s \in Streams : Len(program[s]) \in Nat
    BY <1>2
  <2> QED  BY <1>1, <2>1 DEF Init, RemoteInv
<1>7. NodeInv /\ DrainInv
  BY <1>1 DEF Init, NodeInv, DrainInv, Streams
<1>8. QuietInv
  <2>1. Least(Chunk, 0) = 0 /\ Len(<< >>) = 0
    BY SizesAssumption DEF Least
  <2> QED  BY <1>1, <2>1 DEF QuietInv
<1> QED  BY <1>3, <1>4, <1>5, <1>6, <1>7, <1>8 DEF IInv

\* What has been written is partly read, partly in the channel, and nowhere else.
LEMMA ReadAndUnread ==
    ASSUME IInv, NEW s \in Streams
    PROVE  /\ program[s] \in Seq(Bytes) /\ Len(program[s]) \in Nat /\ sent[s] \in 0 .. Len(program[s])
           /\ all[s] \in Seq(Bytes) /\ buf[s] \in Seq(Bytes) /\ shown[s] \in Seq(Bytes)
           /\ queue[s] \in Seq(Seq(Bytes)) /\ Flat(queue[s]) \in Seq(Bytes)
           /\ Len(all[s]) + Len(buf[s]) = sent[s]
           /\ sent[s] = Len(program[s]) => all[s] \o buf[s] = program[s]
           /\ sent[s] < Len(program[s])
                => /\ program[s][sent[s] + 1] \in Bytes
                   /\ all[s] \o Append(buf[s], program[s][sent[s] + 1]) = SubSeq(program[s], 1, sent[s] + 1)
<1>1. /\ program[s] \in Seq(Bytes) /\ Len(program[s]) \in Nat /\ sent[s] \in 0 .. Len(program[s])
      /\ all[s] \in Seq(Bytes) /\ buf[s] \in Seq(Bytes) /\ shown[s] \in Seq(Bytes)
      /\ queue[s] \in Seq(Seq(Bytes))
  <2>1. program[s] \in Seq(Bytes)
    BY OutputIsBytes DEF IInv, TypeOK
  <2> QED  BY <2>1 DEF IInv, Typed, RemoteInv
<1>2. all[s] \o buf[s] = SubSeq(program[s], 1, sent[s])
  BY DEF IInv, TypeOK
<1>3. Len(SubSeq(program[s], 1, sent[s])) = sent[s]
      /\ (sent[s] = Len(program[s]) => SubSeq(program[s], 1, sent[s]) = program[s])
  BY <1>1, Prefix
<1>4. Len(all[s] \o buf[s]) = Len(all[s]) + Len(buf[s])
  BY <1>1
<1>5. Flat(queue[s]) \in Seq(Bytes)
  BY <1>1, FlatIsSeq
<1>6. ASSUME sent[s] < Len(program[s])
      PROVE  /\ program[s][sent[s] + 1] \in Bytes
             /\ all[s] \o Append(buf[s], program[s][sent[s] + 1]) = SubSeq(program[s], 1, sent[s] + 1)
  <2>1. program[s][sent[s] + 1] \in Bytes
    BY <1>1, <1>6
  <2>2. all[s] \o Append(buf[s], program[s][sent[s] + 1]) = Append(all[s] \o buf[s], program[s][sent[s] + 1])
    BY <1>1, <2>1, AppendToBoth
  <2>3. SubSeq(program[s], 1, sent[s] + 1) = Append(SubSeq(program[s], 1, sent[s]), program[s][sent[s] + 1])
    BY <1>1, <1>6, Prefix
  <2> QED  BY <1>2, <2>1, <2>2, <2>3
<1> QED  BY <1>1, <1>2, <1>3, <1>4, <1>5, <1>6

LEMMA RemoteKeeps ==
    ASSUME IInv, Remote
    PROVE  IInv'
<1> USE DEF IInv
<1>1. ASSUME NEW s \in Streams, RemoteWrites(s) PROVE IInv'
  <2>1. \A t \in Streams : Len(program[t]) \in Nat /\ buf[t] \in Seq(Bytes) /\ Len(buf[t]) \in Nat
    BY ReadAndUnread DEF IInv, Typed
  <2>2. sent[s] < Len(program[s]) /\ window' = window - 1
    BY <1>1 DEF RemoteWrites
  <2>3. UNCHANGED <<program, chan, lost, client, method, quiet, pc, tries, lookups, open, all, queue, shown, writable, seen>>
    BY <1>1 DEF RemoteWrites, Remote
  <2>4. program[s][sent[s] + 1] \in Bytes
        /\ all[s] \o Append(buf[s], program[s][sent[s] + 1]) = SubSeq(program[s], 1, sent[s] + 1)
    BY <2>2, ReadAndUnread
  <2>5. sent' \in [Streams -> Nat] /\ sent'[s] = sent[s] + 1 /\ \A t \in Streams \ {s} : sent'[t] = sent[t]
    BY <1>1 DEF RemoteWrites, Typed
  <2>6. /\ buf' \in [Streams -> Seq(Bytes)] /\ buf'[s] = Append(buf[s], program[s][sent[s] + 1])
        /\ \A t \in Streams \ {s} : buf'[t] = buf[t]
    BY <1>1, <2>4 DEF RemoteWrites, Typed
  <2>7. Typed'
    BY <2>3, <2>5, <2>6 DEF Typed
  <2>8. TypeOK'
    <3>1. Len(buf'[s]) = Len(buf[s]) + 1
      BY <2>1, <2>6
    <3>2. window' = Window - Len(buf'["out"]) - Len(buf'["err"])
      <4>1. window = Window - Len(buf["out"]) - Len(buf["err"]) /\ Window \in Nat
        BY SizesAssumption DEF TypeOK
      <4>2. Len(buf["out"]) \in Nat /\ Len(buf["err"]) \in Nat
        BY <2>1 DEF Streams
      <4>3. CASE s = "out"
        <5>1. buf'["err"] = buf["err"]
          BY <2>6, <4>3 DEF Streams
        <5>2. Len(buf'["out"]) = Len(buf["out"]) + 1
          BY <3>1, <4>3
        <5>3. Len(buf'["err"]) = Len(buf["err"])
          BY <5>1
        <5> QED  BY <2>2, <4>1, <4>2, <5>2, <5>3
      <4>4. CASE s = "err"
        <5>1. buf'["out"] = buf["out"]
          BY <2>6, <4>4 DEF Streams
        <5>2. Len(buf'["err"]) = Len(buf["err"]) + 1
          BY <3>1, <4>4
        <5>3. Len(buf'["out"]) = Len(buf["out"])
          BY <5>1
        <5> QED  BY <2>2, <4>1, <4>2, <5>2, <5>3
      <4> QED  BY <4>3, <4>4 DEF Streams
    <3>3. \A t \in Streams : all'[t] \o buf'[t] = SubSeq(program'[t], 1, sent'[t])
      BY <2>3, <2>4, <2>5, <2>6 DEF TypeOK
    <3> QED  BY <2>3, <3>2, <3>3 DEF TypeOK
  <2>9. StepInv' /\ OpenInv' /\ NodeInv' /\ DrainInv' /\ QuietInv'
    BY <2>3 DEF StepInv, OpenInv, NodeInv, DrainInv, QuietInv, ExitStatus, remote, LookupDone, Broken
  <2>10. pc \notin {"connect", "exec"} /\ open
    BY <1>1 DEF RemoteWrites, OpenInv
  <2>11. RemoteInv'
    <3>1. \A t \in Streams : seen[t] <= sent'[t] /\ sent'[t] <= Len(program[t])
      <4> TAKE t \in Streams
      <4>1. seen[t] \in Nat /\ sent[t] \in Nat /\ Len(program[t]) \in Nat
            /\ seen[t] <= sent[t] /\ sent[t] <= Len(program[t])
        BY <2>1 DEF RemoteInv, Typed
      <4>2. sent'[t] = sent[t] \/ (t = s /\ sent'[t] = sent[t] + 1)
        BY <2>5
      <4> QED  BY <2>2, <4>1, <4>2
    <3>2. chan.status = "none"
      BY <2>2, <2>1 DEF RemoteInv, Typed
    <3> QED  BY <2>3, <2>10, <3>1, <3>2 DEF RemoteInv
  <2>12. RaisedInv'
    BY <2>3, <2>10 DEF RaisedInv, OpenInv, remote, ExitStatus, LookupDone, Broken
  <2> QED  BY <2>7, <2>8, <2>9, <2>11, <2>12
<1>2. CASE RemoteExits
  <2> USE <1>2 DEF RemoteExits, Remote
  <2>1. chan' \in [status : {"none", "exited"}, closed : BOOLEAN]
    BY DEF Typed
  <2>2. TypeOK' /\ Typed'
    BY <2>1 DEF TypeOK, Typed
  <2>3. StepInv' /\ OpenInv' /\ DrainInv' /\ QuietInv'
    BY DEF StepInv, OpenInv, DrainInv, QuietInv
  <2>4. RemoteInv'
    BY DEF RemoteInv, OpenInv, Typed
  <2>5. NodeInv' /\ RaisedInv'
    BY DEF NodeInv, RaisedInv, OpenInv, Typed, remote, ExitStatus, LookupDone, Broken
  <2> QED  BY <2>2, <2>3, <2>4, <2>5
<1>3. CASE ConnectionLost
  <2> USE <1>3 DEF ConnectionLost, Remote
  <2>1. chan' \in [status : {"none", "exited"}, closed : BOOLEAN]
    BY DEF Typed
  <2>2. TypeOK' /\ Typed'
    BY <2>1 DEF TypeOK, Typed
  <2>3. StepInv' /\ OpenInv' /\ DrainInv' /\ QuietInv'
    BY DEF StepInv, OpenInv, DrainInv, QuietInv
  <2>4. RemoteInv'
    BY DEF RemoteInv, OpenInv, Typed
  <2>5. NodeInv' /\ RaisedInv'
    BY DEF NodeInv, RaisedInv, OpenInv, Typed, remote, ExitStatus, LookupDone, Broken
  <2> QED  BY <2>2, <2>3, <2>4, <2>5
<1> QED  BY <1>1, <1>2, <1>3 DEF Remote

\* A step that moves no data keeps what is known of the data.
LEMMA DataKept ==
    ASSUME IInv, UNCHANGED <<remote, client, method, quiet, lookups, all, queue, shown, seen>>,
           tries' \in 0 .. Tries, open' \in BOOLEAN, writable' \subseteq Streams,
           pc' \in {"connect", "exec", "returned", "returned_error", "raised"} \cup Drain \cup NodeSteps \cup SftpSteps
    PROVE  /\ TypeOK' /\ Typed'
           /\ (pc' = "connect" => pc = "connect") /\ (pc' = "exec" => pc \in {"connect", "exec"}) => RemoteInv'
<1> USE DEF IInv, remote
<1>1. TypeOK'
  BY DEF TypeOK
<1>2. Typed'
  BY DEF Typed
<1>3. (pc' = "connect" => pc = "connect") /\ (pc' = "exec" => pc \in {"connect", "exec"}) => RemoteInv'
  BY DEF RemoteInv
<1> QED  BY <1>1, <1>2, <1>3

\* Where an exception leads: only a later query of a lookup does not raise it.
LEMMA RaisingIs ==
    /\ Raising \in {"raised", "returned_error"}
    /\ Raising = "returned_error" <=> client = "node" /\ Methods[method] = "lookup" /\ lookups > 1
BY DEF Raising

\* Connecting.
LEMMA ConnectKeeps == IInv /\ Connect => IInv'
<1> SUFFICES ASSUME IInv, Connect PROVE IInv'
  OBVIOUS
<1>1. /\ pc = "connect" /\ tries > 0 /\ tries \in 0 .. Tries /\ ~open /\ client \in {"ssh", "node", "sftp"}
      /\ chan.status = "none" /\ ~chan.closed /\ \A s \in Streams : sent[s] = 0 /\ seen[s] = 0
  BY DEF IInv, Connect, StepInv, OpenInv, TypeOK, RemoteInv, Typed
<1>2. UNCHANGED <<remote, client, method, quiet, lookups, all, queue, shown, writable, seen>>
  BY DEF Connect, Unread
<1>3. \/ open' = TRUE /\ tries' = tries /\ pc' = IF client = "sftp" THEN "open_sftp" ELSE "exec"
      \/ client = "ssh" /\ open' = open /\ tries' = tries - 1 /\ pc' = IF tries = 1 THEN "raised" ELSE "connect"
      \/ client # "ssh" /\ open' = open /\ tries' = tries /\ pc' = Raising
  BY DEF Connect, Goto
<1>4. tries' \in 0 .. Tries /\ (pc' # "raised" => tries' > 0)
  BY <1>1, <1>3, RaisingIs, SizesAssumption
<1>5. open' \in BOOLEAN /\ (pc' \in {"raised", "returned_error"} => ~open') /\ (pc' = "connect" => ~open')
  <2>1. open = FALSE
    BY <1>1 DEF IInv, TypeOK
  <2>2. CASE open' = TRUE /\ pc' = IF client = "sftp" THEN "open_sftp" ELSE "exec"
    BY <2>2
  <2>3. CASE open' = open
    BY <2>1, <2>3
  <2> QED  BY <1>3, <2>2, <2>3, RaisingIs
<1>6. TypeOK' /\ Typed' /\ RemoteInv'
  <2>1. writable' \subseteq Streams
    BY <1>2 DEF IInv, TypeOK
  <2>2. pc' \in {"connect", "exec", "returned", "returned_error", "raised"} \cup Drain \cup NodeSteps \cup SftpSteps
    BY <1>3, RaisingIs DEF SftpSteps
  <2>3. (pc' = "connect" => pc = "connect") /\ (pc' = "exec" => pc \in {"connect", "exec"})
    BY <1>1
  <2> QED  BY <1>2, <1>4, <1>5, <2>1, <2>2, <2>3, DataKept
<1>7. StepInv'
  BY <1>1, <1>2, <1>3, <1>4, RaisingIs DEF StepInv, Drain, NodeSteps, SftpSteps
<1>8. OpenInv'
  BY <1>3, <1>5, RaisingIs DEF OpenInv
<1>9. NodeInv' /\ RaisedInv'
  <2>1. NodeInv'
    BY <1>1, <1>2, <1>3, RaisingIs DEF IInv, NodeInv, remote
  <2>2. Broken'
    BY <1>1, <1>2 DEF Broken, remote
  <2>3. client = "node" /\ pc' = "raised" /\ Methods[method] = "lookup" => lookups = 1
    BY <1>1, <1>3, RaisingIs DEF IInv, TypeOK
  <2> QED  BY <1>2, <2>1, <2>2, <2>3 DEF RaisedInv
<1>10. DrainInv' /\ QuietInv'
  <2>1. \A s \in Streams : ~(Len(all'[s]) < seen'[s])
    <3>1. \A s \in Streams : Len(all[s]) \in Nat
      BY DEF IInv, Typed
    <3> QED  BY <1>1, <1>2, <3>1
  <2> QED  BY <1>2, <1>3, <2>1, RaisingIs DEF IInv, DrainInv, QuietInv
<1> QED  BY <1>6, <1>7, <1>8, <1>9, <1>10 DEF IInv

LEMMA ExecKeeps == IInv /\ Exec => IInv'
<1> SUFFICES ASSUME IInv, Exec PROVE IInv'
  OBVIOUS
<1>1. /\ pc = "exec" /\ tries > 0 /\ tries \in 0 .. Tries /\ client \in {"ssh", "node"}
      /\ chan.status = "none" /\ \A s \in Streams : sent[s] = 0 /\ seen[s] = 0
  BY DEF IInv, Exec, StepInv, TypeOK, RemoteInv, Typed
<1>2. UNCHANGED <<remote, client, method, quiet, lookups, tries, all, queue, shown, writable, seen>>
  BY DEF Exec, Unread
<1>3. \/ chan.closed /\ pc' = Raising /\ open' = (client = "ssh")
      \/ ~chan.closed /\ pc' = (IF client = "ssh" THEN "select" ELSE "status") /\ open' = open
  BY DEF Exec, Goto
<1>4. TypeOK' /\ Typed' /\ RemoteInv'
  <2>1. writable' \subseteq Streams /\ tries' \in 0 .. Tries /\ open' \in BOOLEAN
    BY <1>1, <1>2, <1>3 DEF IInv, TypeOK
  <2>2. pc' \in {"connect", "exec", "returned", "returned_error", "raised"} \cup Drain \cup NodeSteps \cup SftpSteps
    BY <1>3, RaisingIs DEF Drain, NodeSteps
  <2>3. pc' # "connect" /\ pc' # "exec"
    BY <1>3, RaisingIs
  <2> QED  BY <1>2, <2>1, <2>2, <2>3, DataKept
<1>5. StepInv'
  BY <1>1, <1>2, <1>3, RaisingIs DEF StepInv, Drain, NodeSteps, SftpSteps
<1>6. OpenInv' /\ NodeInv' /\ RaisedInv'
  <2>1. OpenInv'
    BY <1>1, <1>2, <1>3, RaisingIs DEF OpenInv
  <2>2. NodeInv'
    BY <1>1, <1>2, <1>3, RaisingIs DEF IInv, NodeInv, remote
  <2>3. RaisedInv'
    <3>1. ExitStatus' = -1
      BY <1>1, <1>2 DEF ExitStatus, remote
    <3>2. Broken'
      BY <3>1 DEF Broken
    <3>3. client = "node" /\ pc' = "raised" /\ Methods[method] = "lookup" => lookups = 1
      BY <1>3, RaisingIs DEF IInv, TypeOK
    <3> QED  BY <1>2, <3>2, <3>3 DEF RaisedInv
  <2> QED  BY <2>1, <2>2, <2>3
<1>7. DrainInv' /\ QuietInv'
  <2>1. \A s \in Streams : ~(Len(all'[s]) < seen'[s])
    <3>1. \A s \in Streams : Len(all[s]) \in Nat
      BY DEF IInv, Typed
    <3> QED  BY <1>1, <1>2, <3>1
  <2> QED  BY <1>2, <1>3, <2>1, RaisingIs DEF IInv, DrainInv, QuietInv
<1> QED  BY <1>4, <1>5, <1>6, <1>7 DEF IInv

\* The loop of drain_ssh_channel.
LEMMA SelectKeeps == IInv /\ Select => IInv'
<1> SUFFICES ASSUME IInv, Select PROVE IInv'
  OBVIOUS
<1>1. /\ pc = "select" /\ pc' = "recv" /\ writable' = {s \in Streams : queue[s] # << >>} /\ client = "ssh"
      /\ UNCHANGED <<remote, client, method, quiet, tries, lookups, open, all, queue, shown, seen>>
  BY DEF Select, Goto, IInv, StepInv, Drain
<1>2. TypeOK' /\ Typed' /\ RemoteInv'
  <2>1. writable' \subseteq Streams /\ tries' \in 0 .. Tries /\ open' \in BOOLEAN
    BY <1>1 DEF IInv, TypeOK
  <2>2. pc' \in {"connect", "exec", "returned", "returned_error", "raised"} \cup Drain \cup NodeSteps \cup SftpSteps
    BY <1>1 DEF Drain
  <2> QED  BY <1>1, <2>1, <2>2, DataKept
<1>3. StepInv' /\ OpenInv' /\ NodeInv' /\ RaisedInv'
  BY <1>1 DEF IInv, StepInv, OpenInv, NodeInv, RaisedInv, Drain, NodeSteps, SftpSteps, remote, ExitStatus, LookupDone, Broken
<1>4. DrainInv' /\ QuietInv'
  BY <1>1 DEF IInv, DrainInv, QuietInv
<1> QED  BY <1>2, <1>3, <1>4 DEF IInv

LEMMA CheckKeeps == IInv /\ Check => IInv'
<1> SUFFICES ASSUME IInv, Check PROVE IInv'
  OBVIOUS
<1>1. /\ pc = "check" /\ pc' = (IF Done THEN "finish" ELSE "select") /\ client = "ssh"
      /\ UNCHANGED <<remote, client, method, quiet, tries, lookups, open, all, queue, shown, writable, seen>>
  BY DEF Check, Goto, Unread, IInv, StepInv, Drain
<1>2. TypeOK' /\ Typed' /\ RemoteInv'
  <2>1. writable' \subseteq Streams /\ tries' \in 0 .. Tries /\ open' \in BOOLEAN
    BY <1>1 DEF IInv, TypeOK
  <2>2. pc' \in {"connect", "exec", "returned", "returned_error", "raised"} \cup Drain \cup NodeSteps \cup SftpSteps
    BY <1>1 DEF Drain
  <2> QED  BY <1>1, <2>1, <2>2, DataKept
<1>3. StepInv' /\ OpenInv' /\ NodeInv' /\ RaisedInv'
  BY <1>1 DEF IInv, StepInv, OpenInv, NodeInv, RaisedInv, Drain, NodeSteps, SftpSteps, remote, ExitStatus, LookupDone, Broken
<1>4. DrainInv' /\ QuietInv'
  BY <1>1 DEF IInv, DrainInv, QuietInv, Done, remote
<1> QED  BY <1>2, <1>3, <1>4 DEF IInv

LEMMA FinishKeeps == IInv /\ Finish => IInv'
<1> SUFFICES ASSUME IInv, Finish PROVE IInv'
  OBVIOUS
<1>1. /\ pc = "finish" /\ pc' = "returned" /\ open' = FALSE /\ client = "ssh"
      /\ UNCHANGED <<remote, client, method, quiet, tries, lookups, all, queue, shown, writable, seen>>
  BY DEF Finish, Goto, Unread, IInv, StepInv, Drain
<1>2. TypeOK' /\ Typed' /\ RemoteInv'
  <2>1. writable' \subseteq Streams /\ tries' \in 0 .. Tries
    BY <1>1 DEF IInv, TypeOK
  <2> QED  BY <1>1, <2>1, DataKept
<1>3. StepInv' /\ OpenInv' /\ NodeInv' /\ RaisedInv'
  BY <1>1 DEF IInv, StepInv, OpenInv, NodeInv, RaisedInv, Drain, NodeSteps, SftpSteps, remote, ExitStatus, LookupDone, Broken
<1>4. DrainInv' /\ QuietInv'
  BY <1>1 DEF IInv, DrainInv, QuietInv, remote
<1> QED  BY <1>2, <1>3, <1>4 DEF IInv

\* The steps of Node and of sftp_put that read nothing.
LEMMA AwaitStatusKeeps == IInv /\ AwaitStatus => IInv'
<1> SUFFICES ASSUME IInv, AwaitStatus PROVE IInv'
  OBVIOUS
<1>1. /\ pc = "status" /\ pc' = "read" /\ client = "node"
      /\ UNCHANGED <<remote, client, method, quiet, tries, lookups, open, all, queue, shown, writable, seen>>
  BY DEF AwaitStatus, Goto, Unread, IInv, StepInv, NodeSteps
<1>2. TypeOK' /\ Typed' /\ RemoteInv'
  <2>1. writable' \subseteq Streams /\ tries' \in 0 .. Tries /\ open' \in BOOLEAN
    BY <1>1 DEF IInv, TypeOK
  <2>2. pc' \in {"connect", "exec", "returned", "returned_error", "raised"} \cup Drain \cup NodeSteps \cup SftpSteps
    BY <1>1 DEF NodeSteps
  <2> QED  BY <1>1, <2>1, <2>2, DataKept
<1>3. StepInv' /\ OpenInv' /\ NodeInv' /\ RaisedInv' /\ DrainInv' /\ QuietInv'
  BY <1>1 DEF IInv, StepInv, OpenInv, NodeInv, RaisedInv, DrainInv, QuietInv, Drain, NodeSteps, SftpSteps, remote, ExitStatus, LookupDone, Broken
<1> QED  BY <1>2, <1>3 DEF IInv

LEMMA CloseKeeps == IInv /\ Close => IInv'
<1> SUFFICES ASSUME IInv, Close PROVE IInv'
  OBVIOUS
<1>1. /\ pc \in {"close", "close_raising"} /\ pc' = Outcome /\ open' = FALSE /\ client = "node"
      /\ UNCHANGED <<remote, client, method, quiet, tries, lookups, all, queue, shown, writable, seen>>
  BY DEF Close, NodeClose, Goto, Unread, IInv, StepInv, NodeSteps
<1>2. \/ pc = "close_raising" /\ pc' = Raising
      \/ pc = "close" /\ pc' = "raised" /\ Methods[method] = "route"
      \/ pc = "close" /\ pc' = "again" /\ Methods[method] = "lookup" /\ all.out = << >>
      \/ pc = "close" /\ pc' = "returned"
  BY <1>1 DEF Outcome, LookupDone
<1>3. TypeOK' /\ Typed' /\ RemoteInv'
  <2>1. writable' \subseteq Streams /\ tries' \in 0 .. Tries
    BY <1>1 DEF IInv, TypeOK
  <2>2. pc' \in {"connect", "exec", "returned", "returned_error", "raised"} \cup Drain \cup NodeSteps \cup SftpSteps
    BY <1>2, RaisingIs DEF NodeSteps
  <2>3. pc' # "connect" /\ pc' # "exec"
    BY <1>2, RaisingIs
  <2> QED  BY <1>1, <2>1, <2>2, <2>3, DataKept
<1>4. StepInv' /\ OpenInv' /\ DrainInv' /\ QuietInv'
  BY <1>1, <1>2, RaisingIs DEF IInv, StepInv, OpenInv, DrainInv, QuietInv, TypeOK, Drain, NodeSteps, SftpSteps
<1>5. NodeInv'
  BY <1>1, <1>2, RaisingIs DEF IInv, NodeInv, remote, ExitStatus, LookupDone
<1>6. RaisedInv'
  <2>1. CASE pc = "close_raising"
    <3>1. Broken'
      BY <1>1, <2>1 DEF IInv, NodeInv, ExitStatus, Broken, remote
    <3>2. client = "node" /\ pc' = "raised" /\ Methods[method] = "lookup" => lookups = 1
      BY <1>2, <2>1, RaisingIs DEF IInv, TypeOK
    <3> QED  BY <1>1, <3>1, <3>2 DEF RaisedInv
  <2>2. CASE pc = "close"
    BY <1>1, <1>2, <2>2 DEF RaisedInv, remote, ExitStatus, LookupDone, Broken
  <2> QED  BY <1>1, <2>1, <2>2
<1> QED  BY <1>3, <1>4, <1>5, <1>6 DEF IInv

LEMMA SftpKeeps == IInv /\ (OpenSftp \/ Put) => IInv'
<1> SUFFICES ASSUME IInv, OpenSftp \/ Put PROVE IInv'
  OBVIOUS
<1>1. /\ pc \in SftpSteps /\ client = "sftp"
      /\ UNCHANGED <<remote, client, method, quiet, tries, lookups, all, queue, shown, writable, seen>>
  BY DEF OpenSftp, Put, Unread, IInv, StepInv, SftpSteps
<1>2. \/ pc' = "put" /\ open' = open
      \/ pc' = "raised" /\ chan.closed /\ open' \in {open, FALSE}
      \/ pc' = "returned" /\ open' = FALSE
  BY DEF OpenSftp, Put, Goto
<1>3. TypeOK' /\ Typed' /\ RemoteInv'
  <2>1. writable' \subseteq Streams /\ tries' \in 0 .. Tries /\ open' \in BOOLEAN
    BY <1>1, <1>2 DEF IInv, TypeOK
  <2>2. pc' \in {"connect", "exec", "returned", "returned_error", "raised"} \cup Drain \cup NodeSteps \cup SftpSteps
    BY <1>2 DEF SftpSteps
  <2> QED  BY <1>1, <1>2, <2>1, <2>2, DataKept
<1>4. StepInv' /\ OpenInv' /\ NodeInv' /\ RaisedInv' /\ DrainInv' /\ QuietInv'
  BY <1>1, <1>2 DEF IInv, StepInv, OpenInv, NodeInv, RaisedInv, DrainInv, QuietInv, Drain, NodeSteps, SftpSteps, remote, ExitStatus, LookupDone, Broken
<1> QED  BY <1>3, <1>4 DEF IInv

\* A look that takes all there is, or a whole chunk, leaves the first chunk read.
LEMMA ReadsEnough ==
    \A a, t, u \in Nat : u = 0 \/ t = Chunk => a + t >= Least(Chunk, a + (t + u))
BY SizesAssumption DEF Least

\* A look at stream s: what it takes moves from the channel to the chunks to be shown.
LEMMA RecvFromKeeps ==
    ASSUME IInv, NEW s \in Streams, NEW next, RecvFrom(s, next)
    PROVE  /\ all' \in [Streams -> Seq(Bytes)] /\ buf' \in [Streams -> Seq(Bytes)]
           /\ queue' \in [Streams -> Seq(Seq(Bytes))] /\ seen' \in [Streams -> Nat]
           /\ \A t \in Streams \ {s} : /\ all'[t] = all[t] /\ buf'[t] = buf[t]
                                      /\ queue'[t] = queue[t] /\ seen'[t] = seen[t]
           /\ all'[s] \o buf'[s] = all[s] \o buf[s]
           /\ ~quiet /\ all[s] = shown[s] \o Flat(queue[s]) => all'[s] = shown[s] \o Flat(queue'[s])
           /\ window' = Window - Len(buf'.out) - Len(buf'.err)
           /\ seen'[s] = sent[s]
           /\ ~quiet /\ Len(all'[s]) < sent[s] => Len(queue'[s]) = Len(queue[s]) + 1
           /\ quiet => queue' = queue /\ Len(all'[s]) >= Least(Chunk, sent[s])
           /\ queue[s] # << >> => queue'[s] # << >>
<1>1. /\ all[s] \in Seq(Bytes) /\ buf[s] \in Seq(Bytes) /\ shown[s] \in Seq(Bytes)
      /\ queue[s] \in Seq(Seq(Bytes)) /\ Flat(queue[s]) \in Seq(Bytes)
      /\ Len(all[s]) + Len(buf[s]) = sent[s]
  BY ReadAndUnread
<1>2. /\ Take(buf[s]) \in Seq(Bytes) /\ Rest(buf[s]) \in Seq(Bytes)
      /\ Take(buf[s]) \o Rest(buf[s]) = buf[s]
      /\ Len(buf[s]) = Len(Take(buf[s])) + Len(Rest(buf[s]))
      /\ buf[s] = << >> => Take(buf[s]) = << >> /\ Rest(buf[s]) = << >>
  BY <1>1, TakeRest
<1>3. all' \in [Streams -> Seq(Bytes)] /\ all'[s] = all[s] \o Take(buf[s])
      /\ \A t \in Streams \ {s} : all'[t] = all[t]
  <2>1. all' = [all EXCEPT ![s] = all[s] \o Take(buf[s])] /\ all \in [Streams -> Seq(Bytes)]
    BY DEF RecvFrom, IInv, Typed
  <2>2. all[s] \o Take(buf[s]) \in Seq(Bytes)
    BY <1>1, <1>2
  <2> QED  BY <2>1, <2>2
<1>4. buf' \in [Streams -> Seq(Bytes)] /\ buf'[s] = Rest(buf[s])
      /\ \A t \in Streams \ {s} : buf'[t] = buf[t]
  <2>1. buf' = [buf EXCEPT ![s] = Rest(buf[s])] /\ buf \in [Streams -> Seq(Bytes)]
    BY DEF RecvFrom, IInv, Typed
  <2> QED  BY <1>2, <2>1
<1>5. /\ queue' \in [Streams -> Seq(Seq(Bytes))]
      /\ \A t \in Streams \ {s} : queue'[t] = queue[t]
      /\ queue'[s] = IF buf[s] = << >> \/ quiet THEN queue[s] ELSE Append(queue[s], Take(buf[s]))
  <2>1. queue' = (IF buf[s] = << >> \/ quiet THEN queue ELSE [queue EXCEPT ![s] = Append(queue[s], Take(buf[s]))])
        /\ queue \in [Streams -> Seq(Seq(Bytes))]
    BY DEF RecvFrom, Queued, IInv, Typed
  <2>2. Append(queue[s], Take(buf[s])) \in Seq(Seq(Bytes))
    BY <1>1, <1>2
  <2> QED  BY <2>1, <2>2
<1>6. seen' \in [Streams -> Nat] /\ seen'[s] = sent[s] /\ \A t \in Streams \ {s} : seen'[t] = seen[t]
  BY DEF RecvFrom, IInv, Typed
<1>7. all'[s] \o buf'[s] = all[s] \o buf[s]
  <2>1. (all[s] \o Take(buf[s])) \o Rest(buf[s]) = all[s] \o (Take(buf[s]) \o Rest(buf[s]))
    BY <1>1, <1>2, Associative
  <2> QED  BY <1>2, <1>3, <1>4, <2>1
<1>8. ASSUME ~quiet, all[s] = shown[s] \o Flat(queue[s]) PROVE all'[s] = shown[s] \o Flat(queue'[s])
  <2>1. CASE buf[s] = << >>
    <3>1. all[s] \o << >> = all[s]
      BY <1>1
    <3>2. all'[s] = all[s] /\ queue'[s] = queue[s]
      <4>1. all'[s] = all[s]
        BY <1>2, <1>3, <2>1, <3>1
      <4>2. queue'[s] = queue[s]
        BY <1>5, <2>1, Zenon
      <4> QED  BY <4>1, <4>2
    <3> QED  BY <1>8, <3>2
  <2>2. CASE buf[s] # << >>
    <3>1. Flat(queue'[s]) = Flat(queue[s]) \o Take(buf[s])
      <4>1. queue'[s] = Append(queue[s], Take(buf[s]))
        BY <1>5, <1>8, <2>2, Zenon
      <4>2. Flat(Append(queue[s], Take(buf[s]))) = Flat(queue[s]) \o Take(buf[s])
        BY <1>1, <1>2, FlatAppend
      <4> QED  BY <4>1, <4>2, Zenon
    <3>2. (shown[s] \o Flat(queue[s])) \o Take(buf[s]) = shown[s] \o (Flat(queue[s]) \o Take(buf[s]))
      BY <1>1, <1>2, Associative
    <3> QED  BY <1>3, <1>8, <3>1, <3>2
  <2> QED  BY <2>1, <2>2
<1>9. window' = Window - Len(buf'["out"]) - Len(buf'["err"])
  <2>1. window' = window + Len(Take(buf[s]))
    BY DEF RecvFrom
  <2>2. window = Window - Len(buf["out"]) - Len(buf["err"]) /\ Window \in Nat
    BY SizesAssumption DEF IInv, TypeOK
  <2>3. Len(buf["out"]) \in Nat /\ Len(buf["err"]) \in Nat /\ Len(Take(buf[s])) \in Nat
        /\ Len(buf'[s]) \in Nat /\ Len(buf[s]) = Len(Take(buf[s])) + Len(buf'[s])
    BY <1>2, <1>4 DEF IInv, Typed, Streams
  <2>4. CASE s = "out"
    <3>1. Len(buf'["err"]) = Len(buf["err"])
      BY <1>4, <2>4 DEF Streams
    <3>2. Len(buf["out"]) = Len(Take(buf[s])) + Len(buf'["out"]) /\ Len(buf'["out"]) \in Nat
      BY <2>3, <2>4
    <3> QED  BY <2>1, <2>2, <2>3, <3>1, <3>2
  <2>5. CASE s = "err"
    <3>1. Len(buf'["out"]) = Len(buf["out"])
      BY <1>4, <2>5 DEF Streams
    <3>2. Len(buf["err"]) = Len(Take(buf[s])) + Len(buf'["err"]) /\ Len(buf'["err"]) \in Nat
      BY <2>3, <2>5
    <3> QED  BY <2>1, <2>2, <2>3, <3>1, <3>2
  <2> QED  BY <2>4, <2>5 DEF Streams
<1>10. ~quiet /\ Len(all'[s]) < sent[s] => Len(queue'[s]) = Len(queue[s]) + 1
  <2>1. Len(all'[s]) = Len(all[s]) + Len(Take(buf[s])) /\ Len(all[s]) \in Nat /\ Len(Take(buf[s])) \in Nat
    BY <1>1, <1>2, <1>3
  <2>2. CASE buf[s] = << >>
    <3>1. Len(buf[s]) = 0
      BY <2>2
    <3>2. Len(all[s]) = sent[s]
      BY <1>1, <2>1, <3>1
    <3> QED  BY <2>1, <3>2
  <2>3. CASE buf[s] # << >>
    <3>1. ~quiet => queue'[s] = Append(queue[s], Take(buf[s]))
      BY <1>5, <2>3, Zenon
    <3>2. Len(Append(queue[s], Take(buf[s]))) = Len(queue[s]) + 1
      BY <1>1, <1>2
    <3> QED  BY <3>1, <3>2
  <2> QED  BY <2>2, <2>3
<1>11. queue[s] # << >> => queue'[s] # << >>
  <2>1. Append(queue[s], Take(buf[s])) # << >>
    <3>1. Len(Append(queue[s], Take(buf[s]))) = Len(queue[s]) + 1 /\ Len(queue[s]) \in Nat
      BY <1>1, <1>2
    <3>2. Len(<< >>) = 0
      OBVIOUS
    <3>3. Len(Append(queue[s], Take(buf[s]))) # 0
      BY <3>1
    <3> QED  BY <3>2, <3>3, Zenon
  <2> QED  BY <1>5, <2>1, Zenon
<1>12. ASSUME quiet PROVE queue' = queue /\ Len(all'[s]) >= Least(Chunk, sent[s])
  <2>1. queue' = queue
    <3>1. queue' = (IF buf[s] = << >> \/ quiet THEN queue ELSE [queue EXCEPT ![s] = Append(queue[s], Take(buf[s]))])
      BY DEF RecvFrom, Queued
    <3> QED  BY <1>12, <3>1, Zenon
  <2>2. Len(all[s]) \in Nat /\ Len(Take(buf[s])) \in Nat /\ Len(Rest(buf[s])) \in Nat
    BY <1>1, <1>2
  <2>3. Len(Rest(buf[s])) = 0 \/ Len(Take(buf[s])) = Chunk
    BY <1>1, TakeRest
  <2>4. Len(all[s]) + Len(Take(buf[s])) >= Least(Chunk, Len(all[s]) + (Len(Take(buf[s])) + Len(Rest(buf[s]))))
    BY <2>2, <2>3, ReadsEnough
  <2>5. Len(all'[s]) = Len(all[s]) + Len(Take(buf[s]))
    BY <1>1, <1>2, <1>3
  <2>6. sent[s] = Len(all[s]) + (Len(Take(buf[s])) + Len(Rest(buf[s])))
    BY <1>1, <1>2, Zenon
  <2> QED  BY <2>1, <2>4, <2>5, <2>6, Zenon
<1> QED  BY <1>3, <1>4, <1>5, <1>6, <1>7, <1>8, <1>9, <1>10, <1>11, <1>12

\* Both looks of a round, at stream s.
LEMMA RecvKeeps == IInv /\ (Recv \/ RecvStderr) => IInv'
<1> SUFFICES ASSUME IInv,
                    NEW s \in Streams, NEW next, RecvFrom(s, next),
                    \/ pc = "recv" /\ s = "out" /\ next = "recv_stderr"
                    \/ pc = "recv_stderr" /\ s = "err" /\ next = "write"
             PROVE  IInv'
  BY DEF Recv, RecvStderr, Streams
<1>1. /\ pc \in {"recv", "recv_stderr"} /\ pc' = next /\ next \in {"recv_stderr", "write"} /\ client = "ssh"
      /\ UNCHANGED <<client, method, quiet, program, sent, chan, lost, tries, lookups, open, shown, writable>>
  BY DEF RecvFrom, Goto, IInv, StepInv, Drain
<1>2. TypeOK'
  <2>1. window' = Window - Len(buf'.out) - Len(buf'.err)
    BY RecvFromKeeps
  <2>2. ASSUME NEW t \in Streams
        PROVE  all'[t] \o buf'[t] = SubSeq(program[t], 1, sent[t])
               /\ (~quiet => all'[t] = shown[t] \o Flat(queue'[t]))
    <3>1. all[t] \o buf[t] = SubSeq(program[t], 1, sent[t])
          /\ (~quiet => all[t] = shown[t] \o Flat(queue[t]))
      BY <1>1 DEF IInv, TypeOK
    <3>2. CASE t = s
      BY <3>1, <3>2, RecvFromKeeps
    <3>3. CASE t # s
      <4>1. all'[t] = all[t] /\ buf'[t] = buf[t] /\ queue'[t] = queue[t]
        BY <3>3, RecvFromKeeps
      <4> QED  BY <3>1, <4>1
    <3> QED  BY <3>2, <3>3
  <2> QED  BY <1>1, <2>1, <2>2 DEF IInv, TypeOK
<1>3. Typed'
  <2>1. /\ all' \in [Streams -> Seq(Bytes)] /\ buf' \in [Streams -> Seq(Bytes)]
        /\ queue' \in [Streams -> Seq(Seq(Bytes))] /\ seen' \in [Streams -> Nat]
    BY RecvFromKeeps
  <2> QED  BY <1>1, <2>1 DEF IInv, Typed, Drain
<1>4. StepInv' /\ OpenInv' /\ NodeInv' /\ RaisedInv'
  BY <1>1 DEF IInv, StepInv, OpenInv, NodeInv, RaisedInv, Drain, NodeSteps, SftpSteps, remote, ExitStatus, LookupDone, Broken
<1>5. RemoteInv'
  <2>1. \A t \in Streams : seen'[t] <= sent[t]
    <3> TAKE t \in Streams
    <3>1. seen[t] <= sent[t] /\ sent[t] \in Nat
      BY DEF IInv, RemoteInv, Typed
    <3>2. seen'[t] = IF t = s THEN sent[t] ELSE seen[t]
      BY RecvFromKeeps
    <3> QED  BY <3>1, <3>2
  <2> QED  BY <1>1, <2>1 DEF IInv, RemoteInv
<1>6. DrainInv' /\ QuietInv'
  <2>1. ASSUME NEW t \in Streams, queue[t] # << >> PROVE queue'[t] # << >>
    <3>1. CASE t = s
      BY <2>1, <3>1, RecvFromKeeps
    <3>2. CASE t # s
      <4>1. queue'[t] = queue[t]
        BY <3>2, RecvFromKeeps
      <4> QED  BY <2>1, <4>1
    <3> QED  BY <3>1, <3>2
  <2>2. \A t \in writable : t \in Streams /\ queue[t] # << >>
    BY <1>1 DEF IInv, DrainInv, QuietInv, TypeOK
  <2>3. pc' = "recv_stderr" => (queue'["err"] # << >> => "err" \in writable)
    <3>1. pc' = "recv_stderr" => pc = "recv" /\ s = "out" /\ queue'["err"] = queue["err"]
      BY <1>1, RecvFromKeeps DEF Streams
    <3> QED  BY <1>1, <3>1 DEF IInv, DrainInv, QuietInv, Streams
  <2>4. ASSUME NEW t \in Streams, ~quiet, Len(all'[t]) < seen'[t]
        PROVE  /\ queue'[t] # << >>
               /\ t \in writable /\ (pc' = "write" \/ (pc' = "recv_stderr" /\ t = "out")) => Len(queue'[t]) > 1
    <3>1. CASE t = s
      <4>1. Len(queue'[s]) = Len(queue[s]) + 1 /\ queue[s] \in Seq(Seq(Bytes)) /\ Len(queue[s]) \in Nat
        <5>1. queue[s] \in Seq(Seq(Bytes)) /\ Len(queue[s]) \in Nat
          BY DEF IInv, Typed
        <5>2. seen'[s] = sent[s] /\ (~quiet /\ Len(all'[s]) < sent[s] => Len(queue'[s]) = Len(queue[s]) + 1)
          BY RecvFromKeeps
        <5> QED  BY <2>4, <3>1, <5>1, <5>2
      <4>2. s \in writable => Len(queue[s]) > 0
        <5>1. s \in writable => queue[s] # << >>
          BY <2>2
        <5>2. queue[s] # << >> => Len(queue[s]) > 0
          BY <4>1
        <5> QED  BY <5>1, <5>2
      <4>3. queue'[s] # << >>
        <5>1. Len(<< >>) = 0
          OBVIOUS
        <5>2. Len(queue'[s]) # 0
          BY <4>1
        <5> QED  BY <5>1, <5>2, Zenon
      <4> QED  BY <3>1, <4>1, <4>2, <4>3
    <3>2. CASE t # s
      <4>1. all'[t] = all[t] /\ queue'[t] = queue[t] /\ seen'[t] = seen[t]
        BY <3>2, RecvFromKeeps
      <4>2. Len(all[t]) < seen[t]
        BY <2>4, <4>1
      <4>3. queue[t] # << >>
            /\ (t \in writable /\ pc = "recv_stderr" /\ t = "out" => Len(queue[t]) > 1)
        BY <1>1, <2>4, <4>2 DEF IInv, DrainInv
      <4>4. pc' = "write" => pc = "recv_stderr" /\ t = "out"
        BY <1>1, <3>2 DEF Streams
      <4>5. pc' = "recv_stderr" => t # "out"
        BY <1>1, <3>2
      <4> QED  BY <4>1, <4>3, <4>4, <4>5
    <3> QED  BY <3>1, <3>2
  <2>5. \A t \in writable' : queue'[t] # << >>
    BY <1>1, <2>1, <2>2
  <2>6. ASSUME quiet, NEW t \in Streams PROVE queue'[t] = << >> /\ Len(all'[t]) >= Least(Chunk, seen'[t])
    <3>1. queue[t] = << >> /\ Len(all[t]) >= Least(Chunk, seen[t])
      BY <2>6 DEF IInv, QuietInv
    <3>2. queue'[t] = << >>
      BY <2>6, <3>1, RecvFromKeeps
    <3>3. CASE t = s
      BY <2>6, <3>2, <3>3, RecvFromKeeps
    <3>4. CASE t # s
      <4>1. all'[t] = all[t] /\ seen'[t] = seen[t]
        BY <3>4, RecvFromKeeps
      <4> QED  BY <3>1, <3>2, <4>1
    <3> QED  BY <3>3, <3>4
  <2> QED  BY <1>1, <2>3, <2>4, <2>5, <2>6 DEF DrainInv, QuietInv
<1> QED  BY <1>2, <1>3, <1>4, <1>5, <1>6 DEF IInv

\* What is written is shown, and only that leaves the queue.
LEMMA WriteKeeps == IInv /\ Write => IInv'
<1> SUFFICES ASSUME IInv, Write PROVE IInv'
  OBVIOUS
<1>1. /\ pc = "write" /\ client = "ssh" /\ pc' \in {"check", "raised"}
      /\ UNCHANGED <<remote, client, method, quiet, tries, lookups, open, all, writable, seen>>
  BY DEF Write, Goto, IInv, StepInv, Drain
<1>2. \/ pc' = "raised" /\ UNCHANGED <<shown, queue>>
      \/ /\ pc' = "check"
         /\ shown' = [s \in Streams |-> IF s \in writable THEN shown[s] \o Head(queue[s]) ELSE shown[s]]
         /\ queue' = [s \in Streams |-> IF s \in writable THEN Tail(queue[s]) ELSE queue[s]]
  BY DEF Write, Goto
<1>3. \A s \in writable : s \in Streams /\ queue[s] # << >>
  BY <1>1 DEF IInv, DrainInv, QuietInv, TypeOK
<1>4. ASSUME NEW s \in Streams
      PROVE  /\ queue[s] \in Seq(Seq(Bytes)) /\ shown[s] \in Seq(Bytes)
             /\ s \in writable => /\ Head(queue[s]) \in Seq(Bytes) /\ Tail(queue[s]) \in Seq(Seq(Bytes))
                                 /\ shown[s] \o Head(queue[s]) \in Seq(Bytes)
                                 /\ shown[s] \o Flat(queue[s])
                                      = (shown[s] \o Head(queue[s])) \o Flat(Tail(queue[s]))
                                 /\ Len(Tail(queue[s])) = Len(queue[s]) - 1 /\ Len(queue[s]) \in Nat
  <2>1. queue[s] \in Seq(Seq(Bytes)) /\ shown[s] \in Seq(Bytes)
    BY ReadAndUnread
  <2>2. ASSUME s \in writable
        PROVE  /\ Head(queue[s]) \in Seq(Bytes) /\ Tail(queue[s]) \in Seq(Seq(Bytes))
               /\ shown[s] \o Head(queue[s]) \in Seq(Bytes)
               /\ shown[s] \o Flat(queue[s]) = (shown[s] \o Head(queue[s])) \o Flat(Tail(queue[s]))
               /\ Len(Tail(queue[s])) = Len(queue[s]) - 1 /\ Len(queue[s]) \in Nat
    <3>1. queue[s] # << >>
      BY <1>3, <2>2
    <3>2. Head(queue[s]) \in Seq(Bytes) /\ Tail(queue[s]) \in Seq(Seq(Bytes))
          /\ Len(Tail(queue[s])) = Len(queue[s]) - 1 /\ Len(queue[s]) \in Nat
      BY <2>1, <3>1
    <3>3. Flat(queue[s]) = Head(queue[s]) \o Flat(Tail(queue[s]))
      BY <2>1, <3>1, FlatHeadTail
    <3>4. Flat(Tail(queue[s])) \in Seq(Bytes)
      BY <3>2, FlatIsSeq
    <3>5. (shown[s] \o Head(queue[s])) \o Flat(Tail(queue[s])) = shown[s] \o (Head(queue[s]) \o Flat(Tail(queue[s])))
      BY <2>1, <3>2, <3>4, Associative
    <3>6. shown[s] \o Head(queue[s]) \in Seq(Bytes)
      BY <2>1, <3>2
    <3> QED  BY <3>2, <3>3, <3>5, <3>6
  <2> QED  BY <2>1, <2>2
<1>5. TypeOK'
  <2>1. ASSUME ~quiet, NEW s \in Streams PROVE all[s] = shown'[s] \o Flat(queue'[s])
    <3>1. all[s] = shown[s] \o Flat(queue[s])
      BY <1>1, <2>1 DEF IInv, TypeOK
    <3>2. CASE pc' = "raised"
      BY <1>2, <3>1, <3>2
    <3>3. CASE pc' = "check" /\ s \in writable
      <4>1. shown'[s] = shown[s] \o Head(queue[s]) /\ queue'[s] = Tail(queue[s])
        BY <1>2, <3>3
      <4> QED  BY <1>4, <3>1, <3>3, <4>1
    <3>4. CASE pc' = "check" /\ s \notin writable
      <4>1. shown'[s] = shown[s] /\ queue'[s] = queue[s]
        BY <1>2, <3>4
      <4> QED  BY <3>1, <4>1
    <3> QED  BY <1>1, <3>2, <3>3, <3>4
  <2> QED  BY <1>1, <2>1 DEF IInv, TypeOK, remote
<1>6. Typed'
  <2>1. shown' \in [Streams -> Seq(Bytes)] /\ queue' \in [Streams -> Seq(Seq(Bytes))]
    <3>1. CASE pc' = "raised"
      BY <1>2, <3>1 DEF IInv, Typed
    <3>2. CASE pc' = "check"
      BY <1>2, <1>4, <3>2
    <3> QED  BY <1>1, <3>1, <3>2
  <2> QED  BY <1>1, <2>1 DEF IInv, Typed, remote, Drain
<1>7. StepInv' /\ RemoteInv' /\ OpenInv' /\ NodeInv' /\ RaisedInv'
  BY <1>1 DEF IInv, StepInv, RemoteInv, OpenInv, NodeInv, RaisedInv, Drain, NodeSteps, SftpSteps, remote, ExitStatus, LookupDone, Broken
<1>8. DrainInv' /\ QuietInv'
  <2>1. ASSUME NEW s \in Streams, ~quiet, Len(all[s]) < seen[s], pc' = "check" PROVE queue'[s] # << >>
    <3>1. queue[s] # << >> /\ (s \in writable => Len(queue[s]) > 1)
      BY <1>1, <2>1 DEF IInv, DrainInv, QuietInv
    <3>2. CASE s \in writable
      <4>1. queue'[s] = Tail(queue[s])
        BY <1>2, <2>1, <3>2
      <4>2. Len(queue'[s]) = Len(queue[s]) - 1 /\ Len(queue[s]) \in Nat
        BY <1>4, <3>2, <4>1, Zenon
      <4>3. Len(<< >>) = 0
        OBVIOUS
      <4>4. Len(queue'[s]) # 0
        <5>1. Len(queue[s]) > 1
          BY <3>1, <3>2
        <5>2. \A n \in Nat : n > 1 => n - 1 # 0
          OBVIOUS
        <5> QED  BY <4>2, <5>1, <5>2, Zenon
      <4> QED  BY <4>3, <4>4, Zenon
    <3>3. CASE s \notin writable
      <4>1. queue'[s] = queue[s]
        BY <1>2, <2>1, <3>3
      <4> QED  BY <3>1, <4>1
    <3> QED  BY <3>2, <3>3
  <2>2. ASSUME quiet, NEW s \in Streams PROVE queue'[s] = << >>
    <3>1. queue[s] = << >> /\ s \notin writable
      BY <1>3, <2>2 DEF IInv, QuietInv
    <3> QED  BY <1>2, <3>1
  <2> QED  BY <1>1, <2>1, <2>2 DEF IInv, DrainInv, QuietInv
<1> QED  BY <1>5, <1>6, <1>7, <1>8 DEF IInv

\* Node reads to the end of a stream of a command whose output has ended.
LEMMA ReadKeeps == IInv /\ (Read \/ ReadStderr) => IInv'
<1> SUFFICES ASSUME IInv,
                    NEW s \in Streams, NEW next, ReadToEnd(s, next),
                    \/ pc = "read" /\ s = "out" /\ next = IF ExitStatus = 0 THEN "close" ELSE "read_stderr"
                    \/ pc = "read_stderr" /\ s = "err" /\ next = "close_raising"
             PROVE  IInv'
  BY DEF Read, ReadStderr, ByStatus, Streams
<1>1. /\ pc \in {"read", "read_stderr"} /\ pc' = next /\ client = "node" /\ chan.closed
      /\ next \in {"close", "read_stderr", "close_raising"}
      /\ UNCHANGED <<client, method, quiet, program, sent, chan, lost, tries, lookups, open, queue, shown, writable, seen>>
      /\ window' = window + Len(buf[s])
  BY DEF ReadToEnd, Goto, IInv, StepInv, NodeSteps
<1>2. all[s] \in Seq(Bytes) /\ buf[s] \in Seq(Bytes)
  BY ReadAndUnread
<1>3. /\ all' \in [Streams -> Seq(Bytes)] /\ all'[s] = all[s] \o buf[s]
      /\ \A t \in Streams \ {s} : all'[t] = all[t]
  <2>1. all' = [all EXCEPT ![s] = all[s] \o buf[s]] /\ all \in [Streams -> Seq(Bytes)]
    BY DEF ReadToEnd, IInv, Typed
  <2>2. all[s] \o buf[s] \in Seq(Bytes)
    BY <1>2
  <2> QED  BY <2>1, <2>2
<1>4. /\ buf' \in [Streams -> Seq(Bytes)] /\ buf'[s] = << >>
      /\ \A t \in Streams \ {s} : buf'[t] = buf[t]
  BY DEF ReadToEnd, IInv, Typed
<1>5. TypeOK'
  <2>1. window' = Window - Len(buf'["out"]) - Len(buf'["err"])
    <3>1. window = Window - Len(buf["out"]) - Len(buf["err"]) /\ Window \in Nat
      BY SizesAssumption DEF IInv, TypeOK
    <3>2. Len(buf["out"]) \in Nat /\ Len(buf["err"]) \in Nat /\ Len(buf'[s]) = 0
      BY <1>4 DEF IInv, Typed, Streams
    <3>3. CASE s = "out"
      <4>1. Len(buf'["err"]) = Len(buf["err"]) /\ Len(buf'["out"]) = 0
        BY <1>4, <3>2, <3>3 DEF Streams
      <4>2. window' = window + Len(buf["out"])
        BY <1>1, <3>3
      <4> QED  BY <3>1, <3>2, <4>1, <4>2
    <3>4. CASE s = "err"
      <4>1. Len(buf'["out"]) = Len(buf["out"]) /\ Len(buf'["err"]) = 0
        BY <1>4, <3>2, <3>4 DEF Streams
      <4>2. window' = window + Len(buf["err"])
        BY <1>1, <3>4
      <4> QED  BY <3>1, <3>2, <4>1, <4>2
    <3> QED  BY <3>3, <3>4 DEF Streams
  <2>2. ASSUME NEW t \in Streams PROVE all'[t] \o buf'[t] = SubSeq(program[t], 1, sent[t])
    <3>1. all[t] \o buf[t] = SubSeq(program[t], 1, sent[t])
      BY DEF IInv, TypeOK
    <3>2. CASE t = s
      <4>1. all'[s] \o << >> = all'[s]
        BY <1>3
      <4> QED  BY <1>3, <1>4, <3>1, <3>2, <4>1
    <3>3. CASE t # s
      <4>1. all'[t] = all[t] /\ buf'[t] = buf[t]
        BY <1>3, <1>4, <3>3
      <4> QED  BY <3>1, <4>1
    <3> QED  BY <3>2, <3>3
  <2> QED  BY <1>1, <2>1, <2>2 DEF IInv, TypeOK
<1>6. Typed'
  BY <1>1, <1>3, <1>4 DEF IInv, Typed, NodeSteps
<1>7. StepInv' /\ RemoteInv' /\ OpenInv' /\ RaisedInv' /\ DrainInv' /\ QuietInv'
  <2>1. ~quiet
    BY <1>1 DEF IInv, TypeOK
  <2> QED  BY <1>1, <2>1 DEF IInv, StepInv, RemoteInv, OpenInv, RaisedInv, DrainInv, QuietInv, Drain, NodeSteps, SftpSteps
<1>8. NodeInv'
  <2>1. CASE pc = "read" /\ s = "out"
    <3>1. all["out"] = << >> /\ all'["err"] = << >>
      BY <1>1, <1>3, <2>1 DEF IInv, NodeInv, Streams, remote, ExitStatus, LookupDone, Broken
    <3>2. CASE ExitStatus = 0
      <4>1. chan.status = "exited" /\ program.status = 0
        BY <3>2 DEF ExitStatus, IInv, Typed
      <4>2. all["out"] \o buf["out"] = program["out"]
        <5>1. sent["out"] = Len(program["out"])
          BY <4>1 DEF IInv, RemoteInv, Streams
        <5> QED  BY <5>1, ReadAndUnread DEF Streams
      <4>3. all'["out"] = program["out"]
        BY <1>3, <2>1, <4>2
      <4> QED  BY <1>1, <2>1, <3>1, <3>2, <4>1, <4>3 DEF NodeInv, IInv, remote, ExitStatus, LookupDone, Broken
    <3>3. CASE ExitStatus # 0
      BY <1>1, <2>1, <3>1, <3>3 DEF NodeInv, IInv, ExitStatus, remote, LookupDone, Broken
    <3> QED  BY <3>2, <3>3
  <2>2. CASE pc = "read_stderr" /\ s = "err"
    BY <1>1, <2>2 DEF NodeInv, IInv, ExitStatus, remote, LookupDone, Broken
  <2> QED  BY <2>1, <2>2
<1> QED  BY <1>5, <1>6, <1>7, <1>8 DEF IInv

\* A new query starts as the first one did, and nothing had been read by it.
LEMMA LookupAgainKeeps == IInv /\ LookupAgain => IInv'
<1> SUFFICES ASSUME IInv, LookupAgain PROVE IInv'
  OBVIOUS
<1>1. /\ pc = "again" /\ client = "node" /\ Methods[method] = "lookup" /\ ~open
      /\ UNCHANGED <<client, method, quiet, lost, tries, open, all, queue, shown, writable, seen>>
      /\ \A s \in Streams : all[s] = << >> /\ seen[s] = 0
  BY DEF LookupAgain, Unread, IInv, StepInv, OpenInv, NodeInv, NodeSteps, Streams, remote, ExitStatus, LookupDone, Broken
<1>2. CASE lookups = MaxLookups /\ pc' = "raised" /\ UNCHANGED <<lookups, program, sent, buf, window, chan>>
  <2>1. UNCHANGED <<remote, client, method, quiet, tries, lookups, all, queue, shown, writable, seen>>
    BY <1>1, <1>2 DEF remote
  <2>2. tries' \in 0 .. Tries /\ open' \in BOOLEAN /\ writable' \subseteq Streams
    BY <1>1 DEF IInv, TypeOK
  <2>3. TypeOK' /\ Typed' /\ RemoteInv'
    BY <1>2, <2>1, <2>2, DataKept
  <2>4. StepInv' /\ OpenInv' /\ NodeInv' /\ RaisedInv' /\ DrainInv' /\ QuietInv'
    BY <1>1, <1>2, <2>1 DEF IInv, StepInv, OpenInv, NodeInv, RaisedInv, DrainInv, QuietInv, Drain, NodeSteps, SftpSteps, remote, ExitStatus, LookupDone, Broken
  <2> QED  BY <2>3, <2>4 DEF IInv
<1>3. CASE /\ lookups < MaxLookups /\ lookups' = lookups + 1
           /\ program' \in {p \in Programs : p.out \in {<< >>, <<"x">>} /\ p.err = << >>}
           /\ sent' = [s \in Streams |-> 0] /\ buf' = [s \in Streams |-> << >>]
           /\ window' = Window /\ chan' = [status |-> "none", closed |-> FALSE]
           /\ pc' = "connect"
  <2>1. program' \in Programs
    BY <1>3
  <2>2. \A s \in Streams : program'[s] \in Seq(Bytes) /\ Len(program'[s]) \in Nat
    BY <2>1, OutputIsBytes
  <2>3. \A s \in Streams : sent'[s] = 0 /\ buf'[s] = << >> /\ all'[s] = << >> /\ seen'[s] = 0
    BY <1>1, <1>3
  <2>4. TypeOK'
    <3>1. \A s \in Streams : all'[s] \o buf'[s] = SubSeq(program'[s], 1, sent'[s])
      <4>1. \A s \in Streams : SubSeq(program'[s], 1, 0) = << >>
        BY <2>2
      <4>2. << >> \o << >> = << >>
        OBVIOUS
      <4> QED  BY <2>3, <4>1, <4>2
    <3>2. window' = Window - Len(buf'["out"]) - Len(buf'["err"])
      <4>1. Len(buf'["out"]) = 0 /\ Len(buf'["err"]) = 0 /\ Window \in Nat /\ window' = Window
        BY <1>3, <2>3, SizesAssumption DEF Streams
      <4> QED  BY <4>1
    <3>3. lookups' \in 1 .. MaxLookups
      <4>1. lookups \in 1 .. MaxLookups /\ MaxLookups \in Nat
        BY SizesAssumption DEF IInv, TypeOK
      <4> QED  BY <1>3, <4>1
    <3>4. chan'.status = "none" /\ chan'.closed = FALSE
      BY <1>3
    <3> QED  BY <1>1, <2>1, <3>1, <3>2, <3>3, <3>4 DEF IInv, TypeOK
  <2>5. Typed'
    BY <1>1, <1>3 DEF IInv, Typed
  <2>6. RemoteInv'
    BY <1>3, <2>2, <2>3 DEF RemoteInv
  <2>7. StepInv' /\ OpenInv' /\ NodeInv' /\ RaisedInv' /\ DrainInv' /\ QuietInv'
    BY <1>1, <1>3, <2>3 DEF TypeOK, IInv, StepInv, OpenInv, NodeInv, RaisedInv, DrainInv, QuietInv, Drain, NodeSteps, SftpSteps, remote, ExitStatus, LookupDone, Broken
  <2> QED  BY <2>4, <2>5, <2>6, <2>7 DEF IInv
<1> QED  BY <1>2, <1>3 DEF LookupAgain, Goto

LEMMA NextKeeps == IInv /\ [Next]_vars => IInv'
<1> SUFFICES ASSUME IInv, [Next]_vars PROVE IInv'
  OBVIOUS
<1>1. CASE Client
  BY <1>1, ConnectKeeps, ExecKeeps, SelectKeeps, RecvKeeps, WriteKeeps, CheckKeeps, FinishKeeps,
     AwaitStatusKeeps, ReadKeeps, CloseKeeps, LookupAgainKeeps, SftpKeeps DEF Client
<1>2. CASE Remote
  BY <1>2, RemoteKeeps
<1>3. CASE UNCHANGED vars
  <2> USE <1>3 DEF vars, IInv
  <2>1. TypeOK'
    BY DEF TypeOK
  <2>2. Typed' /\ StepInv'
    BY DEF Typed, StepInv
  <2>3. RemoteInv' /\ OpenInv'
    BY DEF RemoteInv, OpenInv
  <2>4. NodeInv' /\ RaisedInv'
    BY DEF NodeInv, RaisedInv, ExitStatus, remote, LookupDone, Broken
  <2>5. DrainInv' /\ QuietInv'
    BY DEF DrainInv, QuietInv
  <2> QED  BY <2>1, <2>2, <2>3, <2>4, <2>5
<1> QED  BY <1>1, <1>2, <1>3 DEF Next, Terminated

LEMMA Invariance == Spec => []IInv
<1> QED  BY InitIInv, NextKeeps, PTL DEF Spec

-----------------------------------------------------------------------------
(* What the callers of a remote command can rely on.                         *)

\* The flow control accounts for every byte that lies unread, a client reads a stream in order and
\* without gaps, and drain_ssh_channel shows it in order, one chunk after the other.
THEOREM RemoteTypeCorrect == Spec => []TypeOK
<1>1. IInv => TypeOK
  BY DEF IInv
<1> QED  BY <1>1, Invariance, PTL

\* What the caller of Node's methods or of ost_utils.ssh is told is what happened on the host: Node
\* returns only the whole output of a command that exited with 0, and blames only a command that did
\* not; a lookup raises for its first query or for Timeout, and returns the error of a later one;
\* ssh has shown all that it returns, if it was to show it.
THEOREM ResultsAreHonest == Spec => []HonestResult
<1>1. IInv => HonestResult
  <2> SUFFICES ASSUME IInv PROVE HonestResult
    OBVIOUS
  <2>1. pc = "returned" /\ client = "node" => program.status = 0 /\ all.out = program.out
    BY DEF IInv, NodeInv
  <2>2. ASSUME pc = "returned", client = "ssh" PROVE (ExitStatus = program.status \/ lost) /\ (quiet \/ shown = all)
    <3>1. chan.closed /\ \A s \in Streams : queue[s] = << >>
      BY <2>2 DEF IInv, DrainInv
    <3>2. ExitStatus = program.status \/ lost
      BY <3>1 DEF IInv, RemoteInv, ExitStatus
    <3>3. ASSUME ~quiet, NEW s \in Streams PROVE all[s] = shown[s]
      <4>1. all[s] = shown[s] \o Flat(queue[s])
        BY <2>2, <3>3 DEF IInv, TypeOK
      <4>2. Flat(queue[s]) = << >>
        BY <3>1, FlatEmpty
      <4>3. shown[s] \o << >> = shown[s]
        <5>1. shown[s] \in Seq(Bytes)
          BY ReadAndUnread
        <5> QED  BY <5>1
      <4> QED  BY <4>1, <4>2, <4>3
    <3>4. all \in [Streams -> Seq(Bytes)] /\ shown \in [Streams -> Seq(Bytes)]
      BY DEF IInv, Typed
    <3>5. quiet \/ shown = all
      BY <3>3, <3>4
    <3> QED  BY <3>2, <3>5
  <2>3. Broken => Failed
    BY DEF Broken, Failed, IInv, Typed
  <2>4. /\ pc = "raised" /\ client = "node" /\ Methods[method] \in {"plain", "text"} => Failed
        /\ pc = "raised" /\ client = "node" /\ Methods[method] = "lookup"
             => \/ lookups = 1 /\ Failed
                \/ lookups = MaxLookups /\ ExitStatus = 0 /\ ~LookupDone
        /\ pc = "returned_error" => client = "node" /\ Methods[method] = "lookup" /\ lookups > 1 /\ Failed
    BY <2>3 DEF IInv, RaisedInv, StepInv
  <2> QED  BY <2>1, <2>2, <2>4 DEF HonestResult
<1> QED  BY <1>1, Invariance, PTL

\* drain_ssh_channel ends only after a look at either stream that found nothing, so what it misses
\* came later; with show_output=False it may miss what it has seen, but for one chunk.
THEOREM DrainMissesOnlyLateOutput == Spec => []LosesOnlyWhatCameLate
<1>1. IInv => LosesOnlyWhatCameLate
  <2> SUFFICES ASSUME IInv, pc \in {"finish", "returned"}, client = "ssh", NEW s \in Streams
               PROVE  Len(all[s]) >= IF quiet THEN Least(Chunk, seen[s]) ELSE seen[s]
    BY DEF LosesOnlyWhatCameLate
  <2>1. CASE quiet
    BY <2>1 DEF IInv, QuietInv
  <2>2. CASE ~quiet
    <3>1. ~(Len(all[s]) < seen[s])
      BY <2>2 DEF IInv, DrainInv
    <3> QED  BY <2>2, <3>1 DEF IInv, Typed
  <2> QED  BY <2>1, <2>2
<1> QED  BY <1>1, Invariance, PTL

\* A connection is left open only by sftp_put that fails before its try, or by a call of ssh that raises.
THEOREM ConnectionsAreClosed == Spec => []ClosesConnection
<1>1. IInv => ClosesConnection
  BY DEF IInv, OpenInv, ClosesConnection, Ended
<1> QED  BY <1>1, Invariance, PTL
=============================================================================
