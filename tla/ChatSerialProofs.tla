-------------------------- MODULE ChatSerialProofs --------------------------
(***************************************************************************)
(* Proofs about chat.py on a serial port, for any number of commands,      *)
(* lines of text, imitations and starts of chat.py.                        *)
(*                                                                         *)
(* What the host knows of the board is in the bytes on their way: those of *)
(* the last chunk it has not looked at and those it has not read.  The     *)
(* invariant is about this one stream, cut into chunks or not: whose bytes *)
(* they are, that the end of an answer is at its end, and that the prompt  *)
(* a command waits for is in it or still to be printed.                    *)
(***************************************************************************)
EXTENDS ChatSerial, SequenceTheorems, TLAPS

Whats == {"echo", "text", "stats", "err", "dash", "p1", "p2"}
Items == [cmd : Nat, what : Whats]

\* What the board has printed and the host has not looked at.
Stream == batch \o line

ChatTypeOK ==
    /\ busy \in BOOLEAN /\ running \in Nat /\ rx \in Seq(Nat)
    /\ line \in Seq(Items) /\ batch \in Seq(Items)
    /\ pc \in {"input", "resync", "drain", "write", "run"} /\ kind \in {"gen", "info"}
    /\ cur \in Nat /\ dirty \in BOOLEAN
    /\ fstate \in {"echo", "stream", "tail"} /\ held \in {"no", "half", "whole"}
    /\ error \in BOOLEAN /\ verdict \in {"none", "ok", "failed"}
    /\ mimics \in Nat /\ orphan \in BOOLEAN

\* The phases of _run, and what the REPL shows between them.
Phases ==
    /\ pc \in {"input", "drain", "write"} => batch = <<>>
    /\ pc = "resync" => dirty
    /\ pc \in {"drain", "write", "run"} => ~ dirty
    /\ pc \in {"resync", "drain", "write"} => shown = {}
    /\ verdict # "none" => pc = "input" /\ ~ dirty

\* Commands are numbered as they are written.
Numbered ==
    /\ \A n \in 1 .. Len(rx) : rx[n] <= cur
    /\ busy => running <= cur
    /\ \A c \in refused : c \in Nat /\ c <= cur

\* Whose output can still reach the command being written or run.
Allowed == IF pc = "write" THEN open ELSE open \cup {cur}

Tagged ==
    pc \in {"write", "run"} =>
        /\ \A n \in 1 .. Len(rx) : rx[n] \in Allowed
        /\ busy => running \in Allowed
        /\ \A n \in 1 .. Len(Stream) : Stream[n].cmd \in Allowed
        /\ Undisturbed => open = {}

\* A sequence ends with a prompt this framer will see as one.
EndsInPrompt(s) ==
    \/ Len(s) = 1 /\ s[1].what = "p2" /\ held = "half" /\ fstate # "echo"
    \/ /\ Len(s) > 1 /\ s[Len(s)].what = "p2" /\ s[Len(s) - 1].what = "p1"
       /\ fstate # "echo" \/ \E n \in 1 .. Len(s) - 2 : EndsLine(s[n])

\* The prompt a command waits for is still to be printed, or in the stream.
Awaited == pc = "run" => busy \/ rx # <<>> \/ EndsInPrompt(Stream)

\* The end of an answer, and how much of it follows.
Marks == {"stats", "err", "p1", "p2"}
Rest(w) == IF w = "p2" THEN 0 ELSE IF w = "p1" THEN 1 ELSE 2

\* The marks of a sequence are those of one answer, at its end.
Closing(s) ==
    \A n \in 1 .. Len(s) :
        s[n].what # "dash" /\ (s[n].what \in Marks => Len(s) - n = Rest(s[n].what))

Unmarked(s) == \A n \in 1 .. Len(s) : s[n].what \notin Marks

\* Left alone, the board has one command at a time.
OneAtATime ==
    Undisturbed =>
        /\ busy => rx = <<>>
        /\ Len(rx) <= 1
        /\ Closing(Stream)
        /\ busy \/ rx # <<>> => Unmarked(Stream)

HasErr(s) == \E n \in 1 .. Len(s) : s[n].what = "err"

\* What is known of the answer while it comes in: an error line was printed
\* exactly when one was seen or is in the stream, where the framer will see it.
Answer ==
    Undisturbed /\ pc = "run" =>
        /\ cur \in refused <=> error \/ HasErr(Stream)
        /\ busy \/ rx # <<>> => cur \notin refused
        /\ rx # <<>> => Stream = <<>>
        /\ fstate = "tail" \/ held # "no" => ~ busy /\ rx = <<>> /\ ~ HasErr(Stream)
        /\ fstate = "echo" => rx # <<>> \/ (Stream # <<>> /\ Stream[1].what = "echo")

Inv ==
    /\ ChatTypeOK /\ Phases /\ Numbered /\ Tagged /\ Awaited /\ OneAtATime /\ Answer
    /\ CleanMeansQuiet /\ Pairing /\ VerdictIsTheBoards /\ DirtIsRecoverable
-----------------------------------------------------------------------------
(* Sequences of items. *)

\* A sequence behind another.
LEMMA Joined ==
    ASSUME NEW s \in Seq(Items), NEW t \in Seq(Items)
    PROVE  /\ s \o t \in Seq(Items) /\ Len(s \o t) = Len(s) + Len(t)
           /\ Len(s) \in Nat /\ Len(t) \in Nat
           /\ \A n \in 1 .. Len(s) : n \in 1 .. Len(s \o t) /\ (s \o t)[n] = s[n]
           /\ \A n \in 1 .. Len(t) : n + Len(s) \in 1 .. Len(s \o t) /\ (s \o t)[n + Len(s)] = t[n]
           /\ \A n \in 1 .. Len(s \o t) :
                 \/ n \in 1 .. Len(s) /\ (s \o t)[n] = s[n]
                 \/ n - Len(s) \in 1 .. Len(t) /\ (s \o t)[n] = t[n - Len(s)]
<1>1. s \o t \in Seq(Items) /\ Len(s \o t) = Len(s) + Len(t)
  BY ConcatProperties
<1>2. \A i \in 1 .. Len(s) + Len(t) : (s \o t)[i] = IF i <= Len(s) THEN s[i] ELSE t[i - Len(s)]
  BY ConcatProperties
<1>3. Len(s) \in Nat /\ Len(t) \in Nat
  BY LenProperties
<1>4. QED
  BY <1>1, <1>2, <1>3

\* A sequence without its first item.
LEMMA Shortened ==
    ASSUME NEW s \in Seq(Items), s # <<>>
    PROVE  /\ Tail(s) \in Seq(Items) /\ Len(s) \in Nat /\ Len(s) > 0
           /\ Len(Tail(s)) = Len(s) - 1 /\ Head(s) = s[1] /\ s[1] \in Items
           /\ \A n \in 1 .. Len(Tail(s)) : n + 1 \in 1 .. Len(s) /\ Tail(s)[n] = s[n + 1]
           /\ \A n \in 1 .. Len(s) : n = 1 \/ (n - 1 \in 1 .. Len(Tail(s)) /\ s[n] = Tail(s)[n - 1])
<1>1. /\ Tail(s) \in Seq(Items) /\ Len(Tail(s)) = Len(s) - 1
      /\ \A n \in 1 .. Len(Tail(s)) : Tail(s)[n] = s[n + 1]
  BY HeadTailProperties
<1>2. Len(s) \in Nat /\ Len(s) > 0
  BY LenProperties, EmptySeq
<1>3. s[1] \in Items /\ Head(s) = s[1]
  BY <1>2, ElementOfSeq
<1>4. QED
  BY <1>1, <1>2, <1>3

\* What is read next is what there is: the cut between chunk and line moves.
LEMMA StreamTyped ==
    ASSUME ChatTypeOK
    PROVE  Stream \in Seq(Items) /\ Len(Stream) \in Nat /\ (batch = <<>> => Stream = line)
<1>1. batch \in Seq(Items) /\ line \in Seq(Items)
  BY DEF ChatTypeOK
<1>2. Stream \in Seq(Items)
  BY <1>1, ConcatProperties DEF Stream
<1>3. <<>> \o line = line
  BY <1>1, ConcatEmptySeq
<1>4. QED
  BY <1>2, <1>3, LenProperties DEF Stream

\* Taking a batch off the line leaves the stream as it was.
LEMMA StreamTaken ==
    ASSUME ChatTypeOK, batch = <<>>, Take
    PROVE  Stream' = Stream /\ batch' \in Seq(Items) /\ line' \in Seq(Items)
<1>1. line \in Seq(Items) /\ Len(line) \in Nat
  BY LenProperties DEF ChatTypeOK
<1>2. PICK n \in 1 .. Len(line) : batch' = SubSeq(line, 1, n) /\ line' = SubSeq(line, n + 1, Len(line))
  BY DEF Take
<1>3. batch' \o line' = SubSeq(line, 1, Len(line))
  <2>1. /\ 1 \in 1 .. Len(line) + 1 /\ n \in 1 - 1 .. Len(line) /\ Len(line) \in n .. Len(line)
    BY <1>1, <1>2
  <2>2. QED
    BY <1>1, <1>2, <2>1, ConcatAdjacentSubSeq
<1>4. batch' \o line' = line
  BY <1>1, <1>3, SubSeqFull
<1>5. Stream' = Stream
  BY <1>4, StreamTyped DEF Stream
<1>6. \A m \in 1 .. Len(line) : line[m] \in Items
  BY <1>1, ElementOfSeq
<1>7. batch' \in Seq(Items) /\ line' \in Seq(Items)
  BY <1>1, <1>2, <1>6, SubSeqProperties
<1>8. QED
  BY <1>5, <1>7

\* Feeding an item takes the first one off the stream.
LEMMA StreamFed ==
    ASSUME ChatTypeOK, batch # <<>>
    PROVE  /\ Stream # <<>> /\ Head(batch) = Stream[1] /\ Head(batch) \in Items
           /\ Tail(batch) \in Seq(Items) /\ Tail(batch) \o line = Tail(Stream)
           /\ Len(Stream) = 1 => Tail(batch) = <<>> /\ line = <<>>
<1>1. batch \in Seq(Items) /\ line \in Seq(Items)
  BY DEF ChatTypeOK
<1>2. /\ Tail(batch) \in Seq(Items) /\ Len(batch) \in Nat /\ Len(batch) > 0
      /\ Len(Tail(batch)) = Len(batch) - 1 /\ Head(batch) = batch[1] /\ batch[1] \in Items
      /\ \A n \in 1 .. Len(Tail(batch)) : Tail(batch)[n] = batch[n + 1]
  BY <1>1, Shortened
<1>3. /\ Stream \in Seq(Items) /\ Len(Stream) = Len(batch) + Len(line) /\ Len(line) \in Nat
      /\ \A i \in 1 .. Len(batch) + Len(line) : 
            Stream[i] = IF i <= Len(batch) THEN batch[i] ELSE line[i - Len(batch)]
  BY <1>1, ConcatProperties, LenProperties DEF Stream
<1>4. Stream # <<>> /\ Stream[1] = batch[1]
  BY <1>2, <1>3, EmptySeq
<1>5. /\ Tail(Stream) \in Seq(Items) /\ Len(Tail(Stream)) = Len(Stream) - 1
      /\ \A n \in 1 .. Len(Tail(Stream)) : Tail(Stream)[n] = Stream[n + 1]
  BY <1>3, <1>4, Shortened
<1>6. /\ Tail(batch) \o line \in Seq(Items) /\ Len(Tail(batch) \o line) = Len(Tail(batch)) + Len(line)
      /\ \A i \in 1 .. Len(Tail(batch)) + Len(line) : (Tail(batch) \o line)[i] =
             IF i <= Len(Tail(batch)) THEN Tail(batch)[i] ELSE line[i - Len(Tail(batch))]
  BY <1>1, <1>2, ConcatProperties
<1>7. Len(Tail(batch) \o line) = Len(Tail(Stream))
  BY <1>2, <1>3, <1>5, <1>6
<1>8. \A n \in 1 .. Len(Tail(batch) \o line) : (Tail(batch) \o line)[n] = Tail(Stream)[n]
  <2> SUFFICES ASSUME NEW n \in 1 .. Len(Tail(batch) \o line)
               PROVE  (Tail(batch) \o line)[n] = Tail(Stream)[n]
    OBVIOUS
  <2>1. n + 1 \in 1 .. Len(batch) + Len(line) /\ Tail(Stream)[n] = Stream[n + 1]
    BY <1>2, <1>3, <1>5, <1>6
  <2>2. CASE n <= Len(batch) - 1
    BY <1>2, <1>3, <1>6, <2>1, <2>2
  <2>3. CASE ~ (n <= Len(batch) - 1)
    <3>1. (n + 1) - Len(batch) = n - (Len(batch) - 1)
      BY <1>2
    <3>2. QED
      BY <1>2, <1>3, <1>6, <2>1, <2>3, <3>1
  <2>4. QED
    BY <2>2, <2>3
<1>9. Tail(batch) \o line = Tail(Stream)
  BY <1>5, <1>6, <1>7, <1>8, SeqEqual
<1>10. Len(Stream) = 1 => Tail(batch) = <<>> /\ line = <<>>
  <2> DEFINE a == Len(Tail(batch))
             b == Len(line)
             c == Len(batch)
             d == Len(Stream)
  <2>1. c \in Nat /\ c > 0 /\ a = c - 1 /\ d = c + b /\ b \in Nat
    BY <1>2, <1>3, Zenon
  <2> HIDE DEF a, b, c, d
  <2>2. d = 1 => a = 0 /\ b = 0
    BY <2>1
  <2> USE DEF a, b, d
  <2>3. ASSUME d = 1 PROVE Tail(batch) = <<>> /\ line = <<>>
    <3>1. Len(Tail(batch)) = 0 /\ Len(line) = 0
      BY <2>2, <2>3, Zenon
    <3>2. QED
      BY <1>1, <1>2, <3>1, EmptySeq
  <2>4. QED
    BY <2>3
<1>11. QED
  BY <1>2, <1>4, <1>9, <1>10

\* What the board writes is added to the end of the stream.
LEMMA StreamGrows ==
    ASSUME ChatTypeOK, NEW t \in Seq(Items), line' = line \o t, batch' = batch
    PROVE  Stream' = Stream \o t /\ line' \in Seq(Items)
<1>1. batch \in Seq(Items) /\ line \in Seq(Items)
  BY DEF ChatTypeOK
<1>2. (batch \o line) \o t = batch \o (line \o t)
  BY <1>1, ConcatAssociative
<1>3. line \o t \in Seq(Items)
  BY <1>1, Joined, Zenon
<1>4. QED
  BY <1>2, <1>3, Zenon DEF Stream

\* The end of an answer stays at the end when the front is taken away.
LEMMA MarksTail ==
    ASSUME NEW s \in Seq(Items), s # <<>>
    PROVE  /\ Closing(s) => Closing(Tail(s))
           /\ Unmarked(s) => Unmarked(Tail(s))
           /\ HasErr(s) <=> s[1].what = "err" \/ HasErr(Tail(s))
<1>1. /\ Len(s) \in Nat /\ Len(Tail(s)) = Len(s) - 1 /\ Len(s) > 0
      /\ \A n \in 1 .. Len(Tail(s)) : n + 1 \in 1 .. Len(s) /\ Tail(s)[n] = s[n + 1]
      /\ \A n \in 1 .. Len(s) : n = 1 \/ (n - 1 \in 1 .. Len(Tail(s)) /\ s[n] = Tail(s)[n - 1])
  BY Shortened, Zenon
<1>2. ASSUME Closing(s), NEW n \in 1 .. Len(Tail(s))
      PROVE  /\ Tail(s)[n].what # "dash"
             /\ Tail(s)[n].what \in Marks => Len(Tail(s)) - n = Rest(Tail(s)[n].what)
  <2>1. /\ s[n + 1].what # "dash"
        /\ s[n + 1].what \in Marks => Len(s) - (n + 1) = Rest(s[n + 1].what)
    BY <1>1, <1>2, Zenon DEF Closing
  <2>2. Len(Tail(s)) - n = Len(s) - (n + 1)
    BY <1>1
  <2>3. QED
    BY <1>1, <2>1, <2>2, Zenon
<1>3. Unmarked(s) => Unmarked(Tail(s))
  BY <1>1, Zenon DEF Unmarked
<1>4. ASSUME HasErr(s) PROVE s[1].what = "err" \/ HasErr(Tail(s))
  BY <1>1, <1>4, Zenon DEF HasErr
<1>5. ASSUME HasErr(Tail(s)) PROVE HasErr(s)
  BY <1>1, <1>5, ZenonT(40) DEF HasErr
<1>6. s[1].what = "err" => HasErr(s)
  <2>1. 1 \in 1 .. Len(s)
    BY <1>1
  <2>2. QED
    BY <2>1, Zenon DEF HasErr
<1>7. QED
  BY <1>2, <1>3, <1>4, <1>5, <1>6, Zenon DEF Closing

\* What comes after a part of a stream keeps its marks in order.
LEMMA MarksSuffix ==
    ASSUME NEW s \in Seq(Items), NEW t \in Seq(Items)
    PROVE  /\ Closing(s \o t) => Closing(t)
           /\ Unmarked(s \o t) => Unmarked(t)
<1>1. /\ Len(s \o t) = Len(s) + Len(t) /\ Len(s) \in Nat /\ Len(t) \in Nat
      /\ \A n \in 1 .. Len(t) : n + Len(s) \in 1 .. Len(s \o t) /\ (s \o t)[n + Len(s)] = t[n]
  BY Joined, Zenon
<1>2. ASSUME Closing(s \o t), NEW n \in 1 .. Len(t)
      PROVE  t[n].what # "dash" /\ (t[n].what \in Marks => Len(t) - n = Rest(t[n].what))
  <2>1. /\ t[n].what # "dash"
        /\ t[n].what \in Marks => Len(s \o t) - (n + Len(s)) = Rest(t[n].what)
    BY <1>1, <1>2, Zenon DEF Closing
  <2>2. Len(s \o t) - (n + Len(s)) = Len(t) - n
    BY <1>1
  <2>3. QED
    BY <2>1, <2>2, Zenon
<1>3. Unmarked(s \o t) => Unmarked(t)
  BY <1>1, Zenon DEF Unmarked
<1>4. QED
  BY <1>2, <1>3, Zenon DEF Closing

\* A line of text adds no end, and a return adds the whole of it.
LEMMA MarksText ==
    ASSUME NEW s \in Seq(Items), Closing(s), Unmarked(s), NEW e \in Items, e.what \in {"echo", "text"}
    PROVE  /\ Closing(s \o <<e>>) /\ Unmarked(s \o <<e>>)
           /\ HasErr(s \o <<e>>) <=> HasErr(s)
<1>1. <<e>> \in Seq(Items) /\ Len(<<e>>) = 1 /\ <<e>>[1] = e
  OBVIOUS
<1>2. /\ \A n \in 1 .. Len(s) : n \in 1 .. Len(s \o <<e>>) /\ (s \o <<e>>)[n] = s[n]
      /\ \A n \in 1 .. Len(s \o <<e>>) :
            \/ n \in 1 .. Len(s) /\ (s \o <<e>>)[n] = s[n]
            \/ n - Len(s) \in 1 .. Len(<<e>>) /\ (s \o <<e>>)[n] = <<e>>[n - Len(s)]
  BY <1>1, Joined, Zenon
<1>3. Len(s) \in Nat
  BY LenProperties
<1>4. \A n \in 1 .. Len(s \o <<e>>) :
         (n \in 1 .. Len(s) /\ (s \o <<e>>)[n] = s[n]) \/ (s \o <<e>>)[n] = e
  <2> SUFFICES ASSUME NEW n \in 1 .. Len(s \o <<e>>), n - Len(s) \in 1 .. Len(<<e>>),
                      (s \o <<e>>)[n] = <<e>>[n - Len(s)]
               PROVE  (s \o <<e>>)[n] = e
    BY <1>2, Zenon
  <2>1. n - Len(s) = 1
    BY <1>1, <1>3
  <2>2. QED
    BY <1>1, <2>1
<1>5. e.what \notin Marks /\ e.what # "dash" /\ e.what # "err"
  BY DEF Marks
<1>6. \A n \in 1 .. Len(s) : s[n].what # "dash" /\ s[n].what \notin Marks
  BY Zenon DEF Closing, Unmarked
<1>7. Closing(s \o <<e>>) /\ Unmarked(s \o <<e>>)
  BY <1>4, <1>5, <1>6, Zenon DEF Closing, Unmarked
<1>8. HasErr(s \o <<e>>) <=> HasErr(s)
  BY <1>2, <1>4, <1>5, Zenon DEF HasErr
<1>9. QED
  BY <1>7, <1>8

\* The end of an answer closes a stream that had no mark yet.
LEMMA MarksEnd ==
    ASSUME NEW s \in Seq(Items), Closing(s), Unmarked(s),
           NEW k \in Items, k.what \in {"stats", "err"},
           NEW p \in Items, p.what = "p1", NEW q \in Items, q.what = "p2"
    PROVE  /\ <<k, p, q>> \in Seq(Items)
           /\ Closing(s \o <<k, p, q>>)
           /\ HasErr(s \o <<k, p, q>>) <=> k.what = "err"
<1> DEFINE t == <<k, p, q>>
           u == s \o t
<1>1. t \in Seq(Items) /\ Len(t) = 3 /\ t[1] = k /\ t[2] = p /\ t[3] = q
  OBVIOUS
<1>2. /\ Len(u) = Len(s) + 3 /\ Len(s) \in Nat
      /\ \A n \in 1 .. Len(t) : n + Len(s) \in 1 .. Len(u) /\ u[n + Len(s)] = t[n]
      /\ \A n \in 1 .. Len(u) :
            \/ n \in 1 .. Len(s) /\ u[n] = s[n]
            \/ n - Len(s) \in 1 .. Len(t) /\ u[n] = t[n - Len(s)]
  <2> HIDE DEF t
  <2>1. /\ Len(u) = Len(s) + Len(t) /\ Len(s) \in Nat
        /\ \A n \in 1 .. Len(t) : n + Len(s) \in 1 .. Len(u) /\ u[n + Len(s)] = t[n]
        /\ \A n \in 1 .. Len(u) :
              \/ n \in 1 .. Len(s) /\ u[n] = s[n]
              \/ n - Len(s) \in 1 .. Len(t) /\ u[n] = t[n - Len(s)]
    BY <1>1, Joined, Zenon
  <2> HIDE DEF u
  <2>2. QED
    BY <1>1, <2>1
<1> HIDE DEF t, u
<1>3. \A n \in 1 .. Len(u) :
         \/ n \in 1 .. Len(s) /\ u[n] = s[n]
         \/ Len(u) - n = 2 /\ u[n] = k
         \/ Len(u) - n = 1 /\ u[n] = p
         \/ Len(u) - n = 0 /\ u[n] = q
  <2> SUFFICES ASSUME NEW n \in 1 .. Len(u), n - Len(s) \in 1 .. 3, u[n] = t[n - Len(s)]
               PROVE  \/ Len(u) - n = 2 /\ u[n] = k
                      \/ Len(u) - n = 1 /\ u[n] = p
                      \/ Len(u) - n = 0 /\ u[n] = q
    BY <1>1, <1>2, Zenon
  <2>1. n - Len(s) = 1 \/ n - Len(s) = 2 \/ n - Len(s) = 3
    BY <1>2
  <2>2. QED
    BY <1>1, <1>2, <2>1
<1>4. \A n \in 1 .. Len(s) : s[n].what # "dash" /\ s[n].what \notin Marks
  BY Zenon DEF Closing, Unmarked
<1>5. Closing(u)
  <2> SUFFICES ASSUME NEW n \in 1 .. Len(u)
               PROVE  u[n].what # "dash" /\ (u[n].what \in Marks => Len(u) - n = Rest(u[n].what))
    BY Zenon DEF Closing
  <2>1. CASE n \in 1 .. Len(s) /\ u[n] = s[n]
    BY <1>4, <2>1, Zenon
  <2>2. CASE Len(u) - n = 2 /\ u[n] = k
    BY <2>2 DEF Rest
  <2>3. CASE Len(u) - n = 1 /\ u[n] = p
    BY <2>3 DEF Rest
  <2>4. CASE Len(u) - n = 0 /\ u[n] = q
    BY <2>4 DEF Rest
  <2>5. QED
    BY <1>3, <2>1, <2>2, <2>3, <2>4, Zenon
<1>6. HasErr(u) <=> k.what = "err"
  <2>1. 1 + Len(s) \in 1 .. Len(u) /\ u[1 + Len(s)] = k
    BY <1>1, <1>2
  <2>2. k.what = "err" => HasErr(u)
    BY <2>1, Zenon DEF HasErr
  <2>3. "err" \in Marks /\ p.what # "err" /\ q.what # "err"
    BY DEF Marks
  <2>4. HasErr(u) => k.what = "err"
    BY <1>3, <1>4, <2>3, Zenon DEF HasErr
  <2>5. QED
    BY <2>2, <2>4
<1>7. QED
  BY <1>1, <1>5, <1>6 DEF t, u
-----------------------------------------------------------------------------
(* The invariant: initially, and for the board. *)

\* The first start of chat.py, with the board at its prompt.
LEMMA InitInv == Init => Inv
<1> SUFFICES ASSUME Init PROVE Inv
  OBVIOUS
<1>1. ChatTypeOK
  <2>1. <<>> \in Seq(Nat) /\ <<>> \in Seq(Items) /\ 0 \in Nat
    OBVIOUS
  <2>2. QED
    BY <2>1, Zenon DEF Init, ChatTypeOK
<1>2. Stream = <<>> /\ Len(Stream) = 0
  BY <1>1, StreamTyped DEF Init
<1>3. Phases /\ Numbered /\ Tagged /\ Awaited
  BY DEF Init, Phases, Numbered, Tagged, Awaited
<1>4. OneAtATime
  BY <1>2 DEF Init, OneAtATime, Closing, Unmarked
<1>5. Answer
  BY DEF Init, Answer
<1>6. CleanMeansQuiet /\ Pairing /\ VerdictIsTheBoards /\ DirtIsRecoverable
  BY DEF Init, CleanMeansQuiet, Pairing, VerdictIsTheBoards, DirtIsRecoverable
<1>7. QED
  BY <1>1, <1>3, <1>4, <1>5, <1>6 DEF Inv

\* What the host believes survives whatever the board does: it only acts when
\* the host does not believe it idle, and a prompt is then still to come.
LEMMA BoardKeeps ==
    ASSUME Inv, busy \/ rx # <<>>, UNCHANGED hostVars,
           UNCHANGED <<shown, open, interrupted, orphan>>, mimics' \in Nat, mimics' >= mimics,
           PromptToCome', ChatTypeOK', Numbered', Tagged', Awaited', OneAtATime', Answer'
    PROVE  Inv'
<1>1. /\ pc' = pc /\ cur' = cur /\ dirty' = dirty /\ batch' = batch /\ verdict' = verdict
      /\ shown' = shown /\ open' = open /\ orphan' = orphan
  BY Zenon DEF hostVars, framerVars
<1>2. Undisturbed' => Undisturbed
  <2>1. mimics \in Nat
    BY DEF Inv, ChatTypeOK
  <2>2. mimics' = 0 => mimics = 0
    BY <2>1
  <2>3. QED
    BY <1>1, <2>2 DEF Undisturbed
<1>3. Undisturbed' => dirty \/ pc = "run"
  BY <1>2 DEF Inv, CleanMeansQuiet
<1>4. Phases'
  BY <1>1 DEF Inv, Phases
<1>5. CleanMeansQuiet'
  BY <1>1, <1>3 DEF CleanMeansQuiet
<1>6. Pairing'
  BY <1>1, <1>2 DEF Inv, Pairing
<1>7. VerdictIsTheBoards'
  BY <1>1, <1>3 DEF Inv, Phases, VerdictIsTheBoards
<1>8. DirtIsRecoverable'
  BY DEF DirtIsRecoverable
<1>9. QED
  BY <1>4, <1>5, <1>6, <1>7, <1>8 DEF Inv

\* The items of one command's output carry its number.
LEMMA TagsGrow ==
    ASSUME ChatTypeOK, Tagged, pc \in {"write", "run"}, NEW t \in Seq(Items),
           Stream' = Stream \o t, \A n \in 1 .. Len(t) : t[n].cmd \in Allowed
    PROVE  \A n \in 1 .. Len(Stream') : Stream'[n].cmd \in Allowed
<1>1. Stream \in Seq(Items)
  BY StreamTyped
<1>2. \A n \in 1 .. Len(Stream \o t) :
         \/ n \in 1 .. Len(Stream) /\ (Stream \o t)[n] = Stream[n]
         \/ n - Len(Stream) \in 1 .. Len(t) /\ (Stream \o t)[n] = t[n - Len(Stream)]
  BY <1>1, Joined, Zenon
<1>3. \A n \in 1 .. Len(Stream) : Stream[n].cmd \in Allowed
  BY DEF Tagged
<1>4. QED
  BY <1>2, <1>3, Zenon

\* The board takes a command and echoes it.
LEMMA ShellStartsStep == ASSUME Inv, ShellStarts PROVE Inv'
<1> DEFINE e == [cmd |-> Head(rx), what |-> "echo"]
<1>1. /\ ~ busy /\ rx # <<>> /\ busy' = TRUE /\ running' = Head(rx) /\ rx' = Tail(rx)
      /\ line' = Append(line, e)
      /\ UNCHANGED hostVars /\ UNCHANGED historyVars
  BY Zenon DEF ShellStarts
<1>2. /\ pc' = pc /\ cur' = cur /\ batch' = batch /\ error' = error
      /\ fstate' = fstate /\ held' = held
      /\ open' = open /\ refused' = refused /\ orphan' = orphan /\ mimics' = mimics
      /\ kind' = kind /\ dirty' = dirty /\ verdict' = verdict
  BY <1>1, Zenon DEF hostVars, framerVars, historyVars
<1>3. ChatTypeOK
  BY DEF Inv
<1>4. /\ rx \in Seq(Nat) /\ Head(rx) \in Nat /\ Tail(rx) \in Seq(Nat) /\ Len(rx) \in Nat
      /\ Head(rx) = rx[1] /\ 1 \in 1 .. Len(rx) /\ Len(Tail(rx)) = Len(rx) - 1
      /\ \A n \in 1 .. Len(Tail(rx)) : n + 1 \in 1 .. Len(rx) /\ Tail(rx)[n] = rx[n + 1]
  BY <1>1, <1>3 DEF ChatTypeOK
<1>5. e \in Items /\ e.what = "echo" /\ e.cmd = Head(rx)
  BY <1>4 DEF Items, Whats
<1> HIDE DEF e
<1>6. <<e>> \in Seq(Items) /\ Len(<<e>>) = 1 /\ <<e>>[1] = e /\ line' = line \o <<e>>
  BY <1>1, <1>3, <1>5, AppendIsConcat DEF ChatTypeOK
<1>7. Stream' = Stream \o <<e>> /\ line' \in Seq(Items) /\ Stream \in Seq(Items)
  BY <1>2, <1>3, <1>6, StreamGrows, StreamTyped, Zenon
<1>8. ChatTypeOK'
  <2>1. busy' \in BOOLEAN
    BY <1>1
  <2>2. QED
    BY <1>1, <1>2, <1>3, <1>4, <1>7, <2>1, ZenonT(40) DEF ChatTypeOK
<1>9. Undisturbed' = Undisturbed
  BY <1>2, Zenon DEF Undisturbed
<1>10. Numbered'
  <2>1. \A n \in 1 .. Len(rx') : rx'[n] <= cur'
    BY <1>1, <1>2, <1>4, Zenon DEF Inv, Numbered
  <2>2. running' <= cur'
    BY <1>1, <1>2, <1>4, Zenon DEF Inv, Numbered
  <2>3. QED
    BY <1>2, <2>1, <2>2, Zenon DEF Inv, Numbered
<1>11. Allowed' = Allowed
  BY <1>2, Zenon DEF Allowed
<1>12. Tagged'
  <2> SUFFICES ASSUME pc \in {"write", "run"} PROVE Tagged'
    BY <1>2, Zenon DEF Tagged
  <2>1. \A n \in 1 .. Len(rx) : rx[n] \in Allowed
    BY DEF Inv, Tagged
  <2>2. \A n \in 1 .. Len(<<e>>) : <<e>>[n].cmd \in Allowed
    BY <1>4, <1>5, <1>6, <2>1
  <2>3. \A n \in 1 .. Len(Stream') : Stream'[n].cmd \in Allowed
    <3>1. Tagged
      BY DEF Inv
    <3>2. QED
      BY <1>3, <1>6, <1>7, <2>2, <3>1, TagsGrow, Zenon
  <2>4. (\A n \in 1 .. Len(rx') : rx'[n] \in Allowed) /\ running' \in Allowed
    BY <1>1, <1>4, <2>1, Zenon
  <2>5. Undisturbed => open = {}
    BY DEF Inv, Tagged
  <2>6. QED
    BY <1>2, <1>9, <1>11, <2>3, <2>4, <2>5, Zenon DEF Tagged
<1>13. Awaited'
  BY <1>1 DEF Awaited
<1>14. Undisturbed => Closing(Stream) /\ Unmarked(Stream) /\ rx' = <<>>
  <2> SUFFICES ASSUME Undisturbed PROVE Closing(Stream) /\ Unmarked(Stream) /\ rx' = <<>>
    OBVIOUS
  <2>1. Closing(Stream) /\ Unmarked(Stream) /\ Len(rx) <= 1
    BY <1>1, Zenon DEF Inv, OneAtATime
  <2>2. Len(Tail(rx)) = 0
    BY <1>4, <2>1
  <2>3. Tail(rx) = <<>>
    BY <1>4, <2>2, EmptySeq
  <2>4. QED
    BY <1>1, <2>1, <2>3
<1>15. Undisturbed => /\ Closing(Stream') /\ Unmarked(Stream')
                      /\ HasErr(Stream') <=> HasErr(Stream)
  BY <1>5, <1>7, <1>14, MarksText, Zenon
<1>16. OneAtATime'
  <2>1. Undisturbed => Closing(Stream)' /\ Unmarked(Stream)'
    BY <1>15 DEF Closing, Unmarked
  <2>2. Len(<<>>) <= 1
    OBVIOUS
  <2>3. QED
    BY <1>1, <1>9, <1>14, <2>1, <2>2, Zenon DEF OneAtATime
<1>17. Answer'
  <2> SUFFICES ASSUME Undisturbed, pc = "run" PROVE Answer'
    BY <1>2, <1>9, Zenon DEF Answer
  <2>1. /\ cur \in refused <=> error \/ HasErr(Stream)
        /\ cur \notin refused /\ Stream = <<>>
        /\ ~ (fstate = "tail" \/ held # "no")
    BY <1>1, Zenon DEF Inv, Answer
  <2>2. HasErr(Stream)' <=> HasErr(Stream)
    BY <1>15 DEF HasErr
  <2>3. Stream' = <<e>>
    BY <1>6, <1>7, <2>1, ConcatEmptySeq
  <2>4. Stream' # <<>> /\ Stream'[1].what = "echo"
    BY <1>5, <2>3
  <2>5. rx' = <<>>
    BY <1>14
  <2>6. QED
    BY <1>2, <2>1, <2>2, <2>4, <2>5, Zenon DEF Answer
<1>18. PromptToCome'
  BY <1>1 DEF PromptToCome
<1>19. mimics' \in Nat /\ mimics' >= mimics
  BY <1>2, <1>3 DEF ChatTypeOK
<1>20. UNCHANGED <<shown, open, interrupted, orphan>>
  BY <1>1, Zenon DEF historyVars
<1>21. QED
  BY <1>1, <1>8, <1>10, <1>12, <1>13, <1>16, <1>17, <1>18, <1>19, <1>20, BoardKeeps

\* The board writes text of its answer.
LEMMA ShellPrintsStep == ASSUME Inv, ShellPrints PROVE Inv'
<1> DEFINE e == Item("text")
<1>1. /\ busy /\ line' = Append(line, e)
      /\ busy' = busy /\ running' = running /\ rx' = rx
      /\ UNCHANGED hostVars /\ UNCHANGED historyVars
  BY Zenon DEF ShellPrints
<1>2. /\ pc' = pc /\ cur' = cur /\ batch' = batch /\ error' = error
      /\ fstate' = fstate /\ held' = held
      /\ open' = open /\ refused' = refused /\ orphan' = orphan /\ mimics' = mimics
      /\ kind' = kind /\ dirty' = dirty /\ verdict' = verdict
  BY <1>1, Zenon DEF hostVars, framerVars, historyVars
<1>3. ChatTypeOK
  BY DEF Inv
<1>4. e \in Items /\ e.what = "text" /\ e.cmd = running
  BY <1>3 DEF ChatTypeOK, Item, Items, Whats
<1> HIDE DEF e
<1>5. <<e>> \in Seq(Items) /\ Len(<<e>>) = 1 /\ <<e>>[1] = e /\ line' = line \o <<e>>
  BY <1>1, <1>3, <1>4, AppendIsConcat DEF ChatTypeOK
<1>6. Stream' = Stream \o <<e>> /\ line' \in Seq(Items) /\ Stream \in Seq(Items)
  BY <1>2, <1>3, <1>5, StreamGrows, StreamTyped, Zenon
<1>7. ChatTypeOK'
  BY <1>1, <1>2, <1>3, <1>6, ZenonT(40) DEF ChatTypeOK
<1>8. Undisturbed' = Undisturbed
  BY <1>2, Zenon DEF Undisturbed
<1>9. Numbered'
  BY <1>1, <1>2, Zenon DEF Inv, Numbered
<1>10. Allowed' = Allowed
  BY <1>2, Zenon DEF Allowed
<1>11. Tagged'
  <2> SUFFICES ASSUME pc \in {"write", "run"} PROVE Tagged'
    BY <1>2, Zenon DEF Tagged
  <2>1. /\ \A n \in 1 .. Len(rx) : rx[n] \in Allowed
        /\ running \in Allowed /\ (Undisturbed => open = {})
    BY <1>1 DEF Inv, Tagged
  <2>2. \A n \in 1 .. Len(<<e>>) : <<e>>[n].cmd \in Allowed
    BY <1>4, <1>5, <2>1
  <2>3. \A n \in 1 .. Len(Stream') : Stream'[n].cmd \in Allowed
    <3>1. Tagged
      BY DEF Inv
    <3>2. QED
      BY <1>3, <1>5, <1>6, <2>2, <3>1, TagsGrow, Zenon
  <2>4. QED
    BY <1>1, <1>2, <1>8, <1>10, <2>1, <2>3, Zenon DEF Tagged
<1>12. Awaited'
  BY <1>1 DEF Awaited
<1>13. Undisturbed => /\ Closing(Stream) /\ Unmarked(Stream) /\ rx = <<>>
                      /\ Closing(Stream') /\ Unmarked(Stream')
                      /\ HasErr(Stream') <=> HasErr(Stream)
  <2>1. Undisturbed => Closing(Stream) /\ Unmarked(Stream) /\ rx = <<>>
    BY <1>1, Zenon DEF Inv, OneAtATime
  <2>2. QED
    BY <1>4, <1>6, <2>1, MarksText, Zenon
<1>14. OneAtATime'
  <2>1. Undisturbed => Closing(Stream)' /\ Unmarked(Stream)'
    BY <1>13 DEF Closing, Unmarked
  <2>2. QED
    BY <1>1, <1>8, <1>13, <2>1, Zenon DEF Inv, OneAtATime
<1>15. Answer'
  <2> SUFFICES ASSUME Undisturbed, pc = "run" PROVE Answer'
    BY <1>2, <1>8, Zenon DEF Answer
  <2>1. HasErr(Stream)' <=> HasErr(Stream)
    BY <1>13 DEF HasErr
  <2>2. rx' = <<>> /\ rx = <<>>
    BY <1>1, <1>13
  <2>3. /\ cur \in refused <=> error \/ HasErr(Stream)
        /\ cur \notin refused
        /\ ~ (fstate = "tail" \/ held # "no")
        /\ fstate = "echo" => Stream # <<>> /\ Stream[1].what = "echo"
    BY <1>1, <2>2, Zenon DEF Inv, Answer
  <2>4. fstate = "echo" => Stream' # <<>> /\ Stream'[1].what = "echo"
    <3> SUFFICES ASSUME fstate = "echo" PROVE Stream' # <<>> /\ Stream'[1].what = "echo"
      OBVIOUS
    <3>1. Len(Stream) > 0 /\ Len(Stream) \in Nat
      BY <1>6, <2>3, Shortened
    <3>2. /\ Len(Stream') = Len(Stream) + 1
          /\ \A n \in 1 .. Len(Stream) : Stream'[n] = Stream[n]
      BY <1>5, <1>6, Joined
    <3>3. Stream'[1] = Stream[1] /\ Len(Stream') # 0
      BY <3>1, <3>2
    <3>4. QED
      BY <2>3, <3>3
  <2>5. QED
    BY <1>2, <2>1, <2>2, <2>3, <2>4, Zenon DEF Answer
<1>16. PromptToCome'
  BY <1>1 DEF PromptToCome
<1>17. mimics' \in Nat /\ mimics' >= mimics
  BY <1>2, <1>3 DEF ChatTypeOK
<1>18. UNCHANGED <<shown, open, interrupted, orphan>>
  BY <1>1, Zenon DEF historyVars
<1>19. QED
  BY <1>1, <1>7, <1>9, <1>11, <1>12, <1>14, <1>15, <1>16, <1>17, <1>18, BoardKeeps

\* The board writes text that looks like the prompt.
LEMMA ShellMimicsStep == ASSUME Inv, ShellMimics PROVE Inv'
<1>1. /\ busy /\ mimics' = mimics + 1
      /\ busy' = busy /\ running' = running /\ rx' = rx
      /\ UNCHANGED hostVars /\ shown' = shown /\ open' = open /\ refused' = refused
      /\ interrupted' = interrupted /\ orphan' = orphan
  BY Zenon DEF ShellMimics
<1>2. PICK look \in {<<"p1", "p2", "text">>, <<"err">>, <<"dash">>} :
          line' = line \o [n \in DOMAIN look |-> Item(look[n])]
  BY DEF ShellMimics
<1>3. ChatTypeOK /\ running \in Nat /\ mimics \in Nat
  BY DEF Inv, ChatTypeOK
<1> DEFINE t == [n \in DOMAIN look |-> Item(look[n])]
<1>4. t \in Seq(Items) /\ \A n \in 1 .. Len(t) : t[n].cmd = running
  <2>1. /\ look \in Seq(Whats) /\ Len(look) \in Nat /\ DOMAIN look = 1 .. Len(look)
        /\ \A n \in 1 .. Len(look) : look[n] \in Whats
    <3>1. "p1" \in Whats /\ "p2" \in Whats /\ "text" \in Whats /\ "err" \in Whats /\ "dash" \in Whats
      BY DEF Whats
    <3>2. /\ <<"p1", "p2", "text">> \in Seq(Whats)
          /\ <<"err">> \in Seq(Whats) /\ <<"dash">> \in Seq(Whats)
      BY <3>1
    <3>3. look \in Seq(Whats)
      BY <3>2, Zenon
    <3>4. QED
      BY <3>3, LenProperties, ElementOfSeq
  <2>2. \A n \in 1 .. Len(look) : Item(look[n]) \in Items /\ Item(look[n]).cmd = running
    BY <1>3, <2>1 DEF Item, Items
  <2>3. t = [n \in 1 .. Len(look) |-> Item(look[n])]
    BY <2>1
  <2>4. t \in Seq(Items) /\ Len(t) = Len(look)
    BY <2>1, <2>2, <2>3
  <2>5. \A n \in 1 .. Len(t) : t[n] = Item(look[n])
    BY <2>3, <2>4
  <2>6. QED
    BY <2>2, <2>4, <2>5
<1> HIDE DEF t
<1>5. /\ pc' = pc /\ cur' = cur /\ batch' = batch /\ error' = error
      /\ fstate' = fstate /\ held' = held /\ kind' = kind /\ dirty' = dirty /\ verdict' = verdict
  BY <1>1, Zenon DEF hostVars, framerVars
<1>6. Stream' = Stream \o t /\ line' \in Seq(Items)
  <2>1. line' = line \o t
    BY <1>2 DEF t
  <2>2. QED
    BY <1>3, <1>4, <1>5, <2>1, StreamGrows, Zenon
<1>7. mimics' \in Nat /\ mimics' >= mimics /\ mimics' # 0
  BY <1>1, <1>3
<1>8. ~ Undisturbed'
  BY <1>7 DEF Undisturbed
<1>9. ChatTypeOK'
  BY <1>1, <1>3, <1>5, <1>6, <1>7, ZenonT(40) DEF ChatTypeOK
<1>10. Numbered'
  BY <1>1, <1>5, Zenon DEF Inv, Numbered
<1>11. Allowed' = Allowed
  BY <1>1, <1>5, Zenon DEF Allowed
<1>12. Tagged'
  <2> SUFFICES ASSUME pc \in {"write", "run"} PROVE Tagged'
    BY <1>5, Zenon DEF Tagged
  <2>1. (\A n \in 1 .. Len(rx) : rx[n] \in Allowed) /\ running \in Allowed
    BY <1>1 DEF Inv, Tagged
  <2>2. \A n \in 1 .. Len(t) : t[n].cmd \in Allowed
    BY <1>4, <2>1, Zenon
  <2>3. \A n \in 1 .. Len(Stream') : Stream'[n].cmd \in Allowed
    <3>1. Tagged
      BY DEF Inv
    <3>2. QED
      BY <1>3, <1>4, <1>6, <2>2, <3>1, TagsGrow, Zenon
  <2>4. QED
    BY <1>1, <1>8, <1>11, <2>1, <2>3, Zenon DEF Tagged
<1>13. Awaited' /\ PromptToCome'
  BY <1>1 DEF Awaited, PromptToCome
<1>14. OneAtATime' /\ Answer'
  BY <1>8 DEF OneAtATime, Answer
<1>15. UNCHANGED <<shown, open, interrupted, orphan>>
  BY <1>1
<1>16. QED
  BY <1>1, <1>7, <1>9, <1>10, <1>12, <1>13, <1>14, <1>15, BoardKeeps

\* The board ends its answer and prompts.
LEMMA ShellReturnsStep == ASSUME Inv, ShellReturns PROVE Inv'
<1>1. PICK w \in {"stats", "err"} :
          /\ line' = line \o <<Item(w), Item("p1"), Item("p2")>>
          /\ refused' = IF w = "err" THEN refused \cup {running} ELSE refused
  BY DEF ShellReturns
<1>2. /\ busy /\ busy' = FALSE /\ running' = running /\ rx' = rx
      /\ UNCHANGED hostVars /\ shown' = shown /\ open' = open /\ mimics' = mimics
      /\ interrupted' = interrupted /\ orphan' = orphan
  BY Zenon DEF ShellReturns
<1>3. /\ pc' = pc /\ cur' = cur /\ batch' = batch /\ error' = error
      /\ fstate' = fstate /\ held' = held /\ kind' = kind /\ dirty' = dirty /\ verdict' = verdict
  BY <1>2, Zenon DEF hostVars, framerVars
<1>4. ChatTypeOK /\ running \in Nat
  BY DEF Inv, ChatTypeOK
<1> DEFINE k == Item(w)
           p == Item("p1")
           q == Item("p2")
           t == <<k, p, q>>
<1>5. /\ k \in Items /\ k.what = w /\ p \in Items /\ p.what = "p1" /\ q \in Items /\ q.what = "p2"
      /\ k.cmd = running /\ p.cmd = running /\ q.cmd = running
  BY <1>4 DEF Item, Items, Whats
<1> HIDE DEF k, p, q
<1>6. t \in Seq(Items) /\ Len(t) = 3 /\ t[1] = k /\ t[2] = p /\ t[3] = q
  BY <1>5
<1>7. line' = line \o t
  BY <1>1 DEF k, p, q
<1> HIDE DEF t
<1>8. Stream' = Stream \o t /\ line' \in Seq(Items) /\ Stream \in Seq(Items)
  BY <1>3, <1>4, <1>6, <1>7, StreamGrows, StreamTyped, Zenon
<1>9. ChatTypeOK'
  <2>1. busy' \in BOOLEAN
    BY <1>2
  <2>2. QED
    BY <1>2, <1>3, <1>4, <1>8, <2>1, ZenonT(40) DEF ChatTypeOK
<1>10. Undisturbed' = Undisturbed
  BY <1>2, Zenon DEF Undisturbed
<1>11. Numbered'
  <2>1. \A c \in refused' : c \in Nat /\ c <= cur'
    BY <1>1, <1>2, <1>3, <1>4 DEF Inv, Numbered
  <2>2. QED
    BY <1>2, <1>3, <2>1, Zenon DEF Inv, Numbered
<1>12. Allowed' = Allowed
  BY <1>2, <1>3, Zenon DEF Allowed
<1>13. Tagged'
  <2> SUFFICES ASSUME pc \in {"write", "run"} PROVE Tagged'
    BY <1>3, Zenon DEF Tagged
  <2>1. /\ \A n \in 1 .. Len(rx) : rx[n] \in Allowed
        /\ running \in Allowed /\ (Undisturbed => open = {})
    BY <1>2 DEF Inv, Tagged
  <2>2. \A n \in 1 .. Len(t) : t[n].cmd \in Allowed
    <3>1. \A n \in 1 .. Len(t) : n = 1 \/ n = 2 \/ n = 3
      BY <1>6
    <3>2. QED
      BY <1>5, <1>6, <2>1, <3>1
  <2>3. \A n \in 1 .. Len(Stream') : Stream'[n].cmd \in Allowed
    <3>1. Tagged
      BY DEF Inv
    <3>2. QED
      BY <1>4, <1>6, <1>8, <2>2, <3>1, TagsGrow, Zenon
  <2>4. QED
    BY <1>2, <1>10, <1>12, <2>1, <2>3, Zenon DEF Tagged
<1>14. /\ Len(Stream') = Len(Stream) + 3 /\ Len(Stream) \in Nat
       /\ Stream'[Len(Stream) + 1] = k /\ Stream'[Len(Stream) + 2] = p
       /\ Stream'[Len(Stream) + 3] = q
       /\ \A n \in 1 .. Len(Stream) : Stream'[n] = Stream[n]
  <2>1. /\ Len(Stream') = Len(Stream) + Len(t) /\ Len(Stream) \in Nat
        /\ \A n \in 1 .. Len(Stream) : Stream'[n] = Stream[n]
        /\ \A n \in 1 .. Len(t) : Stream'[n + Len(Stream)] = t[n]
    BY <1>6, <1>8, Joined, ZenonT(40)
  <2>2. /\ 1 + Len(Stream) = Len(Stream) + 1 /\ 2 + Len(Stream) = Len(Stream) + 2
        /\ 3 + Len(Stream) = Len(Stream) + 3
    BY <2>1
  <2>3. QED
    BY <1>6, <2>1, <2>2
<1>15. Awaited'
  <2>1. EndsLine(Stream'[Len(Stream) + 1])
    BY <1>5, <1>14 DEF EndsLine
  <2>2. Len(Stream) + 1 \in 1 .. Len(Stream') - 2
    BY <1>14
  <2>3. EndsInPrompt(Stream)'
    <3>1. \E n \in 1 .. Len(Stream') - 2 : EndsLine(Stream'[n])
      BY <2>1, <2>2
    <3>2. /\ Len(Stream') > 1 /\ Len(Stream') = Len(Stream) + 3
          /\ Len(Stream') - 1 = Len(Stream) + 2
      BY <1>14
    <3>3. Stream'[Len(Stream')].what = "p2" /\ Stream'[Len(Stream') - 1].what = "p1"
      BY <1>5, <1>14, <3>2
    <3>4. QED
      BY <3>1, <3>2, <3>3, Zenon DEF EndsInPrompt, EndsLine
  <2>4. QED
    BY <2>3, Zenon DEF Awaited
<1>16. Undisturbed => /\ rx = <<>> /\ Unmarked(Stream) /\ Closing(Stream')
                      /\ HasErr(Stream') <=> w = "err"
  <2>1. Undisturbed => Closing(Stream) /\ Unmarked(Stream) /\ rx = <<>>
    BY <1>2, Zenon DEF Inv, OneAtATime
  <2>2. Undisturbed => /\ Closing(Stream \o <<k, p, q>>)
                       /\ HasErr(Stream \o <<k, p, q>>) <=> k.what = "err"
    BY <1>1, <1>5, <1>8, <2>1, MarksEnd
  <2>3. QED
    BY <1>5, <1>8, <2>1, <2>2 DEF t
<1>17. OneAtATime'
  <2>1. Undisturbed => Closing(Stream)'
    BY <1>16 DEF Closing
  <2>2. Len(<<>>) <= 1
    OBVIOUS
  <2>3. QED
    BY <1>2, <1>10, <1>16, <2>1, <2>2, Zenon DEF OneAtATime
<1>18. Answer'
  <2> SUFFICES ASSUME Undisturbed, pc = "run" PROVE Answer'
    BY <1>3, <1>10, Zenon DEF Answer
  <2>1. rx' = <<>> /\ rx = <<>> /\ busy' = FALSE
    BY <1>2, <1>16
  <2>2. /\ cur \in refused <=> error \/ HasErr(Stream)
        /\ cur \notin refused
        /\ ~ (fstate = "tail" \/ held # "no")
        /\ fstate = "echo" => Stream # <<>> /\ Stream[1].what = "echo"
    BY <1>2, <2>1, Zenon DEF Inv, Answer
  <2>3. running = cur
    BY <1>2 DEF Inv, Tagged, Allowed
  <2>4. HasErr(Stream)' <=> w = "err"
    BY <1>16 DEF HasErr
  <2>5. cur' \in refused' <=> w = "err"
    BY <1>1, <1>3, <2>2, <2>3
  <2>6. fstate = "echo" => Stream' # <<>> /\ Stream'[1].what = "echo"
    <3> SUFFICES ASSUME fstate = "echo" PROVE Stream' # <<>> /\ Stream'[1].what = "echo"
      OBVIOUS
    <3>1. Len(Stream) > 0
      BY <1>8, <2>2, Shortened
    <3>2. Stream'[1] = Stream[1] /\ Len(Stream') # 0
      BY <1>14, <3>1
    <3>3. QED
      BY <2>2, <3>2
  <2>7. ~ error' /\ ~ (fstate' = "tail" \/ held' # "no")
    BY <1>3, <2>2, Zenon
  <2>8. cur' \in refused' <=> error' \/ HasErr(Stream)'
    BY <2>4, <2>5, <2>7, Zenon
  <2>9. QED
    BY <1>3, <2>1, <2>6, <2>7, <2>8, Zenon DEF Answer
<1>19. PromptToCome'
  <2>1. /\ line \in Seq(Items) /\ Len(line) \in Nat /\ Len(line') = Len(line) + 3
        /\ line'[2 + Len(line)] = p /\ DOMAIN line' = 1 .. Len(line')
    <3>1. line \in Seq(Items)
      BY <1>4 DEF ChatTypeOK
    <3>2. /\ Len(line) \in Nat /\ Len(line') = Len(line) + Len(t)
          /\ \A n \in 1 .. Len(t) : line'[n + Len(line)] = t[n]
      BY <1>6, <1>7, <3>1, Joined, Zenon
    <3>3. QED
      BY <1>6, <1>8, <3>1, <3>2
  <2>2. 2 + Len(line) \in DOMAIN line' /\ line'[2 + Len(line)].what = "p1"
    BY <1>5, <2>1
  <2>3. QED
    BY <2>2, Zenon DEF PromptToCome
<1>20. mimics' \in Nat /\ mimics' >= mimics
  BY <1>2, <1>4 DEF ChatTypeOK
<1>21. UNCHANGED <<shown, open, interrupted, orphan>>
  BY <1>2
<1>22. QED
  BY <1>2, <1>9, <1>11, <1>13, <1>15, <1>17, <1>18, <1>19, <1>20, <1>21, BoardKeeps
-----------------------------------------------------------------------------
(* The host. *)

\* Back at the input with a new framer: what was not read stays on the line.
LEMMA ToInput ==
    ASSUME Inv, pc' = "input", batch' = <<>>, fstate' = "stream", held' = "no",
           UNCHANGED boardVars, line' \in {line, <<>>}, kind' = kind, cur' = cur,
           refused' = refused, mimics' = mimics,
           orphan' \in BOOLEAN, Undisturbed' => Undisturbed,
           dirty' \in BOOLEAN, error' \in BOOLEAN, verdict' \in {"none", "ok", "failed"},
           verdict' # "none" => ~ dirty',
           CleanMeansQuiet', Pairing', VerdictIsTheBoards', DirtIsRecoverable'
    PROVE  Inv'
<1>1. busy' = busy /\ running' = running /\ rx' = rx
  BY Zenon DEF boardVars
<1>2. ChatTypeOK
  BY DEF Inv
<1>3. <<>> \in Seq(Items)
  OBVIOUS
<1>4. line' \in Seq(Items) /\ batch' \in Seq(Items)
  BY <1>2, <1>3, Zenon DEF ChatTypeOK
<1>5. "input" \in {"input", "resync", "drain", "write", "run"}
      /\ "stream" \in {"echo", "stream", "tail"} /\ "no" \in {"no", "half", "whole"}
  OBVIOUS
<1>6. ChatTypeOK'
  BY <1>1, <1>2, <1>4, <1>5, Zenon DEF ChatTypeOK
<1>7. Phases' /\ Tagged' /\ Awaited' /\ Answer'
  BY DEF Phases, Tagged, Awaited, Answer
<1>8. Numbered'
  BY <1>1, Zenon DEF Inv, Numbered
<1>9. Stream' = line'
  BY <1>4, ConcatEmptySeq DEF Stream
<1>10. OneAtATime'
  <2> SUFFICES ASSUME Undisturbed PROVE OneAtATime'
    BY DEF OneAtATime
  <2>1. /\ busy => rx = <<>>
        /\ Len(rx) <= 1
        /\ Closing(Stream)
        /\ busy \/ rx # <<>> => Unmarked(Stream)
    BY Zenon DEF Inv, OneAtATime
  <2>2. Closing(line) /\ (busy \/ rx # <<>> => Unmarked(line))
    BY <1>2, <2>1, MarksSuffix DEF ChatTypeOK, Stream
  <2>3. Closing(<<>>) /\ Unmarked(<<>>)
    BY DEF Closing, Unmarked
  <2>4. Closing(line') /\ (busy \/ rx # <<>> => Unmarked(line'))
    BY <2>2, <2>3, Zenon
  <2>5. Closing(Stream)' /\ (busy \/ rx # <<>> => Unmarked(Stream)')
    BY <1>9, <2>4 DEF Closing, Unmarked
  <2>6. QED
    BY <1>1, <2>1, <2>5, Zenon DEF OneAtATime
<1>11. QED
  BY <1>6, <1>7, <1>8, <1>10 DEF Inv

\* A wait that is given up marks the backend dirty, and a prompt is still to
\* come unless the wait was interrupted.
LEMMA LeaveStep == ASSUME Inv, ResyncTimeout \/ RunTimeout \/ Cancel PROVE Inv'
<1>1. /\ pc' = "input" /\ batch' = <<>> /\ fstate' = "stream" /\ held' = "no"
      /\ UNCHANGED boardVars /\ line' = line /\ kind' = kind /\ cur' = cur
      /\ refused' = refused /\ mimics' = mimics /\ orphan' = orphan
      /\ error' = error /\ verdict' = verdict /\ shown' = shown /\ open' = open
  BY Zenon DEF ResyncTimeout, RunTimeout, Cancel, NewFramer, historyVars
<1>2. dirty' = TRUE
  BY Zenon DEF Inv, ChatTypeOK, Phases, ResyncTimeout, RunTimeout, Cancel
<1>3. pc # "input"
  BY DEF ResyncTimeout, RunTimeout, Cancel
<1>4. verdict = "none"
  BY <1>3 DEF Inv, Phases
<1>5. Undisturbed' = Undisturbed
  BY <1>1, Zenon DEF Undisturbed
<1>6. CleanMeansQuiet'
  BY <1>2 DEF CleanMeansQuiet
<1>7. Pairing'
  BY <1>1, <1>5, Zenon DEF Inv, Pairing
<1>8. VerdictIsTheBoards'
  BY <1>1, <1>4 DEF VerdictIsTheBoards
<1>9. DirtIsRecoverable'
  <2>1. CASE ResyncTimeout \/ Cancel
    BY <2>1, Zenon DEF ResyncTimeout, Cancel, DirtIsRecoverable
  <2>2. CASE RunTimeout
    <3>1. pc = "run" /\ batch = <<>> /\ line = <<>>
      BY <2>2, Zenon DEF RunTimeout
    <3>2. Stream = <<>> /\ Len(Stream) = 0
      BY <3>1, StreamTyped DEF Inv
    <3>3. ~ EndsInPrompt(Stream)
      BY <3>2 DEF EndsInPrompt
    <3>4. busy \/ rx # <<>>
      BY <3>1, <3>3, Zenon DEF Inv, Awaited
    <3>5. QED
      BY <1>1, <3>4, Zenon DEF boardVars, DirtIsRecoverable, PromptToCome
  <2>3. QED
    BY <2>1, <2>2
<1>10. /\ orphan' \in BOOLEAN /\ error' \in BOOLEAN /\ verdict' \in {"none", "ok", "failed"}
  BY <1>1, Zenon DEF Inv, ChatTypeOK
<1>11. line' \in {line, <<>>} /\ dirty' \in BOOLEAN /\ (verdict' # "none" => ~ dirty')
  BY <1>1, <1>2, <1>4
<1>12. QED
  BY <1>1, <1>5, <1>6, <1>7, <1>8, <1>9, <1>10, <1>11, ToInput

\* A new chat.py starts clean; over a running command it is disturbed.
LEMMA RestartStep == ASSUME Inv, Restart PROVE Inv'
<1>1. /\ pc' = "input" /\ batch' = <<>> /\ fstate' = "stream" /\ held' = "no"
      /\ UNCHANGED boardVars /\ line' = <<>> /\ kind' = kind /\ cur' = cur /\ dirty' = FALSE
      /\ refused' = refused /\ mimics' = mimics /\ orphan' = (orphan \/ busy \/ rx # <<>>)
      /\ error' = error /\ verdict' = verdict /\ shown' = shown /\ open' = open
      /\ interrupted' = interrupted
  BY Zenon DEF Restart, NewFramer
<1>2. Undisturbed' => Undisturbed /\ ~ busy /\ rx = <<>>
  BY <1>1, Zenon DEF Undisturbed
<1>3. CleanMeansQuiet'
  BY <1>1, <1>2, Zenon DEF boardVars, CleanMeansQuiet
<1>4. Pairing'
  BY <1>1, <1>2 DEF Inv, Pairing
<1>5. VerdictIsTheBoards'
  BY <1>1, <1>2, Zenon DEF Inv, VerdictIsTheBoards
<1>6. DirtIsRecoverable'
  BY <1>1 DEF DirtIsRecoverable
<1>7. /\ orphan' \in BOOLEAN /\ error' \in BOOLEAN /\ verdict' \in {"none", "ok", "failed"}
  BY <1>1, Zenon DEF Inv, ChatTypeOK
<1>8. line' \in {line, <<>>} /\ dirty' \in BOOLEAN /\ (verdict' # "none" => ~ dirty')
  BY <1>1
<1>9. Undisturbed' => Undisturbed
  BY <1>2
<1>10. QED
  BY <1>1, <1>3, <1>4, <1>5, <1>6, <1>7, <1>8, <1>9, ToInput

\* A read moves the cut between chunk and line, nothing else.
LEMMA ReadStep == ASSUME Inv, ResyncRead \/ RunRead PROVE Inv'
<1>1. /\ pc \in {"resync", "run"} /\ batch = <<>> /\ Take
      /\ UNCHANGED boardVars /\ UNCHANGED historyVars
      /\ pc' = pc /\ kind' = kind /\ cur' = cur /\ dirty' = dirty /\ fstate' = fstate
      /\ held' = held /\ error' = error /\ verdict' = verdict
  BY DEF ResyncRead, RunRead
<1>2. /\ busy' = busy /\ running' = running /\ rx' = rx
      /\ shown' = shown /\ open' = open /\ refused' = refused /\ mimics' = mimics
      /\ orphan' = orphan /\ interrupted' = interrupted
  BY <1>1, Zenon DEF boardVars, historyVars
<1>3. Stream' = Stream /\ batch' \in Seq(Items) /\ line' \in Seq(Items)
  BY <1>1, StreamTaken DEF Inv
<1>4. ChatTypeOK'
  BY <1>1, <1>2, <1>3, ZenonT(40) DEF Inv, ChatTypeOK
<1>5. Undisturbed' = Undisturbed /\ Allowed' = Allowed
  BY <1>1, <1>2, Zenon DEF Undisturbed, Allowed
<1>6. Phases'
  BY <1>1, <1>2 DEF Inv, Phases
<1>7. Numbered' /\ Tagged'
  BY <1>1, <1>2, <1>3, <1>5, Zenon DEF Inv, Numbered, Tagged
<1>8. /\ Closing(Stream)' = Closing(Stream) /\ Unmarked(Stream)' = Unmarked(Stream)
      /\ HasErr(Stream)' = HasErr(Stream) /\ EndsInPrompt(Stream)' = EndsInPrompt(Stream)
  BY <1>1, <1>3, Zenon DEF Closing, Unmarked, HasErr, EndsInPrompt, EndsLine
<1>9. Awaited' /\ OneAtATime'
  BY <1>1, <1>2, <1>5, <1>8, Zenon DEF Inv, Awaited, OneAtATime
<1>10. Answer'
  BY <1>1, <1>2, <1>3, <1>5, <1>8, Zenon DEF Inv, Answer
<1>11. verdict = "none" /\ (pc = "run" \/ dirty)
  BY <1>1 DEF Inv, Phases
<1>12. CleanMeansQuiet' /\ VerdictIsTheBoards' /\ DirtIsRecoverable'
  BY <1>1, <1>11 DEF CleanMeansQuiet, VerdictIsTheBoards, DirtIsRecoverable
<1>13. Pairing'
  BY <1>1, <1>2, <1>5, Zenon DEF Inv, Pairing
<1>14. QED
  BY <1>4, <1>6, <1>7, <1>9, <1>10, <1>12, <1>13 DEF Inv

\* A line entered over a clean backend finds the board idle.
LEMMA EnterLineStep == ASSUME Inv, NEW k \in {"gen", "info"}, EnterLine(k) PROVE Inv'
<1>1. /\ pc = "input" /\ kind' = k /\ pc' = (IF dirty THEN "resync" ELSE "drain")
      /\ shown' = {} /\ verdict' = "none" /\ batch' = <<>> /\ fstate' = "stream" /\ held' = "no"
      /\ busy' = busy /\ running' = running /\ rx' = rx
      /\ line' = line /\ cur' = cur /\ dirty' = dirty /\ error' = error
      /\ open' = open /\ refused' = refused /\ mimics' = mimics /\ orphan' = orphan
  BY Zenon DEF EnterLine, NewFramer, boardVars
<1>2. ChatTypeOK /\ batch = <<>>
  BY <1>1 DEF Inv, Phases
<1>3. dirty' \in BOOLEAN
  BY <1>1, <1>2, Zenon DEF ChatTypeOK
<1>4. pc' \in {"resync", "drain"} /\ (pc' = "resync" => dirty') /\ (pc' = "drain" => ~ dirty')
  BY <1>1, <1>3
<1>5. ChatTypeOK'
  <2>1. /\ pc' \in {"input", "resync", "drain", "write", "run"} /\ kind' \in {"gen", "info"}
        /\ fstate' \in {"echo", "stream", "tail"} /\ held' \in {"no", "half", "whole"}
        /\ verdict' \in {"none", "ok", "failed"}
    BY <1>1, <1>4
  <2>2. QED
    BY <1>1, <1>2, <2>1, Zenon DEF ChatTypeOK
<1>6. Stream' = Stream
  BY <1>1, <1>2, Zenon DEF Stream
<1>7. Phases'
  BY <1>1, <1>4 DEF Phases
<1>8. Numbered'
  BY <1>1, Zenon DEF Inv, Numbered
<1>9. Tagged' /\ Awaited' /\ Answer'
  BY <1>4 DEF Tagged, Awaited, Answer
<1>10. Undisturbed' = Undisturbed
  BY <1>1, Zenon DEF Undisturbed
<1>11. OneAtATime'
  <2>1. Closing(Stream)' = Closing(Stream) /\ Unmarked(Stream)' = Unmarked(Stream)
    BY <1>6, Zenon DEF Closing, Unmarked
  <2>2. QED
    BY <1>1, <1>10, <2>1, Zenon DEF Inv, OneAtATime
<1>12. CleanMeansQuiet'
  <2>1. pc # "run"
    BY <1>1
  <2>2. QED
    BY <1>1, <1>10, <2>1, Zenon DEF Inv, CleanMeansQuiet
<1>13. Pairing' /\ VerdictIsTheBoards' /\ DirtIsRecoverable'
  BY <1>1, <1>4 DEF Pairing, VerdictIsTheBoards, DirtIsRecoverable
<1>14. QED
  BY <1>5, <1>7, <1>8, <1>9, <1>11, <1>12, <1>13 DEF Inv

\* What _drain meets silence with is all that can still be printed by others.
LEMMA DrainStep == ASSUME Inv, Drain PROVE Inv'
<1>1. /\ pc = "drain" /\ kind' = kind /\ cur' = cur /\ dirty' = dirty
      /\ busy' = busy /\ running' = running /\ rx' = rx
      /\ batch' = batch /\ fstate' = fstate /\ held' = held /\ error' = error
      /\ verdict' = verdict /\ shown' = shown /\ refused' = refused /\ mimics' = mimics
      /\ orphan' = orphan
  BY Zenon DEF Drain, boardVars, framerVars
<1>2. ChatTypeOK /\ batch = <<>> /\ ~ dirty /\ shown = {} /\ verdict = "none"
  BY <1>1 DEF Inv, Phases
<1>3. Undisturbed' = Undisturbed
  BY <1>1, Zenon DEF Undisturbed
<1>4. Undisturbed => ~ busy /\ rx = <<>> /\ line = <<>>
  BY <1>1, <1>2 DEF Inv, CleanMeansQuiet
<1>5. line' \in Seq(Items) /\ (line = <<>> => line' = <<>>) /\ pc' \in {"write", "drain", "input"}
  <2>1. CASE line = <<>>
    BY <1>2, <2>1 DEF Drain, ChatTypeOK
  <2>2. CASE line # <<>>
    <3>1. PICK n \in 1 .. Len(line) : line' = SubSeq(line, n + 1, Len(line))
      BY <2>2 DEF Drain
    <3>2. line \in Seq(Items) /\ Len(line) \in Nat
      BY <1>2, LenProperties DEF ChatTypeOK
    <3>3. \A m \in 1 .. Len(line) : line[m] \in Items
      BY <3>2, ElementOfSeq
    <3>4. line' \in Seq(Items)
      BY <3>1, <3>2, <3>3, SubSeqProperties
    <3>5. pc' \in {"drain", "input"}
      BY <2>2 DEF Drain
    <3>6. QED
      BY <2>2, <3>4, <3>5
  <2>3. QED
    BY <2>1, <2>2
<1>6. ChatTypeOK'
  <2>1. pc' \in {"input", "resync", "drain", "write", "run"}
    BY <1>5
  <2>2. QED
    BY <1>1, <1>2, <1>5, <2>1, Zenon DEF ChatTypeOK
<1>7. Stream' = line'
  BY <1>1, <1>2, <1>5, ConcatEmptySeq DEF Stream
<1>8. Phases'
  BY <1>1, <1>2, <1>5 DEF Phases
<1>9. Numbered'
  BY <1>1, Zenon DEF Inv, Numbered
<1>10. Awaited' /\ Answer'
  BY <1>5 DEF Awaited, Answer
<1>11. Tagged'
  <2> SUFFICES ASSUME pc' = "write" PROVE Tagged'
    BY <1>5 DEF Tagged
  <2>1. line = <<>> /\ open' = {rx[n] : n \in DOMAIN rx} \cup (IF busy THEN {running} ELSE {})
    BY <1>1 DEF Drain
  <2>2. rx \in Seq(Nat) /\ DOMAIN rx = 1 .. Len(rx)
    BY <1>2 DEF ChatTypeOK
  <2>3. Allowed' = open'
    BY DEF Allowed
  <2>4. /\ \A n \in 1 .. Len(rx) : rx[n] \in open'
        /\ busy => running \in open'
    BY <2>1, <2>2
  <2>5. Undisturbed => open' = {}
    <3>1. DOMAIN <<>> = {}
      OBVIOUS
    <3>2. QED
      BY <1>4, <2>1, <3>1
  <2>6. \A n \in 1 .. Len(Stream') : Stream'[n].cmd \in Allowed'
    BY <1>5, <1>7, <2>1
  <2>7. QED
    BY <1>1, <1>3, <2>3, <2>4, <2>5, <2>6, Zenon DEF Tagged
<1>12. OneAtATime'
  <2> SUFFICES ASSUME Undisturbed PROVE OneAtATime'
    BY <1>3, Zenon DEF OneAtATime
  <2>1. ~ busy' /\ rx' = <<>> /\ Stream' = <<>> /\ Len(rx') <= 1
    BY <1>1, <1>4, <1>5, <1>7
  <2>2. Closing(Stream)'
    BY <2>1 DEF Closing
  <2>3. QED
    BY <2>1, <2>2, Zenon DEF OneAtATime
<1>13. CleanMeansQuiet'
  BY <1>1, <1>3, <1>4, <1>5, Zenon DEF CleanMeansQuiet
<1>14. Pairing' /\ VerdictIsTheBoards' /\ DirtIsRecoverable'
  BY <1>1, <1>2 DEF Pairing, VerdictIsTheBoards, DirtIsRecoverable
<1>15. QED
  BY <1>6, <1>8, <1>9, <1>10, <1>11, <1>12, <1>13, <1>14 DEF Inv

\* The command written is the next number, and no one else's output is due.
LEMMA WriteCommandStep == ASSUME Inv, WriteCommand PROVE Inv'
<1>1. /\ pc = "write" /\ cur' = cur + 1 /\ rx' = Append(rx, cur + 1)
      /\ batch' = <<>> /\ fstate' = "echo" /\ held' = "no" /\ error' = FALSE /\ pc' = "run"
      /\ busy' = busy /\ running' = running /\ line' = line /\ kind' = kind /\ dirty' = dirty
      /\ verdict' = verdict /\ shown' = shown /\ open' = open /\ refused' = refused
      /\ mimics' = mimics /\ orphan' = orphan
  BY Zenon DEF WriteCommand, NewFramer, historyVars
<1>2. ChatTypeOK /\ batch = <<>> /\ ~ dirty /\ shown = {} /\ verdict = "none"
  BY <1>1 DEF Inv, Phases
<1>3. cur \in Nat /\ cur + 1 \in Nat /\ rx \in Seq(Nat) /\ Len(rx) \in Nat
  BY <1>2, LenProperties DEF ChatTypeOK
<1>4. /\ rx' \in Seq(Nat) /\ Len(rx') = Len(rx) + 1 /\ rx' # <<>>
      /\ \A n \in 1 .. Len(rx') : (n \in 1 .. Len(rx) /\ rx'[n] = rx[n]) \/ rx'[n] = cur + 1
  <2>1. /\ rx' \in Seq(Nat) /\ Len(rx') = Len(rx) + 1
        /\ \A n \in 1 .. Len(rx) : rx'[n] = rx[n]
        /\ rx'[Len(rx) + 1] = cur + 1
    BY <1>1, <1>3
  <2>2. \A n \in 1 .. Len(rx') : n \in 1 .. Len(rx) \/ n = Len(rx) + 1
    BY <1>3, <2>1
  <2>3. Len(rx') # 0
    BY <1>3, <2>1
  <2>4. rx' # <<>>
    BY <2>3
  <2>5. QED
    BY <2>1, <2>2, <2>4, Zenon
<1>5. Undisturbed' = Undisturbed
  BY <1>1, Zenon DEF Undisturbed
<1>6. Stream' = Stream /\ (Undisturbed => ~ busy /\ rx = <<>> /\ Stream = <<>>)
  <2>1. Stream' = Stream
    BY <1>1, <1>2, Zenon DEF Stream
  <2>2. Stream = line
    BY <1>2, StreamTyped
  <2>3. Undisturbed => ~ busy /\ rx = <<>> /\ line = <<>>
    BY <1>1, <1>2 DEF Inv, CleanMeansQuiet
  <2>4. QED
    BY <2>1, <2>2, <2>3
<1>7. ChatTypeOK'
  <2>1. /\ <<>> \in Seq(Items) /\ "run" \in {"input", "resync", "drain", "write", "run"}
        /\ "echo" \in {"echo", "stream", "tail"} /\ "no" \in {"no", "half", "whole"}
        /\ FALSE \in BOOLEAN
    OBVIOUS
  <2>2. QED
    BY <1>1, <1>2, <1>3, <1>4, <2>1, Zenon DEF ChatTypeOK
<1>8. Phases'
  BY <1>1, <1>2 DEF Phases
<1>9. Numbered'
  <2>1. /\ \A n \in 1 .. Len(rx) : rx[n] <= cur /\ rx[n] \in Nat
        /\ busy => running <= cur
        /\ \A c \in refused : c \in Nat /\ c <= cur
    BY <1>3 DEF Inv, Numbered
  <2>2. running \in Nat
    BY <1>2 DEF ChatTypeOK
  <2>3. \A c \in Nat : c <= cur => c <= cur + 1
    BY <1>3
  <2>4. cur + 1 <= cur + 1
    BY <1>3
  <2>5. QED
    BY <1>1, <1>4, <2>1, <2>2, <2>3, <2>4, Zenon DEF Numbered
<1>10. Tagged'
  <2>1. Allowed = open /\ Allowed' = open \cup {cur + 1}
    BY <1>1 DEF Allowed
  <2>2. /\ \A n \in 1 .. Len(rx) : rx[n] \in open
        /\ busy => running \in open
        /\ \A n \in 1 .. Len(Stream) : Stream[n].cmd \in open
        /\ Undisturbed => open = {}
    BY <1>1, <2>1 DEF Inv, Tagged
  <2>3. \A n \in 1 .. Len(rx') : rx'[n] \in Allowed'
    BY <1>4, <2>1, <2>2
  <2>4. QED
    BY <1>1, <1>5, <1>6, <2>1, <2>2, <2>3, Zenon DEF Tagged
<1>11. Awaited'
  BY <1>4 DEF Awaited
<1>12. OneAtATime'
  <2> SUFFICES ASSUME Undisturbed PROVE OneAtATime'
    BY <1>5, Zenon DEF OneAtATime
  <2>1. ~ busy' /\ Stream' = <<>>
    BY <1>1, <1>6
  <2>2. Len(rx') <= 1
    <3>1. Len(rx) = 0
      BY <1>6
    <3>2. QED
      BY <1>4, <3>1
  <2>3. Closing(Stream)' /\ Unmarked(Stream)'
    BY <2>1 DEF Closing, Unmarked
  <2>4. QED
    BY <2>1, <2>2, <2>3, Zenon DEF OneAtATime
<1>13. Answer'
  <2> SUFFICES ASSUME Undisturbed PROVE Answer'
    BY <1>5, Zenon DEF Answer
  <2>1. cur' \notin refused'
    <3>1. \A c \in refused : c \in Nat /\ c <= cur
      BY DEF Inv, Numbered
    <3>2. cur + 1 \notin refused
      BY <1>3, <3>1
    <3>3. QED
      BY <1>1, <3>2
  <2>2. Stream' = <<>>
    BY <1>6
  <2>3. ~ HasErr(Stream)'
    BY <2>2 DEF HasErr
  <2>4. fstate' # "tail" /\ held' = "no" /\ ~ error'
    BY <1>1
  <2>5. QED
    BY <1>4, <2>1, <2>2, <2>3, <2>4, Zenon DEF Answer
<1>14. CleanMeansQuiet' /\ Pairing' /\ VerdictIsTheBoards' /\ DirtIsRecoverable'
  BY <1>1, <1>2 DEF CleanMeansQuiet, Pairing, VerdictIsTheBoards, DirtIsRecoverable
<1>15. QED
  BY <1>7, <1>8, <1>9, <1>10, <1>11, <1>12, <1>13, <1>14 DEF Inv

\* A framer that starts after the end of an answer sees the prompt as its end:
\* the board is idle and the line is read.
LEMMA PromptIsLast ==
    ASSUME Inv, Undisturbed, batch # <<>>, Head(batch).what = "p2"
    PROVE  Len(Stream) = 1 /\ line = <<>> /\ ~ busy /\ rx = <<>> /\ ~ HasErr(Stream)
<1>1. /\ Stream # <<>> /\ Head(batch) = Stream[1]
      /\ Len(Stream) = 1 => Tail(batch) = <<>> /\ line = <<>>
  BY StreamFed DEF Inv
<1>2. Stream \in Seq(Items) /\ Len(Stream) \in Nat /\ Len(Stream) > 0
  BY <1>1, StreamTyped, Shortened DEF Inv
<1>3. 1 \in 1 .. Len(Stream)
  BY <1>2
<1>4. Stream[1].what \in Marks /\ Rest(Stream[1].what) = 0 /\ Stream[1].what # "err"
  BY <1>1 DEF Marks, Rest
<1>5. Len(Stream) - 1 = 0
  BY <1>3, <1>4 DEF Inv, OneAtATime, Closing
<1>6. ~ Unmarked(Stream)
  BY <1>3, <1>4 DEF Unmarked
<1>7. Len(Stream) = 1
  BY <1>2, <1>5
<1>8. ~ HasErr(Stream)
  <2>1. \A n \in 1 .. Len(Stream) : n = 1
    BY <1>7
  <2>2. QED
    BY <1>4, <2>1, Zenon DEF HasErr
<1>9. ~ busy /\ rx = <<>>
  BY <1>6, Zenon DEF Inv, OneAtATime
<1>10. QED
  BY <1>1, <1>7, <1>8, <1>9, Zenon

\* One item of a chunk is used up: the stream is shorter by its first item.
LEMMA FedKeeps ==
    ASSUME Inv, batch # <<>>, Feed(Head(batch)), UNCHANGED boardVars, line' = line,
           mimics' = mimics, orphan' = orphan
    PROVE  /\ Stream' = Tail(Stream) /\ batch' \in Seq(Items)
           /\ fstate' \in {"echo", "stream", "tail"} /\ held' \in {"no", "half", "whole"}
           /\ OneAtATime'
<1>1. /\ Stream # <<>> /\ Tail(batch) \in Seq(Items) /\ Tail(batch) \o line = Tail(Stream)
  BY StreamFed DEF Inv
<1>2. batch' = Tail(batch)
  BY DEF Feed
<1>3. Stream' = Tail(Stream)
  BY <1>1, <1>2, Zenon DEF Stream
<1>4. fstate \in {"echo", "stream", "tail"} /\ held \in {"no", "half", "whole"}
  BY DEF Inv, ChatTypeOK
<1>5. fstate' \in {"echo", "stream", "tail"} /\ held' \in {"no", "half", "whole"}
  BY <1>4 DEF Feed
<1>6. busy' = busy /\ rx' = rx
  BY Zenon DEF boardVars
<1>7. OneAtATime'
  <2>1. Undisturbed' = Undisturbed
    BY Zenon DEF Undisturbed
  <2>2. Stream \in Seq(Items)
    BY StreamTyped DEF Inv
  <2>3. /\ Closing(Stream) => Closing(Tail(Stream))
        /\ Unmarked(Stream) => Unmarked(Tail(Stream))
    BY <1>1, <2>2, MarksTail
  <2>4. Closing(Stream)' = Closing(Tail(Stream)) /\ Unmarked(Stream)' = Unmarked(Tail(Stream))
    BY <1>3, Zenon DEF Closing, Unmarked
  <2>5. QED
    BY <1>6, <2>1, <2>3, <2>4, Zenon DEF Inv, OneAtATime
<1>8. QED
  BY <1>1, <1>2, <1>3, <1>5, <1>7

\* A resync ends on a prompt, and then the board is idle.
LEMMA ResyncEventStep == ASSUME Inv, ResyncEvent PROVE Inv'
<1>1. /\ pc = "resync" /\ batch # <<>> /\ UNCHANGED boardVars /\ line' = line /\ kind' = kind
      /\ cur' = cur /\ error' = error /\ verdict' = verdict
      /\ shown' = shown /\ open' = open /\ refused' = refused /\ mimics' = mimics
      /\ orphan' = orphan
  BY Zenon DEF ResyncEvent, historyVars
<1>2. busy' = busy /\ running' = running /\ rx' = rx
  BY <1>1, Zenon DEF boardVars
<1>3. ChatTypeOK /\ dirty /\ shown = {} /\ verdict = "none"
  BY <1>1 DEF Inv, Phases
<1>4. Undisturbed' = Undisturbed
  BY <1>1, Zenon DEF Undisturbed
<1>5. Numbered'
  BY <1>1, <1>2, Zenon DEF Inv, Numbered
<1>6. Pairing' /\ VerdictIsTheBoards'
  BY <1>1, <1>3 DEF Pairing, VerdictIsTheBoards
<1>7. CASE Event(Head(batch)) = "done"
  <2>1. /\ dirty' = FALSE /\ pc' = "drain" /\ batch' = <<>> /\ fstate' = "stream" /\ held' = "no"
    BY <1>7, Zenon DEF ResyncEvent, NewFramer
  <2>2. Head(batch).what = "p2"
    <3>1. Head(batch) \in Items
      BY <1>1, <1>3, StreamFed
    <3>2. QED
      BY <1>7, <3>1 DEF Event, PromptSeen, TakenFor, EndsLine, Items, Whats
  <2>3. Undisturbed => line = <<>> /\ ~ busy /\ rx = <<>>
    BY <1>1, <2>2, PromptIsLast
  <2>4. ChatTypeOK'
    <3>1. /\ <<>> \in Seq(Items) /\ "drain" \in {"input", "resync", "drain", "write", "run"}
          /\ "stream" \in {"echo", "stream", "tail"} /\ "no" \in {"no", "half", "whole"}
          /\ FALSE \in BOOLEAN
      OBVIOUS
    <3>2. QED
      BY <1>1, <1>2, <1>3, <2>1, <3>1, Zenon DEF ChatTypeOK
  <2>5. Phases' /\ Tagged' /\ Awaited' /\ Answer' /\ DirtIsRecoverable'
    BY <1>1, <1>3, <2>1 DEF Phases, Tagged, Awaited, Answer, DirtIsRecoverable
  <2>6. CleanMeansQuiet'
    BY <1>1, <1>2, <1>4, <2>3, Zenon DEF CleanMeansQuiet
  <2>7. OneAtATime'
    <3> SUFFICES ASSUME Undisturbed PROVE OneAtATime'
      BY <1>4, Zenon DEF OneAtATime
    <3>1. ~ busy' /\ rx' = <<>> /\ Len(rx') <= 1
      BY <1>2, <2>3
    <3>2. Stream' = <<>>
      <4>1. <<>> \o <<>> = <<>>
        OBVIOUS
      <4>2. QED
        BY <1>1, <2>1, <2>3, <4>1 DEF Stream
    <3>3. Closing(Stream)'
      BY <3>2 DEF Closing
    <3>4. QED
      BY <3>1, <3>3, Zenon DEF OneAtATime
  <2>8. QED
    BY <1>5, <1>6, <2>4, <2>5, <2>6, <2>7 DEF Inv
<1>8. CASE Event(Head(batch)) # "done"
  <2>1. Feed(Head(batch)) /\ dirty' = dirty /\ pc' = pc
    BY <1>8, Zenon DEF ResyncEvent
  <2>2. /\ batch' \in Seq(Items) /\ fstate' \in {"echo", "stream", "tail"}
        /\ held' \in {"no", "half", "whole"} /\ OneAtATime'
    BY <1>1, <2>1, FedKeeps
  <2>3. ChatTypeOK'
    BY <1>1, <1>2, <1>3, <2>1, <2>2, Zenon DEF ChatTypeOK
  <2>4. Phases' /\ Tagged' /\ Awaited' /\ Answer' /\ DirtIsRecoverable' /\ CleanMeansQuiet'
    BY <1>1, <1>3, <2>1 DEF Phases, Tagged, Awaited, Answer, DirtIsRecoverable, CleanMeansQuiet
  <2>5. QED
    BY <1>5, <1>6, <2>2, <2>3, <2>4 DEF Inv
<1>9. QED
  BY <1>7, <1>8

\* Behind the first item of the end of an answer there is no error line.
LEMMA NoErrBehind ==
    ASSUME NEW s \in Seq(Items), s # <<>>, Closing(s), s[1].what \in {"stats", "p1", "p2"}
    PROVE  ~ Unmarked(s) /\ ~ HasErr(s)
<1>1. Len(s) \in Nat /\ 1 \in 1 .. Len(s)
  BY Shortened
<1>2. s[1].what \in Marks /\ Rest(s[1].what) <= 2 /\ Rest(s[1].what) \in Nat
  BY DEF Marks, Rest
<1>3. Len(s) - 1 = Rest(s[1].what)
  BY <1>1, <1>2, Zenon DEF Closing
<1>4. Len(s) <= 3
  BY <1>1, <1>2, <1>3
<1>5. ASSUME NEW n \in 1 .. Len(s), s[n].what = "err" PROVE FALSE
  <2>1. s[n].what \in Marks /\ Rest(s[n].what) = 2
    BY <1>5 DEF Marks, Rest
  <2>2. Len(s) - n = 2
    BY <2>1, Zenon DEF Closing
  <2>3. n = 1
    BY <1>1, <1>4, <2>2
  <2>4. QED
    BY <1>5, <2>3
<1>6. QED
  BY <1>1, <1>2, <1>5, Zenon DEF Unmarked, HasErr

\* The event "done" is a prompt seen, and the event "error" an error line.
LEMMA EventMeans ==
    ASSUME NEW i \in Items
    PROVE  /\ Event(i) = "done" <=> PromptSeen(i)
           /\ Event(i) = "error" => i.what = "err"
           /\ i.what = "err" /\ fstate = "stream" /\ held = "no" => Event(i) = "error"
<1>1. i.what \in {"echo", "text", "stats", "err", "dash", "p1", "p2"}
  BY DEF Items, Whats
<1>2. QED
  BY <1>1 DEF Event, PromptSeen, TakenFor, EndsLine

\* The prompt that ends a command pairs the verdict with its command.
LEMMA RunDoneStep == ASSUME Inv, RunEvent, Event(Head(batch)) = "done" PROVE Inv'
<1> DEFINE i == Head(batch)
<1>1. /\ pc = "run" /\ batch # <<>> /\ UNCHANGED boardVars /\ line' = line /\ kind' = kind
      /\ cur' = cur /\ dirty' = dirty /\ open' = open /\ refused' = refused
      /\ mimics' = mimics /\ orphan' = orphan /\ interrupted' = interrupted
      /\ pc' = "input" /\ batch' = <<>> /\ fstate' = "stream" /\ held' = "no"
      /\ verdict' = (IF error THEN "failed" ELSE "ok")
      /\ error' = (error \/ Event(i) = "error")
  BY Zenon DEF RunEvent, NewFramer
<1>2. shown' \subseteq shown \cup {i.cmd}
  BY DEF RunEvent
<1>3. ChatTypeOK /\ ~ dirty
  BY <1>1 DEF Inv, Phases
<1>4. i \in Items /\ Stream # <<>> /\ i = Stream[1] /\ Stream \in Seq(Items)
  BY <1>1, <1>3, StreamFed, StreamTyped
<1>5. i.what = "p2"
  BY <1>4, EventMeans DEF PromptSeen
<1>6. error' = error /\ error \in BOOLEAN
  <2>1. ~ (Event(i) = "error")
    OBVIOUS
  <2>2. error \in BOOLEAN
    BY <1>3, Zenon DEF ChatTypeOK
  <2>3. QED
    BY <1>1, <2>1, <2>2
<1>7. Undisturbed' = Undisturbed
  BY <1>1, Zenon DEF Undisturbed
<1>8. Undisturbed => line = <<>> /\ ~ busy /\ rx = <<>> /\ ~ HasErr(Stream)
  BY <1>1, <1>5, PromptIsLast
<1>9. CleanMeansQuiet'
  BY <1>1, <1>7, <1>8, Zenon DEF boardVars, CleanMeansQuiet
<1>10. Pairing'
  <2>1. i.cmd \in open \cup {cur} /\ (Undisturbed => open = {})
    <3>1. Len(Stream) \in Nat /\ Len(Stream) > 0
      BY <1>4, Shortened
    <3>2. 1 \in 1 .. Len(Stream)
      BY <3>1
    <3>3. QED
      BY <1>1, <1>4, <3>2 DEF Inv, Tagged, Allowed
  <2>2. shown \subseteq {cur} \cup (IF Undisturbed THEN {} ELSE open)
    BY DEF Inv, Pairing
  <2>3. QED
    BY <1>1, <1>2, <1>7, <2>1, <2>2 DEF Pairing
<1>11. VerdictIsTheBoards'
  <2>1. Undisturbed => (cur \in refused <=> error)
    BY <1>1, <1>8, Zenon DEF Inv, Answer
  <2>2. verdict' = "failed" <=> error
    BY <1>1
  <2>3. QED
    BY <1>1, <1>7, <2>1, <2>2, Zenon DEF VerdictIsTheBoards
<1>12. DirtIsRecoverable'
  BY <1>1, <1>3 DEF DirtIsRecoverable
<1>13. /\ orphan' \in BOOLEAN /\ dirty' \in BOOLEAN /\ error' \in BOOLEAN
  BY <1>1, <1>3, <1>6, Zenon DEF ChatTypeOK
<1>14. verdict' \in {"none", "ok", "failed"} /\ (verdict' # "none" => ~ dirty')
  BY <1>1, <1>3
<1>15. line' \in {line, <<>>}
  BY <1>1
<1>16. QED
  BY <1>1, <1>7, <1>9, <1>10, <1>11, <1>12, <1>13, <1>14, <1>15, ToInput

\* An item that is not the prompt brings the prompt nearer, and leaves it one
\* this framer will see.
LEMMA PromptNearer ==
    ASSUME Inv, pc = "run", batch # <<>>, Feed(Head(batch)), ~ PromptSeen(Head(batch)),
           EndsInPrompt(Stream), Stream' = Tail(Stream)
    PROVE  EndsInPrompt(Stream)'
<1> DEFINE i == Head(batch)
           s == Stream
           t == Tail(Stream)
<1>1. /\ s # <<>> /\ i = s[1] /\ i \in Items /\ (Len(s) = 1 => Tail(batch) = <<>>)
      /\ s \in Seq(Items)
  BY StreamFed, StreamTyped DEF Inv
<1>2. /\ Len(s) \in Nat /\ Len(s) > 0 /\ Len(t) = Len(s) - 1
      /\ \A n \in 1 .. Len(t) : t[n] = s[n + 1]
  BY <1>1, Shortened
<1>3. /\ Len(s) > 1 /\ s[Len(s)].what = "p2" /\ s[Len(s) - 1].what = "p1"
      /\ fstate # "echo" \/ \E n \in 1 .. Len(s) - 2 : EndsLine(s[n])
  <2>1. ~ (Len(s) = 1 /\ s[1].what = "p2" /\ held = "half" /\ fstate # "echo")
    BY <1>1 DEF PromptSeen
  <2>2. QED
    BY <2>1 DEF EndsInPrompt
<1>4. fstate # "echo" => fstate' # "echo"
  BY DEF Feed
<1>5. EndsLine(i) => fstate' # "echo"
  BY DEF Feed
<1>6. CASE Len(s) = 2
  <2>1. fstate # "echo"
    BY <1>3, <1>6
  <2>2. i.what = "p1"
    BY <1>1, <1>3, <1>6
  <2>3. held' = "half"
    BY <2>1, <2>2 DEF Feed, EndsLine
  <2>4. Len(t) = 1 /\ t[1].what = "p2"
    <3> HIDE DEF s, t
    <3>1. Len(t) = 1 /\ 1 \in 1 .. Len(t) /\ 1 + 1 = Len(s)
      BY <1>2, <1>6
    <3>2. t[1] = s[1 + 1]
      BY <1>2, <3>1, Zenon
    <3>3. QED
      BY <1>3, <3>1, <3>2
  <2>5. Len(Stream') = 1 /\ Stream'[1].what = "p2"
    BY <2>4
  <2>6. QED
    BY <1>4, <2>1, <2>3, <2>5, Zenon DEF EndsInPrompt
<1>7. CASE Len(s) > 2
  <2>1. Len(t) > 1 /\ t[Len(t)] = s[Len(s)] /\ t[Len(t) - 1] = s[Len(s) - 1]
    <3>1. /\ Len(t) > 1 /\ Len(t) \in 1 .. Len(t) /\ Len(t) - 1 \in 1 .. Len(t)
          /\ Len(t) + 1 = Len(s) /\ (Len(t) - 1) + 1 = Len(s) - 1
      BY <1>2, <1>7
    <3>2. t[Len(t)] = s[Len(t) + 1] /\ t[Len(t) - 1] = s[(Len(t) - 1) + 1]
      BY <1>2, <3>1, Zenon
    <3>3. QED
      BY <3>1, <3>2
  <2>2. fstate' # "echo" \/ \E n \in 1 .. Len(t) - 2 : EndsLine(t[n])
    <3> SUFFICES ASSUME fstate = "echo", ~ EndsLine(i)
                 PROVE  \E n \in 1 .. Len(t) - 2 : EndsLine(t[n])
      BY <1>4, <1>5
    <3>1. PICK n \in 1 .. Len(s) - 2 : EndsLine(s[n])
      BY <1>3
    <3>2. n # 1
      BY <1>1, <3>1
    <3>3. n - 1 \in 1 .. Len(t) - 2 /\ n - 1 \in 1 .. Len(t) /\ (n - 1) + 1 = n
      BY <1>2, <3>1, <3>2
    <3>4. t[n - 1] = s[n]
      BY <1>2, <3>3
    <3>5. QED
      BY <3>1, <3>3, <3>4
  <2>3. /\ Len(Stream') > 1 /\ Stream'[Len(Stream')].what = "p2"
        /\ Stream'[Len(Stream') - 1].what = "p1"
    BY <1>3, <2>1
  <2>4. fstate' # "echo" \/ \E n \in 1 .. Len(Stream') - 2 : EndsLine(Stream'[n])
    BY <2>2
  <2>5. QED
    BY <2>3, <2>4, Zenon DEF EndsInPrompt, EndsLine
<1>8. Len(s) = 2 \/ Len(s) > 2
  <2>1. \A n \in Nat : n > 1 => n = 2 \/ n > 2
    OBVIOUS
  <2>2. QED
    BY <1>2, <1>3, <2>1, Zenon
<1>9. QED
  BY <1>6, <1>7, <1>8, Zenon

\* An error line on its way is noticed when it is used up, and never later.
LEMMA AnswerFed ==
    ASSUME Inv, pc = "run", batch # <<>>, Feed(Head(batch)), Stream' = Tail(Stream),
           UNCHANGED boardVars, pc' = pc, cur' = cur, refused' = refused, mimics' = mimics,
           orphan' = orphan, error' = (error \/ Event(Head(batch)) = "error")
    PROVE  Answer'
<1> DEFINE i == Head(batch)
<1>1. /\ Stream # <<>> /\ i = Stream[1] /\ i \in Items /\ Stream \in Seq(Items)
  BY StreamFed, StreamTyped DEF Inv
<1>2. Undisturbed' = Undisturbed
  BY Zenon DEF Undisturbed
<1> SUFFICES ASSUME Undisturbed PROVE Answer'
  BY <1>2, Zenon DEF Answer
<1>3. /\ cur \in refused <=> error \/ HasErr(Stream)
      /\ busy \/ rx # <<>> => cur \notin refused
      /\ rx = <<>>
      /\ fstate = "tail" \/ held # "no" => ~ busy /\ ~ HasErr(Stream)
      /\ fstate = "echo" => i.what = "echo"
  BY <1>1, Zenon DEF Inv, Answer
<1>4. Closing(Stream) /\ (busy => Unmarked(Stream))
  BY Zenon DEF Inv, OneAtATime
<1>5. fstate \in {"echo", "stream", "tail"} /\ held \in {"no", "half", "whole"}
  BY DEF Inv, ChatTypeOK
<1>6. HasErr(Stream) <=> i.what = "err" \/ HasErr(Tail(Stream))
  BY <1>1, MarksTail
<1>7. HasErr(Stream)' <=> HasErr(Tail(Stream))
  BY DEF HasErr
<1>8. i.what = "err" <=> Event(i) = "error"
  <2>1. Event(i) = "error" => i.what = "err"
    BY <1>1, EventMeans
  <2>2. ASSUME i.what = "err" PROVE Event(i) = "error"
    <3>1. held = "no" /\ fstate # "tail"
      BY <1>3, <1>6, <2>2, Zenon
    <3>2. fstate # "echo"
      BY <1>3, <2>2
    <3>3. fstate = "stream"
      BY <1>5, <3>1, <3>2
    <3>4. QED
      BY <1>1, <2>2, <3>1, <3>3, EventMeans
  <2>3. QED
    BY <2>1, <2>2, Zenon
<1>9. cur' \in refused' <=> error' \/ HasErr(Stream)'
  BY <1>3, <1>6, <1>7, <1>8, Zenon
<1>10. fstate' # "echo"
  BY <1>3 DEF Feed, EndsLine
<1>11. fstate' = "tail" \/ held' # "no" => ~ busy /\ ~ HasErr(Stream)'
  <2> SUFFICES ASSUME fstate' = "tail" \/ held' # "no" PROVE ~ busy /\ ~ HasErr(Stream)'
    OBVIOUS
  <2>1. CASE fstate = "tail"
    BY <1>3, <1>6, <1>7, <2>1, Zenon
  <2>2. CASE fstate # "tail"
    <3>1. i.what \in {"stats", "dash", "p1", "p2"}
      BY <1>1, <2>2 DEF Feed, EndsLine, TakenFor, Items, Whats
    <3>2. i.what # "dash"
      <4>1. 1 \in 1 .. Len(Stream)
        BY <1>1, Shortened
      <4>2. QED
        BY <1>1, <1>4, <4>1, Zenon DEF Closing
    <3>3. Stream[1].what \in {"stats", "p1", "p2"}
      BY <1>1, <3>1, <3>2
    <3>4. ~ Unmarked(Stream) /\ ~ HasErr(Stream)
      BY <1>1, <1>4, <3>3, NoErrBehind
    <3>5. QED
      BY <1>4, <1>6, <1>7, <3>4, Zenon
  <2>3. QED
    BY <2>1, <2>2
<1>12. busy' = busy /\ rx' = rx
  BY Zenon DEF boardVars
<1>13. QED
  BY <1>3, <1>9, <1>10, <1>11, <1>12, Zenon DEF Answer

\* An event that is not the prompt: text, statistics or an error line.
LEMMA RunMoreStep == ASSUME Inv, RunEvent, Event(Head(batch)) # "done" PROVE Inv'
<1> DEFINE i == Head(batch)
<1>1. /\ pc = "run" /\ batch # <<>> /\ UNCHANGED boardVars /\ line' = line /\ kind' = kind
      /\ cur' = cur /\ dirty' = dirty /\ open' = open /\ refused' = refused
      /\ mimics' = mimics /\ orphan' = orphan
      /\ Feed(i) /\ pc' = pc /\ verdict' = verdict
      /\ error' = (error \/ Event(i) = "error")
  BY Zenon DEF RunEvent
<1>2. shown' \subseteq shown \cup {i.cmd}
  BY DEF RunEvent
<1>3. ChatTypeOK /\ ~ dirty /\ verdict = "none"
  BY <1>1 DEF Inv, Phases
<1>4. i \in Items /\ Stream # <<>> /\ i = Stream[1] /\ Stream \in Seq(Items)
  BY <1>1, <1>3, StreamFed, StreamTyped
<1>5. busy' = busy /\ running' = running /\ rx' = rx
  BY <1>1, Zenon DEF boardVars
<1>6. /\ Stream' = Tail(Stream) /\ batch' \in Seq(Items)
      /\ fstate' \in {"echo", "stream", "tail"} /\ held' \in {"no", "half", "whole"}
      /\ OneAtATime'
  BY <1>1, FedKeeps
<1>7. Undisturbed' = Undisturbed
  BY <1>1, Zenon DEF Undisturbed
<1>8. ChatTypeOK'
  <2>1. error' \in BOOLEAN
    BY <1>1
  <2>2. QED
    BY <1>1, <1>3, <1>5, <1>6, <2>1, Zenon DEF ChatTypeOK
<1>9. Phases'
  BY <1>1, <1>3 DEF Phases
<1>10. Numbered'
  BY <1>1, <1>5, Zenon DEF Inv, Numbered
<1>11. /\ \A n \in 1 .. Len(rx) : rx[n] \in Allowed
       /\ busy => running \in Allowed
       /\ \A n \in 1 .. Len(Stream) : Stream[n].cmd \in Allowed
       /\ Undisturbed => open = {}
       /\ Allowed = open \cup {cur}
  BY <1>1 DEF Inv, Tagged, Allowed
<1>12. Tagged'
  <2>1. Allowed' = Allowed
    BY <1>1, Zenon DEF Allowed
  <2>2. \A n \in 1 .. Len(Tail(Stream)) : n + 1 \in 1 .. Len(Stream) /\ Tail(Stream)[n] = Stream[n + 1]
    BY <1>4, Shortened
  <2>3. \A n \in 1 .. Len(Stream') : Stream'[n].cmd \in Allowed'
    BY <1>6, <1>11, <2>1, <2>2, Zenon
  <2>4. QED
    BY <1>1, <1>5, <1>7, <1>11, <2>1, <2>3, Zenon DEF Tagged
<1>13. Awaited'
  <2> SUFFICES ASSUME ~ (busy \/ rx # <<>>) PROVE EndsInPrompt(Stream)'
    BY <1>5, Zenon DEF Awaited
  <2>1. EndsInPrompt(Stream)
    BY <1>1, Zenon DEF Inv, Awaited
  <2>2. ~ PromptSeen(i)
    BY <1>4, EventMeans
  <2>3. QED
    BY <1>1, <1>6, <2>1, <2>2, PromptNearer
<1>14. Answer'
  BY <1>1, <1>6, AnswerFed
<1>15. Pairing'
  <2>1. i.cmd \in open \cup {cur}
    <3>1. 1 \in 1 .. Len(Stream)
      BY <1>4, Shortened
    <3>2. QED
      BY <1>4, <1>11, <3>1
  <2>2. shown \subseteq {cur} \cup (IF Undisturbed THEN {} ELSE open)
    BY DEF Inv, Pairing
  <2>3. QED
    BY <1>1, <1>2, <1>7, <1>11, <2>1, <2>2 DEF Pairing
<1>16. CleanMeansQuiet' /\ VerdictIsTheBoards' /\ DirtIsRecoverable'
  BY <1>1, <1>3 DEF CleanMeansQuiet, VerdictIsTheBoards, DirtIsRecoverable
<1>17. QED
  BY <1>6, <1>8, <1>9, <1>10, <1>12, <1>13, <1>14, <1>15, <1>16 DEF Inv

\* Every step of the board, the host and the user keeps the invariant.
LEMMA NextInv == ASSUME Inv, [Next]_vars PROVE Inv'
<1>1. CASE ShellStarts
  BY <1>1, ShellStartsStep
<1>2. CASE ShellPrints
  BY <1>2, ShellPrintsStep
<1>3. CASE ShellMimics
  BY <1>3, ShellMimicsStep
<1>4. CASE ShellReturns
  BY <1>4, ShellReturnsStep
<1>5. CASE ResyncRead \/ RunRead
  BY <1>5, ReadStep
<1>6. CASE ResyncEvent
  BY <1>6, ResyncEventStep
<1>7. CASE Drain
  BY <1>7, DrainStep
<1>8. CASE WriteCommand
  BY <1>8, WriteCommandStep
<1>9. CASE RunEvent
  BY <1>9, RunDoneStep, RunMoreStep
<1>10. CASE ResyncTimeout \/ RunTimeout \/ Cancel
  BY <1>10, LeaveStep
<1>11. CASE \E k \in {"gen", "info"} : EnterLine(k)
  BY <1>11, EnterLineStep
<1>12. CASE Restart
  BY <1>12, RestartStep
<1>13. CASE UNCHANGED vars
  <2>1. /\ UNCHANGED <<busy, running, rx, line, pc, kind, cur, dirty, batch, fstate, held>>
        /\ UNCHANGED <<error, verdict, shown, open, refused, mimics, interrupted, orphan>>
    BY <1>13, Zenon DEF vars, boardVars, hostVars, framerVars, historyVars
  <2>2. Stream' = Stream /\ Undisturbed' = Undisturbed /\ Allowed' = Allowed
    BY <2>1, Zenon DEF Stream, Undisturbed, Allowed
  <2>3. ChatTypeOK' /\ Phases'
    BY <2>1, ZenonT(40) DEF Inv, ChatTypeOK, Phases
  <2>4. Numbered' /\ Tagged'
    BY <2>1, <2>2, Zenon DEF Inv, Numbered, Tagged
  <2>5. /\ Closing(Stream)' = Closing(Stream) /\ Unmarked(Stream)' = Unmarked(Stream)
        /\ HasErr(Stream)' = HasErr(Stream) /\ EndsInPrompt(Stream)' = EndsInPrompt(Stream)
    BY <2>1, <2>2, Zenon DEF Closing, Unmarked, HasErr, EndsInPrompt, EndsLine
  <2>6. Awaited' /\ OneAtATime' /\ Answer'
    BY <2>1, <2>2, <2>5, Zenon DEF Inv, Awaited, OneAtATime, Answer
  <2>7. CleanMeansQuiet' /\ Pairing' /\ VerdictIsTheBoards' /\ DirtIsRecoverable'
    BY <2>1, <2>2, Zenon DEF Inv, CleanMeansQuiet, Pairing, VerdictIsTheBoards,
                             DirtIsRecoverable, PromptToCome
  <2>8. QED
    BY <2>3, <2>4, <2>6, <2>7 DEF Inv
<1>14. QED
  BY <1>1, <1>2, <1>3, <1>4, <1>5, <1>6, <1>7, <1>8, <1>9, <1>10, <1>11, <1>12, <1>13, Zenon
     DEF Next, Board, Host, Deadline, User
-----------------------------------------------------------------------------

\* The answer shown to a question is the answer to that question, whatever was
\* interrupted, timed out or failed before and however the bytes were cut.
THEOREM AlwaysPaired == Spec => []Pairing
<1>1. Inv => Pairing
  BY DEF Inv
<1>2. QED
  BY InitInv, NextInv, <1>1, PTL DEF Spec

\* A backend that is not dirty has an idle board and nothing unread.
THEOREM CleanAlwaysQuiet == Spec => []CleanMeansQuiet
<1>1. Inv => CleanMeansQuiet
  BY DEF Inv
<1>2. QED
  BY InitInv, NextInv, <1>1, PTL DEF Spec

\* A command is reported as failed exactly when the board printed its error line.
THEOREM VerdictAlwaysTheBoards == Spec => []VerdictIsTheBoards
<1>1. Inv => VerdictIsTheBoards
  BY DEF Inv
<1>2. QED
  BY InitInv, NextInv, <1>1, PTL DEF Spec

\* Unless a wait was abandoned, a dirty backend has a prompt to find, whatever
\* the text looked like and whatever chat.py was started over.
THEOREM DirtAlwaysRecoverable == Spec => []DirtIsRecoverable
<1>1. Inv => DirtIsRecoverable
  BY DEF Inv
<1>2. QED
  BY InitInv, NextInv, <1>1, PTL DEF Spec
=============================================================================
