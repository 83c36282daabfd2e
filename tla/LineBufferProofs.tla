-------------------------- MODULE LineBufferProofs --------------------------
(***************************************************************************)
(* Theorems about LineBuffer: the body of a letter is never too small for  *)
(* the lines in it, whatever segments arrive, and the lines handled are    *)
(* the lines received.                                                     *)
(***************************************************************************)
EXTENDS LineBuffer, SequenceTheorems, WellFoundedInduction, TLAPS

LEMMA Least ==
  ASSUME NEW S, S \subseteq Nat, S # {}
  PROVE  \E i \in S : \A j \in S : i <= j
<1> DEFINE R == {pair \in Nat \X Nat : pair[1] < pair[2]}
<1>1. IsWellFoundedOn(R, Nat)
  BY NatLessThanWellFounded, Zenon DEF OpToRel
<1>2. PICK i \in S : \A j \in S : ~ (<<j, i>> \in R)
  BY <1>1, WFMin, Zenon
<1>3. ASSUME NEW j \in S PROVE ~ (j < i)
  BY <1>2
<1> QED
  BY <1>3

\* A line that was found ends before the last byte of the buffer.
LEMMA EolInBuffer ==
  ASSUME Ends # {}
  PROVE  Eol \in 1 .. Size - 1
<1>1. Ends \subseteq Nat /\ Ends \subseteq 1 .. Size - 1
  BY BufferAssumption DEF Ends
<1>2. \E i \in Ends : \A j \in Ends : i <= j
  BY <1>1, Least, Zenon
<1> DEFINE FirstEnd(i) == i \in Ends /\ \A j \in Ends : i <= j
<1>3. FirstEnd(CHOOSE i : FirstEnd(i))
  BY <1>2, Zenon
<1>4. Eol = CHOOSE i : FirstEnd(i)
  BY Zenon DEF Eol
<1>5. Eol \in Ends
  BY <1>3, <1>4, Zenon
<1> QED
  BY <1>1, <1>5

\* The lengths are numbers, and the body fits.
BodyInv == body \in Nat /\ body_length \in Nat /\ body <= body_length

LEMMA BodyStep == BodyInv /\ [Next]_vars => BodyInv'
<1> SUFFICES ASSUME BodyInv, [Next]_vars PROVE BodyInv'
  OBVIOUS
<1> USE BufferAssumption
<1>1. ASSUME NEW lines, NEW rest, Receive(lines, rest) PROVE BodyInv'
  BY <1>1 DEF Receive, BodyInv
<1>2. CASE StartLines
  BY <1>2 DEF StartLines, BodyInv
<1>3. CASE Command
  BY <1>3 DEF Command, BodyInv
<1>4. CASE Text
  <2>1. Eol \in 1 .. Size - 1
    BY <1>4, EolInBuffer DEF Text, HandleLine, TakeLine
  <2>2. CASE body' = 0 /\ body_length' = 0
    BY <2>2 DEF BodyInv
  <2>3. CASE /\ body' = body + Eol
             /\ body_length' = IF NoRoom(Eol - 1) THEN body + Growth ELSE body_length
    <3>1. CASE NoRoom(Eol - 1)
      BY <2>1, <2>3, <3>1 DEF BodyInv
    <3>2. CASE ~ NoRoom(Eol - 1)
      BY <2>1, <2>3, <3>2 DEF BodyInv, NoRoom
    <3> QED
      BY <3>1, <3>2
  <2> QED
    BY <1>4, <2>2, <2>3 DEF Text
<1>5. CASE EndLines
  BY <1>5 DEF EndLines, BodyInv
<1>6. CASE Quit
  BY <1>6 DEF Quit, BodyInv
<1>7. CASE ReadBeyond
  BY <1>7 DEF ReadBeyond, BodyInv
<1>8. CASE UNCHANGED vars
  BY <1>8 DEF vars, BodyInv
<1> QED
  BY <1>1, <1>2, <1>3, <1>4, <1>5, <1>6, <1>7, <1>8 DEF Next, Handler

\* A letter of any length fits its body, but for its terminating NUL: handle_TEXT
\* makes room for a line and its newline before it appends them (smtp.c:627-635).
THEOREM BodyFitsHolds == Spec => []BodyFits
<1>1. Init => BodyInv
  BY DEF Init, BodyInv
<1>2. BodyInv /\ [Next]_vars => BodyInv'
  BY BodyStep
<1>3. BodyInv => BodyFits
  BY DEF BodyInv, BodyFits
<1> QED
  BY <1>1, <1>2, <1>3, PTL DEF Spec

-----------------------------------------------------------------------------
(* The lines handled are the lines received.                               *)

LEMMA Induction ==
  ASSUME NEW S, 0 \in S, \A n \in Nat : n \in S => n + 1 \in S
  PROVE  Nat \subseteq S
<1> DEFINE T == {n \in Nat : n \notin S}
<1>1. ASSUME T # {} PROVE FALSE
  <2>1. PICK i \in T : \A j \in T : i <= j
    <3>1. T \subseteq Nat
      OBVIOUS
    <3> HIDE DEF T
    <3> QED
      BY <1>1, <3>1, Least, Zenon
  <2>2. i - 1 \in Nat /\ i - 1 \notin T
    BY <2>1
  <2> QED
    BY <2>1, <2>2
<1> QED
  BY <1>1

CrLf == <<"r", "n">>

\* b[n] are the bytes of the first n lines, for every n up to m.
BytesTo(lines, m, b) ==
  b = [n \in 0 .. m |-> IF n = 0 THEN <<>> ELSE b[n - 1] \o (lines[n] \o CrLf)]

LEMMA BytesToExist ==
  ASSUME NEW lines PROVE \A m \in Nat : \E b : BytesTo(lines, m, b)
<1> DEFINE S == {m \in Nat : \E b : BytesTo(lines, m, b)}
<1>1. 0 \in S
  <2> DEFINE b == [n \in 0 .. 0 |-> <<>>]
  <2>1. BytesTo(lines, 0, b)
    BY DEF BytesTo
  <2> QED
    BY <2>1
<1>2. ASSUME NEW m \in Nat, m \in S PROVE m + 1 \in S
  <2>1. PICK b : BytesTo(lines, m, b)
    BY <1>2
  <2> DEFINE c == [n \in 0 .. m + 1 |-> IF n <= m THEN b[n]
                                        ELSE b[m] \o (lines[m + 1] \o CrLf)]
  <2>2. \A n \in 0 .. m + 1 :
          c[n] = IF n = 0 THEN <<>> ELSE c[n - 1] \o (lines[n] \o CrLf)
    <3> SUFFICES ASSUME NEW n \in 0 .. m + 1
                 PROVE  c[n] = IF n = 0 THEN <<>> ELSE c[n - 1] \o (lines[n] \o CrLf)
      OBVIOUS
    <3>1. CASE n = m + 1
      <4>1. n # 0 /\ n - 1 = m /\ n - 1 \in 0 .. m + 1 /\ n - 1 <= m /\ ~ (n <= m)
        BY <3>1
      <4> QED
        BY <3>1, <4>1
    <3>2. CASE n # m + 1 /\ n # 0
      <4>1. n \in 0 .. m /\ n - 1 \in 0 .. m + 1 /\ n - 1 <= m /\ n <= m
        BY <3>2
      <4>2. b[n] = b[n - 1] \o (lines[n] \o CrLf)
        BY <2>1, <3>2, <4>1 DEF BytesTo
      <4> QED
        BY <3>2, <4>1, <4>2
    <3>3. CASE n = 0
      BY <2>1, <3>3 DEF BytesTo
    <3> QED
      BY <3>1, <3>2, <3>3
  <2>3. BytesTo(lines, m + 1, c)
    <3>1. c = [n \in 0 .. m + 1 |-> c[n]]
      OBVIOUS
    <3> HIDE DEF c
    <3> QED
      BY <2>2, <3>1 DEF BytesTo
  <2> QED
    BY <2>3
<1> HIDE DEF S
<1>3. Nat \subseteq S
  BY <1>1, <1>2, Induction
<1> QED
  BY <1>3 DEF S

\* What the recursion of LineBytes builds.
Bytes(lines) == CHOOSE b : BytesTo(lines, Len(lines), b)

LEMMA BytesDef ==
  ASSUME NEW lines, Len(lines) \in Nat
  PROVE  /\ LineBytes(lines) = Bytes(lines)[Len(lines)]
         /\ Bytes(lines)[0] = <<>>
         /\ \A n \in 1 .. Len(lines) :
              Bytes(lines)[n] = Bytes(lines)[n - 1] \o (lines[n] \o CrLf)
<1>1. LineBytes(lines) = Bytes(lines)[Len(lines)]
  BY Zenon DEF LineBytes, Bytes, BytesTo, CrLf
<1>2. \E b : BytesTo(lines, Len(lines), b)
  BY BytesToExist
<1>3. BytesTo(lines, Len(lines), Bytes(lines))
  BY <1>2, Zenon DEF Bytes
<1> DEFINE b == Bytes(lines)
<1> HIDE DEF b
<1>4. b[0] = <<>> /\ \A n \in 1 .. Len(lines) : b[n] = b[n - 1] \o (lines[n] \o CrLf)
  BY <1>3 DEF BytesTo, b
<1> QED
  BY <1>1, <1>4 DEF b

\* The bytes of lines are characters; there are none without a line.
LEMMA BytesType ==
  ASSUME NEW lines \in Seq(Line)
  PROVE  /\ \A n \in 0 .. Len(lines) : Bytes(lines)[n] \in Seq(Char)
         /\ LineBytes(lines) \in Seq(Char)
         /\ Bytes(lines)[0] = <<>>
<1> DEFINE b == Bytes(lines)
           S == {n \in Nat : n <= Len(lines) => b[n] \in Seq(Char)}
<1>1. Len(lines) \in Nat
  OBVIOUS
<1>2. /\ LineBytes(lines) = b[Len(lines)]
      /\ b[0] = <<>>
      /\ \A n \in 1 .. Len(lines) : b[n] = b[n - 1] \o (lines[n] \o CrLf)
  BY <1>1, BytesDef
<1> HIDE DEF b
<1>3. b[0] = <<>>
  BY <1>1, <1>2
<1>4. 0 \in S
  <2>1. <<>> \in Seq(Char)
    OBVIOUS
  <2> QED
    BY <1>3, <2>1
<1>5. ASSUME NEW n \in Nat, n \in S PROVE n + 1 \in S
  <2> SUFFICES ASSUME n + 1 <= Len(lines) PROVE b[n + 1] \in Seq(Char)
    OBVIOUS
  <2>1. b[n] \in Seq(Char)
    BY <1>1, <1>5
  <2>2. b[n + 1] = b[n] \o (lines[n + 1] \o CrLf)
    <3>1. n + 1 \in 1 .. Len(lines) /\ (n + 1) - 1 = n
      BY <1>1
    <3> QED
      BY <1>2, <3>1
  <2>3. lines[n + 1] \in Seq(Char)
    BY BufferAssumption
  <2>4. CrLf \in Seq(Char)
    BY DEF CrLf, Char
  <2> QED
    BY <2>1, <2>2, <2>3, <2>4
<1> HIDE DEF S
<1>6. Nat \subseteq S
  BY <1>4, <1>5, Induction
<1>7. \A n \in 0 .. Len(lines) : b[n] \in Seq(Char)
  BY <1>1, <1>6 DEF S
<1>8. LineBytes(lines) \in Seq(Char)
  BY <1>1, <1>2, <1>7
<1> QED
  BY <1>3, <1>7, <1>8 DEF b

LEMMA NoBytes == LineBytes(<<>>) = <<>>
<1>1. Len(<<>>) = 0 /\ Len(<<>>) \in Nat
  OBVIOUS
<1>2. /\ LineBytes(<<>>) = Bytes(<<>>)[Len(<<>>)]
      /\ Bytes(<<>>)[0] = <<>>
  BY <1>1, BytesDef, Zenon
<1> QED
  BY <1>1, <1>2, Zenon

\* The bytes of the first line come first.
LEMMA BytesOfHead ==
  ASSUME NEW lines \in Seq(Line), lines # <<>>
  PROVE  /\ Head(lines) \in Line /\ Tail(lines) \in Seq(Line)
         /\ LineBytes(lines) = (Head(lines) \o CrLf) \o LineBytes(Tail(lines))
<1> DEFINE b == Bytes(lines)
           t == Bytes(Tail(lines))
           front == Head(lines) \o CrLf
           S == {n \in Nat : n < Len(lines) => b[n + 1] = front \o t[n]}
<1>1. /\ Head(lines) \in Line /\ Tail(lines) \in Seq(Line)
      /\ Len(lines) \in Nat /\ Len(lines) > 0 /\ Len(Tail(lines)) = Len(lines) - 1
      /\ Head(lines) = lines[1]
      /\ \A n \in 1 .. Len(lines) - 1 : Tail(lines)[n] = lines[n + 1]
  OBVIOUS
<1>2. /\ LineBytes(lines) = b[Len(lines)]
      /\ b[0] = <<>>
      /\ \A n \in 1 .. Len(lines) : b[n] = b[n - 1] \o (lines[n] \o CrLf)
  BY <1>1, BytesDef
<1>3. /\ LineBytes(Tail(lines)) = t[Len(lines) - 1]
      /\ t[0] = <<>>
      /\ \A n \in 1 .. Len(lines) - 1 :
           t[n] = t[n - 1] \o (Tail(lines)[n] \o CrLf)
  <2>1. Len(Tail(lines)) \in Nat
    BY <1>1
  <2> QED
    BY <1>1, <2>1, BytesDef
<1>4. \A n \in 0 .. Len(lines) - 1 : t[n] \in Seq(Char)
  BY <1>1, BytesType
<1>5. CrLf \in Seq(Char) /\ Head(lines) \in Seq(Char) /\ front \in Seq(Char)
  BY <1>1, BufferAssumption DEF CrLf, Char
<1> HIDE DEF b, t
<1>6. 0 \in S
  <2>1. b[1] = b[0] \o (lines[1] \o CrLf)
    <3>1. 1 \in 1 .. Len(lines) /\ 1 - 1 = 0
      BY <1>1
    <3> QED
      BY <1>2, <3>1
  <2>2. b[1] = front
    BY <1>1, <1>2, <1>5, <2>1
  <2>3. front \o <<>> = front
    <3> HIDE DEF front
    <3> QED
      BY <1>5, ConcatEmptySeq
  <2>4. b[0 + 1] = front \o t[0]
    BY <1>3, <2>2, <2>3
  <2> QED
    BY <2>4
<1>7. ASSUME NEW n \in Nat, n \in S PROVE n + 1 \in S
  <2> HIDE DEF front
  <2> SUFFICES ASSUME n + 1 < Len(lines) PROVE b[(n + 1) + 1] = front \o t[n + 1]
    BY DEF S
  <2>1. b[n + 1] = front \o t[n]
    BY <1>1, <1>7 DEF S
  <2>2. b[(n + 1) + 1] = b[n + 1] \o (lines[(n + 1) + 1] \o CrLf)
    <3>1. (n + 1) + 1 \in 1 .. Len(lines) /\ ((n + 1) + 1) - 1 = n + 1
      BY <1>1
    <3> QED
      BY <1>2, <3>1
  <2>3. t[n + 1] = t[n] \o (Tail(lines)[n + 1] \o CrLf)
    <3>1. n + 1 \in 1 .. Len(lines) - 1 /\ (n + 1) - 1 = n
      BY <1>1
    <3> QED
      BY <1>3, <3>1
  <2>4. Tail(lines)[n + 1] = lines[(n + 1) + 1]
    BY <1>1
  <2>5. lines[(n + 1) + 1] \in Seq(Char)
    BY <1>1, BufferAssumption
  <2>6. t[n] \in Seq(Char)
    BY <1>1, <1>4
  <2> DEFINE line == lines[(n + 1) + 1] \o CrLf
  <2>7. (front \o t[n]) \o line = front \o (t[n] \o line)
    <3> DEFINE u == t[n]
    <3>1. line \in Seq(Char)
      BY <1>5, <2>5
    <3>2. front \in Seq(Char) /\ u \in Seq(Char) /\ line \in Seq(Char)
      BY <1>5, <2>6, <3>1
    <3> HIDE DEF line, u
    <3>3. (front \o u) \o line = front \o (u \o line)
      BY <3>2, ConcatAssociative
    <3> QED
      BY <3>3 DEF u
  <2> QED
    BY <2>1, <2>2, <2>3, <2>4, <2>7
<1>8. LineBytes(lines) = front \o LineBytes(Tail(lines))
  <2> HIDE DEF S
  <2>1. Nat \subseteq S
    BY <1>6, <1>7, Induction
  <2>2. Len(lines) - 1 \in S /\ Len(lines) - 1 < Len(lines) /\ (Len(lines) - 1) + 1 = Len(lines)
    BY <1>1, <2>1
  <2> HIDE DEF front
  <2>3. b[Len(lines)] = front \o t[Len(lines) - 1]
    BY <2>2 DEF S
  <2> QED
    BY <1>2, <1>3, <2>3
<1> QED
  BY <1>1, <1>8

\* The bytes of some lines: those of the first, its CR and LF, the others.
LEMMA FirstLine ==
  ASSUME NEW lines \in Seq(Line), lines # <<>>
  PROVE  LET line == Head(lines)
             n == Len(line)
             rest == LineBytes(Tail(lines))
             bytes == LineBytes(lines)
         IN  /\ line \in Line /\ Tail(lines) \in Seq(Line)
             /\ n \in Nat /\ Len(rest) \in Nat /\ Len(bytes) = n + 2 + Len(rest)
             /\ \A i \in 1 .. n : bytes[i] = line[i]
             /\ bytes[n + 1] = "r" /\ bytes[n + 2] = "n"
             /\ \A i \in 1 .. Len(rest) : bytes[i + n + 2] = rest[i]
<1> DEFINE line == Head(lines)
           n == Len(line)
           rest == LineBytes(Tail(lines))
           bytes == LineBytes(lines)
           front == line \o CrLf
<1>1. /\ line \in Line /\ Tail(lines) \in Seq(Line)
      /\ bytes = front \o rest
  BY BytesOfHead
<1>2. line \in Seq(Char) /\ rest \in Seq(Char) /\ n \in Nat /\ Len(rest) \in Nat
  <2>1. rest \in Seq(Char)
    BY <1>1, BytesType, Zenon
  <2> HIDE DEF line, rest, bytes
  <2>2. line \in Seq(Char)
    BY <1>1, BufferAssumption
  <2> QED
    BY <2>1, <2>2
<1> HIDE DEF line, rest, bytes
<1>3. /\ front \in Seq(Char) /\ Len(front) = n + 2
      /\ \A i \in 1 .. n : front[i] = line[i]
      /\ front[n + 1] = "r" /\ front[n + 2] = "n"
  BY <1>2 DEF CrLf, Char
<1> HIDE DEF front
<1>4. /\ Len(bytes) = Len(front) + Len(rest)
      /\ \A i \in 1 .. Len(front) + Len(rest) :
           bytes[i] = IF i <= Len(front) THEN front[i] ELSE rest[i - Len(front)]
  BY <1>1, <1>2, <1>3, ConcatProperties
<1> HIDE DEF n
<1>5. Len(bytes) = n + 2 + Len(rest)
  BY <1>2, <1>3, <1>4
<1>6. \A i \in 1 .. n : bytes[i] = line[i]
  BY <1>2, <1>3, <1>4
<1>7. bytes[n + 1] = "r" /\ bytes[n + 2] = "n"
  BY <1>2, <1>3, <1>4
<1>8. \A i \in 1 .. Len(rest) : bytes[i + n + 2] = rest[i]
  <2> SUFFICES ASSUME NEW i \in 1 .. Len(rest) PROVE bytes[i + n + 2] = rest[i]
    OBVIOUS
  <2>1. /\ i + n + 2 \in 1 .. Len(front) + Len(rest) /\ ~ (i + n + 2 <= Len(front))
        /\ (i + n + 2) - Len(front) = i
    BY <1>2, <1>3
  <2> QED
    BY <1>4, <2>1
<1> QED
  BY <1>1, <1>2, <1>5, <1>6, <1>7, <1>8 DEF line, n, rest, bytes

\* The lines that are due stand at the front of the buffer and fill at most
\* half of it; behind them there is no LF.
Ahead(lines) ==
  /\ 2 * Len(LineBytes(lines)) <= Size
  /\ \A i \in 1 .. Len(LineBytes(lines)) : buffer[i] = LineBytes(lines)[i]
  /\ \A i \in 1 .. Size : i > Len(LineBytes(lines)) => buffer[i] # "n"

LEMMA EndsType == Ends \subseteq 1 .. Size - 1
BY BufferAssumption DEF Ends

\* Eol is the first end of a line.
LEMMA EolFirst ==
  ASSUME NEW e \in Ends, \A i \in Ends : e <= i
  PROVE  Eol = e
<1> DEFINE FirstEnd(i) == i \in Ends /\ \A j \in Ends : i <= j
<1>1. FirstEnd(e)
  OBVIOUS
<1>2. FirstEnd(CHOOSE i : FirstEnd(i))
  BY <1>1, Zenon
<1>3. Eol = CHOOSE i : FirstEnd(i)
  BY Zenon DEF Eol
<1>4. FirstEnd(Eol)
  BY <1>2, <1>3, Zenon
<1> QED
  BY <1>1, <1>4, EndsType, BufferAssumption

\* The first line in the buffer is the first that is due.
LEMMA FirstOfDue ==
  ASSUME NEW lines \in Seq(Line), lines # <<>>, Ahead(lines),
         buffer \in [1 .. Size -> Char]
  PROVE  /\ Ends # {}
         /\ Eol = Len(Head(lines)) + 1
         /\ SubSeq(buffer, 1, Eol - 1) = Head(lines)
<1> DEFINE line == Head(lines)
           n == Len(line)
           rest == LineBytes(Tail(lines))
           bytes == LineBytes(lines)
<1>1. /\ line \in Line /\ n \in Nat /\ Len(rest) \in Nat
      /\ Len(bytes) = n + 2 + Len(rest)
      /\ \A i \in 1 .. n : bytes[i] = line[i]
      /\ bytes[n + 1] = "r" /\ bytes[n + 2] = "n"
  BY FirstLine
<1>2. /\ 2 * Len(bytes) <= Size /\ Size \in Nat
      /\ \A i \in 1 .. Len(bytes) : buffer[i] = bytes[i]
  BY BufferAssumption DEF Ahead
<1> HIDE DEF line, rest, bytes
<1>3. line \in Seq(Char)
  BY <1>1, BufferAssumption
<1> HIDE DEF n
<1>4. n + 2 <= Size /\ n + 1 \in 1 .. Size - 1
  BY <1>1, <1>2
<1>5. \A i \in 1 .. n : buffer[i] = line[i]
  BY <1>1, <1>2
<1>6. buffer[n + 1] = "r" /\ buffer[n + 2] = "n"
  BY <1>1, <1>2
<1>7. \A i \in 1 .. n : line[i] # "0" /\ (i < n => ~ (line[i] = "r" /\ line[i + 1] = "n"))
  BY <1>1, LineAssumption DEF n
<1>8. n + 1 \in Ends
  <2>1. \A j \in 1 .. n + 1 : buffer[j] # "0"
    <3>1. ASSUME NEW j \in 1 .. n PROVE buffer[j] # "0"
      BY <1>5, <1>7
    <3>2. buffer[n + 1] # "0"
      BY <1>6
    <3> QED
      BY <1>1, <3>1, <3>2
  <2>2. (n + 1) + 1 = n + 2
    BY <1>1
  <2> QED
    BY <1>4, <1>6, <2>1, <2>2 DEF Ends
<1>9. ASSUME NEW i \in Ends, ~ (n + 1 <= i) PROVE FALSE
  <2>1. i \in 1 .. n /\ buffer[i] = "r" /\ buffer[i + 1] = "n"
    BY <1>1, <1>4, <1>9 DEF Ends
  <2>2. CASE i = n
    <3>1. i + 1 = n + 1
      BY <2>2
    <3> QED
      BY <1>6, <2>1, <3>1
  <2>3. CASE i # n
    <3>1. i < n /\ i + 1 \in 1 .. n
      BY <1>1, <2>1, <2>3
    <3> QED
      BY <1>5, <1>7, <2>1, <3>1
  <2> QED
    BY <2>2, <2>3
<1>10. Eol = n + 1
  BY <1>8, <1>9, EolFirst
<1>11. SubSeq(buffer, 1, n) = line
  <2>1. \A i \in 1 .. n : buffer[i] \in Char
    BY <1>1, <1>2, <1>4
  <2>2. /\ SubSeq(buffer, 1, n) \in Seq(Char)
        /\ Len(SubSeq(buffer, 1, n)) = IF 1 <= n THEN n - 1 + 1 ELSE 0
        /\ \A i \in 1 .. n - 1 + 1 : SubSeq(buffer, 1, n)[i] = buffer[1 + i - 1]
    BY <1>1, <2>1, SubSeqProperties
  <2> DEFINE s == SubSeq(buffer, 1, n)
  <2>3. s \in Seq(Char) /\ Len(s) = n /\ \A i \in 1 .. n : s[i] = line[i]
    BY <1>1, <1>5, <2>2
  <2> HIDE DEF s
  <2>4. Len(line) = n
    BY DEF n
  <2>5. s = line
    BY <1>3, <2>3, <2>4, SeqEqual
  <2> QED
    BY <2>5 DEF s
<1>12. Eol - 1 = n
  BY <1>1, <1>10
<1> QED
  BY <1>8, <1>10, <1>11, <1>12 DEF line, n

\* Why the lines handled are the lines received: while everything arrives in
\* an orderly way, the lines that are due stand at the front of the buffer,
\* until QUIT ends the session.
DueInv ==
  /\ buffer \in [1 .. Size -> Char] /\ due \in Seq(Line)
  /\ orderly => exact /\ (pc # "closed" => Ahead(due))

LEMMA DueInit == Init => DueInv
<1> SUFFICES ASSUME Init PROVE DueInv
  OBVIOUS
<1>1. buffer \in [1 .. Size -> Char] /\ due \in Seq(Line) /\ exact
  BY BufferAssumption DEF Init
<1>2. ASSUME orderly PROVE Ahead(due)
  <2>1. \A i \in 1 .. Size : buffer[i] # "n"
    BY <1>2 DEF Init
  <2>2. Len(LineBytes(due)) = 0
    BY NoBytes DEF Init
  <2> QED
    BY <2>1, <2>2, BufferAssumption DEF Ahead
<1> QED
  BY <1>1, <1>2 DEF DueInv

LEMMA ReceiveKeepsDue ==
  ASSUME DueInv, NEW lines \in Segments, NEW rest \in Rest, Receive(lines, rest)
  PROVE  DueInv'
<1> DEFINE bytes == LineBytes(lines) \o rest
<1>1. lines \in Seq(Line)
  BY BufferAssumption DEF Segments
<1>2. LineBytes(lines) \in Seq(Char) /\ rest \in Seq(Char)
  BY <1>1, BytesType, BufferAssumption
<1>3. bytes \in Seq(Char)
  <2> DEFINE b == LineBytes(lines)
  <2> HIDE DEF b
  <2> SUFFICES b \o rest \in Seq(Char)
    BY DEF b
  <2> QED
    BY <1>2, ConcatProperties DEF b
<1>4. buffer' = [i \in 1 .. Size |-> IF i <= Len(bytes) THEN bytes[i] ELSE buffer[i]]
  BY DEF Receive, Write
<1>5. /\ orderly' = (orderly /\ Orderly(bytes, rest))
      /\ due' = IF orderly' THEN due \o lines ELSE <<>>
      /\ exact' = exact
  BY DEF Receive
<1> HIDE DEF bytes
<1>6. buffer' \in [1 .. Size -> Char]
  BY <1>3, <1>4, BufferAssumption DEF DueInv
<1>7. due' \in Seq(Line)
  BY <1>1, <1>5 DEF DueInv
<1>8. ASSUME orderly' PROVE exact' /\ Ahead(due)'
  <2>1. orderly /\ rest = <<>> /\ 2 * Len(bytes) <= Size /\ Ends = {} /\ exact /\ Ahead(due)
    BY <1>5, <1>8 DEF Orderly, DueInv, Receive
  <2>2. due = <<>>
    BY <2>1, FirstOfDue DEF DueInv
  <2>3. due' = lines
    BY <1>1, <1>5, <1>8, <2>2
  <2>4. bytes = LineBytes(lines)
    <3> DEFINE b == LineBytes(lines)
    <3>1. b \in Seq(Char)
      BY <1>2
    <3> HIDE DEF b
    <3>2. bytes = b \o <<>>
      BY <2>1 DEF bytes, b
    <3>3. b \o <<>> = b
      BY <3>1, ConcatEmptySeq
    <3> QED
      BY <3>2, <3>3 DEF b
  <2>5. \A i \in 1 .. Size : buffer[i] # "n"
    <3>1. Len(LineBytes(due)) = 0
      BY <2>2, NoBytes
    <3> QED
      BY <2>1, <3>1 DEF Ahead
  <2>6. Len(bytes) \in Nat /\ Size \in Nat
    BY <1>3, BufferAssumption
  <2>7. \A i \in 1 .. Len(bytes) : i \in 1 .. Size
    BY <2>1, <2>6
  <2>8. \A i \in 1 .. Len(bytes) : buffer'[i] = bytes[i]
    BY <1>4, <2>6, <2>7
  <2>9. \A i \in 1 .. Size : i > Len(bytes) => buffer'[i] # "n"
    BY <1>4, <2>5, <2>6
  <2>10. LineBytes(due') = bytes
    BY <2>3, <2>4
  <2>11. exact'
    BY <1>5, <2>1
  <2>12. Ahead(due)'
    BY <2>1, <2>8, <2>9, <2>10 DEF Ahead
  <2> QED
    BY <2>11, <2>12
<1> QED
  BY <1>6, <1>7, <1>8 DEF DueInv

\* A line taken out of the buffer leaves the others at its front: the NULs hit
\* only that line, and what memmove leaves at the end has no LF.
LEMMA HandleLineKeepsDue ==
  ASSUME DueInv, NEW command \in BOOLEAN, HandleLine(command)
  PROVE  DueInv'
<1> DEFINE cells == Terminated(command)
<1>0. pc = "handling"
  BY DEF HandleLine, TakeLine
<1>1. /\ Ends # {} /\ buffer' = Moved(cells)
      /\ orderly' = (orderly /\ ~ (command /\ Cut > Eol))
      /\ exact' = (exact /\ (orderly => due # <<>> /\ Head(due) = SubSeq(buffer, 1, Eol - 1)))
      /\ due' = IF orderly' /\ due # <<>> THEN Tail(due) ELSE <<>>
  BY DEF HandleLine, TakeLine
<1>2. Eol \in 1 .. Size - 1 /\ Size \in Nat /\ Cut \in Nat
  BY <1>1, EolInBuffer, BufferAssumption
<1>3. /\ cells \in [1 .. Size -> Char]
      /\ \A i \in 1 .. Size :
           cells[i] = IF i = Eol \/ (command /\ i = Cut + 1) THEN "0" ELSE buffer[i]
  BY DEF Terminated, DueInv, Char
<1> HIDE DEF cells
<1>4. /\ buffer' \in [1 .. Size -> Char]
      /\ \A i \in 1 .. Size :
           buffer'[i] = IF i + Eol + 1 <= Size THEN cells[i + Eol + 1] ELSE cells[i]
  BY <1>1, <1>2, <1>3 DEF Moved
<1>5. due' \in Seq(Line)
  BY <1>1 DEF DueInv
<1>6. ASSUME orderly' PROVE exact' /\ Ahead(due)'
  <2> DEFINE all == LineBytes(due)
             left == LineBytes(Tail(due))
  <2>1. orderly /\ exact /\ Ahead(due) /\ (command => Cut <= Eol)
    <3>1. orderly /\ ~ (command /\ Cut > Eol)
      BY <1>1, <1>6, Zenon
    <3>2. exact /\ Ahead(due)
      BY <1>0, <3>1 DEF DueInv
    <3>3. command => Cut <= Eol
      BY <1>2, <3>1
    <3> QED
      BY <3>1, <3>2, <3>3
  <2>2. due # <<>>
    <3> SUFFICES ASSUME due = <<>> PROVE FALSE
      OBVIOUS
    <3>1. Len(LineBytes(due)) = 0
      BY NoBytes
    <3>2. \A i \in 1 .. Size : buffer[i] # "n"
      BY <2>1, <3>1 DEF Ahead
    <3>3. PICK e \in Ends : TRUE
      BY <1>1
    <3>4. e \in 1 .. Size - 1 /\ buffer[e + 1] = "n"
      BY <3>3 DEF Ends
    <3> QED
      BY <1>2, <3>2, <3>4
  <2>3. Eol = Len(Head(due)) + 1 /\ SubSeq(buffer, 1, Eol - 1) = Head(due)
    BY <2>1, <2>2, FirstOfDue DEF DueInv
  <2>4. /\ Len(left) \in Nat /\ Len(all) = Eol + 1 + Len(left)
        /\ \A i \in 1 .. Len(left) : all[i + Eol + 1] = left[i]
    <3> DEFINE n == Len(Head(due))
    <3>1. /\ n \in Nat /\ Len(left) \in Nat /\ Len(all) = n + 2 + Len(left)
          /\ \A i \in 1 .. Len(left) : all[i + n + 2] = left[i]
      BY <2>2, FirstLine DEF DueInv
    <3>2. Eol = n + 1
      BY <2>3
    <3> HIDE DEF n, left, all
    <3>3. \A i \in 1 .. Len(left) : i + Eol + 1 = i + n + 2
      BY <3>1, <3>2
    <3> QED
      BY <3>1, <3>2, <3>3
  <2>5. due' = Tail(due)
    BY <1>1, <1>6, <2>2
  <2>6. exact'
    BY <1>1, <2>1, <2>2, <2>3
  <2>7. /\ 2 * Len(all) <= Size
        /\ \A i \in 1 .. Len(all) : buffer[i] = all[i]
        /\ \A i \in 1 .. Size : i > Len(all) => buffer[i] # "n"
    BY <2>1 DEF Ahead
  <2> HIDE DEF all, left
  <2>8. ASSUME NEW i \in 1 .. Size, i > Eol + 1 PROVE cells[i] = buffer[i]
    BY <1>2, <1>3, <2>1, <2>8
  <2>9. ASSUME NEW i \in 1 .. Size, i > Len(all) PROVE cells[i] # "n"
    BY <1>3, <2>7, <2>9
  <2>10. ASSUME NEW i \in 1 .. Len(left) PROVE buffer'[i] = left[i]
    <3>1. /\ i \in 1 .. Size /\ i + Eol + 1 \in 1 .. Len(all) /\ i + Eol + 1 \in 1 .. Size
          /\ i + Eol + 1 > Eol + 1 /\ i + Eol + 1 <= Size
      BY <1>2, <2>4, <2>7
    <3>2. buffer'[i] = cells[i + Eol + 1]
      BY <1>4, <3>1
    <3> QED
      BY <2>4, <2>7, <2>8, <3>1, <3>2
  <2>11. ASSUME NEW i \in 1 .. Size, i > Len(left) PROVE buffer'[i] # "n"
    <3>1. CASE i + Eol + 1 <= Size
      <4>1. i + Eol + 1 \in 1 .. Size /\ i + Eol + 1 > Len(all)
        BY <1>2, <2>4, <2>11, <3>1
      <4> QED
        BY <1>4, <2>9, <3>1, <4>1
    <3>2. CASE ~ (i + Eol + 1 <= Size)
      <4>1. i > Len(all)
        BY <1>2, <2>4, <2>7, <3>2
      <4> QED
        BY <1>4, <2>9, <3>2, <4>1
    <3> QED
      BY <3>1, <3>2
  <2>12. 2 * Len(left) <= Size
    BY <1>2, <2>4, <2>7
  <2>13. LineBytes(due') = left
    BY <2>5 DEF left
  <2>14. Ahead(due)'
    BY <2>10, <2>11, <2>12, <2>13 DEF Ahead
  <2> QED
    BY <2>6, <2>14
<1> QED
  BY <1>4, <1>5, <1>6 DEF DueInv

\* When no line is left in the buffer, none is due.
LEMMA EndLinesKeepsDue ==
  ASSUME DueInv, EndLines
  PROVE  DueInv'
<1>1. /\ Ends = {} /\ due' = <<>> /\ buffer' = buffer /\ orderly' = orderly
      /\ exact' = (exact /\ (orderly => due = <<>>))
  BY DEF EndLines
<1>2. buffer' \in [1 .. Size -> Char] /\ due' \in Seq(Line)
  BY <1>1 DEF DueInv
<1>3. ASSUME orderly' PROVE exact' /\ Ahead(due)'
  <2>1. orderly /\ exact /\ Ahead(due)
    BY <1>1, <1>3 DEF DueInv, EndLines
  <2>2. due = <<>>
    BY <1>1, <2>1, FirstOfDue DEF DueInv
  <2>3. due' = due
    BY <1>1, <2>2
  <2>4. Ahead(due)'
    BY <1>1, <2>1, <2>3 DEF Ahead
  <2> QED
    BY <1>1, <2>1, <2>2, <2>4
<1> QED
  BY <1>2, <1>3 DEF DueInv

\* QUIT leaves the buffer as it is, but for the NULs: either the session is over,
\* or nothing is promised of what follows.
LEMMA QuitKeepsDue ==
  ASSUME DueInv, Quit
  PROVE  DueInv'
<1>1. /\ Ends # {} /\ buffer' = Terminated(TRUE) /\ due' = <<>>
      /\ exact' = (exact /\ (orderly => due # <<>> /\ Head(due) = SubSeq(buffer, 1, Eol - 1)))
      /\ pc = "handling"
      /\ \/ pc' = "closed" /\ orderly' = orderly
         \/ ~ orderly'
  BY DEF Quit, TakeLine
<1>2. buffer' \in [1 .. Size -> Char] /\ due' \in Seq(Line)
  BY <1>1 DEF DueInv, Terminated, Char
<1>3. ASSUME orderly' PROVE exact' /\ pc' = "closed"
  <2>1. pc' = "closed" /\ orderly /\ exact /\ Ahead(due)
    BY <1>1, <1>3 DEF DueInv
  <2>2. due # <<>>
    <3> SUFFICES ASSUME due = <<>> PROVE FALSE
      OBVIOUS
    <3>1. Len(LineBytes(due)) = 0
      BY NoBytes
    <3>2. \A i \in 1 .. Size : buffer[i] # "n"
      BY <2>1, <3>1 DEF Ahead
    <3>3. PICK e \in Ends : TRUE
      BY <1>1
    <3>4. e \in 1 .. Size - 1 /\ buffer[e + 1] = "n"
      BY <3>3 DEF Ends
    <3> QED
      BY <3>2, <3>4, BufferAssumption
  <2>3. SubSeq(buffer, 1, Eol - 1) = Head(due)
    BY <2>1, <2>2, FirstOfDue DEF DueInv
  <2> QED
    BY <1>1, <2>1, <2>2, <2>3
<1> QED
  BY <1>2, <1>3 DEF DueInv

LEMMA DueStep == DueInv /\ [Next]_vars => DueInv'
<1> SUFFICES ASSUME DueInv, [Next]_vars PROVE DueInv'
  OBVIOUS
<1>1. ASSUME NEW lines \in Segments, NEW rest \in Rest, Receive(lines, rest) PROVE DueInv'
  BY <1>1, ReceiveKeepsDue
<1>2. CASE StartLines
  BY <1>2 DEF StartLines, DueInv, Ahead
<1>3. CASE Command
  BY <1>3, HandleLineKeepsDue DEF Command
<1>4. CASE Text
  BY <1>4, HandleLineKeepsDue DEF Text
<1>5. CASE EndLines
  BY <1>5, EndLinesKeepsDue
<1>6. CASE Quit
  BY <1>6, QuitKeepsDue
<1>7. CASE ReadBeyond
  BY <1>7 DEF ReadBeyond, DueInv, Ahead
<1>8. CASE UNCHANGED vars
  BY <1>8 DEF vars, DueInv, Ahead
<1> QED
  BY <1>1, <1>2, <1>3, <1>4, <1>5, <1>6, <1>7, <1>8 DEF Next, Handler

\* Lines that arrive in an orderly way are handled each once and in order, in a
\* buffer of any size, until a QUIT: neither what is left in it from before nor
\* the NULs written into it come back as lines (smtp.c:264-345).  The way is not
\* orderly any more after a QUIT whose reply would block (smtp.c:329, 577).
THEOREM LinesAreHandledHolds == Spec => []LinesAreHandled
<1>1. DueInv => LinesAreHandled
  BY DEF DueInv, LinesAreHandled
<1> QED
  BY <1>1, DueInit, DueStep, PTL DEF Spec
=============================================================================
