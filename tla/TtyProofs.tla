----------------------------- MODULE TtyProofs ------------------------------
(***************************************************************************)
(* Theorems about Tty: for every size of the ring and any number of        *)
(* readers and CPUs, the ring holds what was accepted and not read; on one *)
(* CPU no reader sleeps on readable input and a read is at most a line.    *)
(***************************************************************************)
EXTENDS Tty, TLAPS

Chars == {"x", "nl"}

-----------------------------------------------------------------------------
(* The ring.                                                               *)

(* Less than two turns from the start of the ring.                         *)
LEMMA ModIs ==
    ASSUME NEW a \in Nat, a < RxSize + RxSize
    PROVE  a % RxSize = IF a < RxSize THEN a ELSE a - RxSize
  <1>1. RxSize \in Nat \ {0}
    BY TtyAssumption, Zenon
  <1>2. CASE a < RxSize
    BY <1>1, <1>2
  <1>3. CASE a >= RxSize
    BY <1>1, <1>3
  <1> QED BY <1>1, <1>2, <1>3

(* Indices of the ring, the n characters from t on in b, and how far it is *)
(* from the tail t to the head h.                                          *)
Slots == 0 .. RxSize - 1
Place(t, i) == IF t + i - 1 < RxSize THEN t + i - 1 ELSE t + i - 1 - RxSize
Window(b, t, n) == [i \in 1 .. n |-> b[(t + i - 1) % RxSize]]
Distance(h, t) == IF h >= t THEN h - t ELSE RxSize - t + h

(* The operators of the ring, before and after a step.                     *)
LEMMA RingIs ==
    /\ tty_rx_count = Distance(rx_head, rx_tail) /\ tty_rx_count' = Distance(rx_head', rx_tail')
    /\ \A n : AtTail(n) = Window(rx_buf, rx_tail, n)
    /\ \A n : AtTail(n)' = Window(rx_buf', rx_tail', n)
  BY Zenon DEF tty_rx_count, AtTail, Distance, Window

(* The count never reaches the size of the ring, and the head is as many   *)
(* places after the tail.                                                  *)
LEMMA DistanceIs ==
    ASSUME NEW h \in Slots, NEW t \in Slots
    PROVE  /\ Distance(h, t) \in 0 .. RxSize - 1 /\ Distance(h, t) \in Nat
           /\ h = Place(t, Distance(h, t) + 1)
  BY TtyAssumption DEF Distance, Place, Slots

(* What is in a window.                                                    *)
LEMMA WindowIs ==
    ASSUME NEW b \in [Slots -> Chars], NEW t \in Slots, NEW n \in 0 .. RxSize - 1
    PROVE  /\ Window(b, t, n) \in Seq(Chars) /\ Len(Window(b, t, n)) = n
           /\ \A i \in 1 .. n : /\ Place(t, i) \in Slots /\ Window(b, t, n)[i] = b[Place(t, i)]
                                /\ Window(b, t, n)[i] \in Chars
  <1>1. RxSize \in Nat /\ t \in 0 .. RxSize - 1
    BY TtyAssumption, Zenon DEF Slots
  <1>2. ASSUME NEW i \in 1 .. n
        PROVE  (t + i - 1) % RxSize = Place(t, i) /\ Place(t, i) \in Slots
    <2>1. t + i - 1 \in Nat /\ t + i - 1 < RxSize + RxSize
      BY <1>1
    <2>2. PICK a \in Nat : a = t + i - 1 /\ a < RxSize + RxSize
      BY <2>1, Zenon
    <2>3. a % RxSize = IF a < RxSize THEN a ELSE a - RxSize
      BY <2>2, ModIs, Zenon
    <2>4. (t + i - 1) % RxSize = Place(t, i)
      BY <1>1, <2>2, <2>3 DEF Place
    <2> QED BY <1>1, <2>1, <2>4 DEF Place, Slots
  <1>3. \A i \in 1 .. n : b[(t + i - 1) % RxSize] \in Chars
    BY <1>2, Zenon
  <1>4. Window(b, t, n) = [i \in 1 .. n |-> b[(t + i - 1) % RxSize]]
    BY Zenon DEF Window
  <1>5. Window(b, t, n) \in Seq(Chars) /\ Len(Window(b, t, n)) = n
    BY <1>3, <1>4
  <1> QED BY <1>2, <1>3, <1>4, <1>5, Zenon

(* A character at the head is behind the ones of the window.               *)
LEMMA WindowGrows ==
    ASSUME NEW b \in [Slots -> Chars], NEW t \in Slots, NEW h \in Slots, NEW c \in Chars,
           tty_rx_next(h) # t,
           NEW d \in [Slots -> Chars], d[h] = c, \A k \in Slots : k # h => d[k] = b[k]
    PROVE  /\ tty_rx_next(h) \in Slots
           /\ Distance(tty_rx_next(h), t) = Distance(h, t) + 1
           /\ Window(d, t, Distance(h, t) + 1) = Append(Window(b, t, Distance(h, t)), c)
  <1>0. RxSize \in Nat /\ RxSize > 1
    BY TtyAssumption
  <1>1. /\ tty_rx_next(h) \in Slots
        /\ Distance(tty_rx_next(h), t) = Distance(h, t) + 1
    BY <1>0 DEF tty_rx_next, Distance, Slots
  <1>2. PICK n \in 0 .. RxSize - 1 : n = Distance(h, t)
    BY DistanceIs, Zenon
  <1>3. n + 1 \in 0 .. RxSize - 1 /\ n \in Nat /\ h = Place(t, n + 1)
    BY <1>0, <1>1, <1>2, DistanceIs, Zenon
  <1>5. ASSUME NEW i \in 1 .. n PROVE Place(t, i) # h /\ d[Place(t, i)] = b[Place(t, i)]
    <2>1. Place(t, i) # h
      BY <1>0, <1>3 DEF Place, Slots
    <2> QED BY <1>2, <2>1, WindowIs, Zenon
  <1>6. d[Place(t, n + 1)] = c
    BY <1>3, Zenon
  <1>7. PICK v \in Seq(Chars) : v = Window(d, t, n + 1) /\ Len(v) = n + 1
    BY <1>3, WindowIs, Zenon
  <1>8. PICK w \in Seq(Chars) : w = Window(b, t, n) /\ Len(w) = n
    BY <1>2, WindowIs, Zenon
  <1>9. \A i \in 1 .. n : v[i] = w[i]
    <2> SUFFICES ASSUME NEW i \in 1 .. n PROVE v[i] = w[i]
      BY Zenon
    <2>1. i \in 1 .. n + 1
      BY <1>3
    <2>2. v[i] = d[Place(t, i)]
      BY <1>3, <1>7, <2>1, WindowIs, Zenon
    <2>3. w[i] = b[Place(t, i)]
      BY <1>2, <1>8, WindowIs, Zenon
    <2> QED BY <1>5, <2>2, <2>3, Zenon
  <1>10. v[n + 1] = c
    <2>1. n + 1 \in 1 .. n + 1
      BY <1>3
    <2> QED BY <1>3, <1>6, <1>7, <2>1, WindowIs, Zenon
  <1>11. v = Append(w, c)
    BY <1>3, <1>7, <1>8, <1>9, <1>10
  <1> QED BY <1>1, <1>2, <1>7, <1>8, <1>11, Zenon

(* Taking n characters leaves the others.                                  *)
LEMMA WindowShrinks ==
    ASSUME NEW b \in [Slots -> Chars], NEW t \in Slots, NEW h \in Slots,
           NEW n \in 0 .. Distance(h, t)
    PROVE  /\ (t + n) % RxSize \in Slots
           /\ Distance(h, (t + n) % RxSize) = Distance(h, t) - n
           /\ Window(b, (t + n) % RxSize, Distance(h, t) - n)
                 = SubSeq(Window(b, t, Distance(h, t)), n + 1, Distance(h, t))
  <1>0. RxSize \in Nat /\ RxSize > 1 /\ t \in Nat /\ n \in Nat
    BY TtyAssumption, DistanceIs DEF Slots
  <1>1. PICK m \in 0 .. RxSize - 1 : m = Distance(h, t) /\ m \in Nat
    BY DistanceIs, Zenon
  <1>2. t + n \in Nat /\ t + n < RxSize + RxSize
    BY <1>0, <1>1 DEF Slots
  <1>3. PICK u : u = (t + n) % RxSize
    BY Zenon
  <1>4. u = Place(t, n + 1)
    <2>1. PICK a \in Nat : a = t + n /\ a < RxSize + RxSize
      BY <1>2, Zenon
    <2>2. a % RxSize = IF a < RxSize THEN a ELSE a - RxSize
      BY <2>1, ModIs, Zenon
    <2> QED BY <1>0, <1>3, <2>1, <2>2 DEF Place
  <1>5. u \in Slots /\ Distance(h, u) = m - n
    BY <1>0, <1>1, <1>4 DEF Place, Slots, Distance
  <1>6. m - n \in 0 .. RxSize - 1 /\ m - n \in Nat
    BY <1>0, <1>1
  <1>7. PICK v \in Seq(Chars) : v = Window(b, u, m - n) /\ Len(v) = m - n
    BY <1>5, <1>6, WindowIs, Zenon
  <1>8. PICK w \in Seq(Chars) : w = Window(b, t, m) /\ Len(w) = m
    BY <1>1, WindowIs, Zenon
  <1>9. \A i \in 1 .. m - n : v[i] = w[n + i]
    <2> SUFFICES ASSUME NEW i \in 1 .. m - n PROVE v[i] = w[n + i]
      BY Zenon
    <2>1. n + i \in 1 .. m
      BY <1>0, <1>1
    <2>2. v[i] = b[Place(u, i)]
      BY <1>5, <1>6, <1>7, WindowIs, Zenon
    <2>3. w[n + i] = b[Place(t, n + i)]
      BY <1>1, <1>8, <2>1, WindowIs, Zenon
    <2>4. Place(u, i) = Place(t, n + i)
      BY <1>0, <1>1, <1>4 DEF Place, Slots
    <2> QED BY <2>2, <2>3, <2>4, Zenon
  <1>10. v = SubSeq(w, n + 1, m)
    <2>1. PICK s : s = SubSeq(w, n + 1, m)
      BY Zenon
    <2>2. s \in Seq(Chars) /\ Len(s) = m - n
      BY <1>0, <1>1, <1>8, <2>1
    <2>3. \A i \in 1 .. m - n : s[i] = w[n + i]
      BY <1>0, <1>1, <1>8, <2>1
    <2> QED BY <1>6, <1>7, <1>9, <2>1, <2>2, <2>3
  <1> QED BY <1>1, <1>3, <1>5, <1>7, <1>8, <1>10, Zenon

-----------------------------------------------------------------------------
(* Lines.                                                                  *)

WF == INSTANCE WellFoundedInduction

(* A set of numbers that is not empty has a smallest member.               *)
LEMMA Smallest ==
    ASSUME NEW S \in SUBSET Nat, S # {} PROVE \E n \in S : \A m \in S : n <= m
  <1>1. PICK R : R = WF!OpToRel(<, Nat)
    BY Zenon
  <1>2. WF!IsWellFoundedOn(R, Nat)
    BY <1>1, WF!NatLessThanWellFounded, Zenon
  <1>3. PICK n \in S : \A m \in S : <<m, n>> \notin R
    BY <1>2, WF!WFMin, Zenon
  <1>4. \A k, m \in Nat : <<m, k>> \in R <=> m < k
    BY <1>1, Zenon DEF WF!OpToRel
  <1>5. \A m \in S : ~(m < n)
    BY <1>3, <1>4, Zenon
  <1> QED BY <1>5

(* Where lines end in s, the length of the first, and what a read may have *)
(* of s in a mode.                                                         *)
Ends(s) == {n \in 1 .. Len(s) : s[n] = "nl"}
Least(S) == IF S = {} THEN 0 ELSE CHOOSE n \in S : \A m \in S : n <= m
LineLength(s) == Least(Ends(s))
Readable(canon, s) == IF canon THEN LineLength(s) ELSE Len(s)

(* The first line ends in the first newline.                               *)
LEMMA LineLengthIs ==
    ASSUME NEW s \in Seq(Chars)
    PROVE  /\ LineLength(s) \in 0 .. Len(s)
           /\ Ends(s) # {} => LineLength(s) \in Ends(s)
           /\ \A i \in 1 .. LineLength(s) - 1 : s[i] # "nl"
  <1>1. CASE Ends(s) = {}
    BY <1>1 DEF LineLength, Least
  <1>2. CASE Ends(s) # {}
    <2>1. Ends(s) \in SUBSET Nat
      BY DEF Ends
    <2>2. \E n \in Ends(s) : \A m \in Ends(s) : n <= m
      BY <1>2, <2>1, Smallest, Zenon
    <2>3. PICK n \in Ends(s) : n = LineLength(s) /\ \A m \in Ends(s) : n <= m
      BY <1>2, <2>2, Zenon DEF LineLength, Least
    <2>4. n \in 1 .. Len(s) /\ Len(s) \in Nat
      BY <2>3 DEF Ends
    <2>5. ASSUME NEW i \in 1 .. n - 1, s[i] = "nl" PROVE FALSE
      <3>1. i \in 1 .. Len(s) /\ ~(n <= i)
        BY <2>4
      <3> QED BY <2>3, <2>5, <3>1, Zenon DEF Ends
    <2>6. n \in 0 .. Len(s)
      BY <2>4
    <2> QED BY <2>3, <2>5, <2>6, Zenon
  <1> QED BY <1>1, <1>2, Zenon

(* There is something to read: a line, or a character.                     *)
LEMMA ReadableIs ==
    ASSUME NEW s \in Seq(Chars), NEW canon \in BOOLEAN
    PROVE  /\ Readable(canon, s) \in 0 .. Len(s)
           /\ Readable(canon, s) > 0 <=> IF canon THEN Ends(s) # {} ELSE Len(s) > 0
  <1>1. Len(s) \in Nat
    OBVIOUS
  <1>2. CASE canon
    <2>1. Readable(canon, s) = LineLength(s)
      BY <1>2, Zenon DEF Readable
    <2>2. Ends(s) # {} => LineLength(s) > 0
      <3>1. Ends(s) # {} => LineLength(s) \in 1 .. Len(s)
        BY LineLengthIs, Zenon DEF Ends
      <3> QED BY <3>1
    <2>3. Ends(s) = {} => LineLength(s) = 0
      BY Zenon DEF LineLength, Least
    <2>4. LineLength(s) \in 0 .. Len(s)
      BY LineLengthIs, Zenon
    <2>5. LineLength(s) > 0 <=> Ends(s) # {}
      BY <1>1, <2>2, <2>3, <2>4
    <2> QED BY <1>2, <2>1, <2>4, <2>5, Zenon
  <1>3. CASE ~canon
    BY <1>1, <1>3 DEF Readable
  <1> QED BY <1>2, <1>3, Zenon

(* A character more does not take away what there was to read.             *)
LEMMA ReadableGrows ==
    ASSUME NEW s \in Seq(Chars), NEW c \in Chars, NEW canon \in BOOLEAN, Readable(canon, s) > 0
    PROVE  Readable(canon, Append(s, c)) > 0
  <1>0. Append(s, c) \in Seq(Chars) /\ Len(Append(s, c)) = Len(s) + 1
    OBVIOUS
  <1>1. PICK u \in Seq(Chars) : u = Append(s, c) /\ Len(u) = Len(s) + 1
    BY <1>0, Zenon
  <1>2. Len(u) > 0 /\ \A i \in 1 .. Len(s) : i \in 1 .. Len(u) /\ u[i] = s[i]
    BY <1>1
  <1>3. Ends(s) # {} => Ends(u) # {}
    BY <1>2, Zenon DEF Ends
  <1>4. IF canon THEN Ends(s) # {} ELSE Len(s) > 0
    BY ReadableIs, Zenon
  <1>5. IF canon THEN Ends(u) # {} ELSE Len(u) > 0
    BY <1>2, <1>3, <1>4, Zenon
  <1> QED BY <1>1, <1>5, ReadableIs, Zenon

(* The line ends tty_rx_line_length finds are those of the window.         *)
LEMMA EndsOfWindow ==
    ASSUME NEW b \in [Slots -> Chars], NEW t \in Slots, NEW m \in 0 .. RxSize - 1
    PROVE  {n \in 1 .. m : Window(b, t, n)[n] = "nl"} = Ends(Window(b, t, m))
  <1>1. ASSUME NEW n \in 1 .. m PROVE Window(b, t, n)[n] = Window(b, t, m)[n]
    <2>1. n \in 0 .. RxSize - 1 /\ n \in 1 .. n
      BY TtyAssumption
    <2>2. Window(b, t, n)[n] = b[Place(t, n)]
      BY <2>1, WindowIs, Zenon
    <2>3. Window(b, t, m)[n] = b[Place(t, n)]
      BY WindowIs, Zenon
    <2> QED BY <2>2, <2>3, Zenon
  <1>2. Len(Window(b, t, m)) = m
    BY WindowIs, Zenon
  <1> QED BY <1>1, <1>2, Zenon DEF Ends

(* What tty_read may copy is what the accepted input has to read.          *)
LEMMA AvailableIs ==
    ASSUME RingContent
    PROVE  /\ sent \in Seq(Chars) /\ Len(sent) = tty_rx_count
           /\ Available = Readable(canonical, sent)
  <1>0. /\ rx_buf \in [Slots -> Chars] /\ rx_head \in Slots /\ rx_tail \in Slots
        /\ sent = AtTail(tty_rx_count)
    BY Zenon DEF RingContent, TypeOK, Slots, Chars
  <1>1. sent = Window(rx_buf, rx_tail, Distance(rx_head, rx_tail))
    BY <1>0, RingIs, Zenon
  <1>2. sent \in Seq(Chars) /\ Len(sent) = Distance(rx_head, rx_tail)
    BY <1>0, <1>1, DistanceIs, WindowIs
  <1>3. tty_rx_line_length = Least({n \in 1 .. tty_rx_count : AtTail(n)[n] = "nl"})
    BY Zenon DEF tty_rx_line_length, Least
  <1>4. {n \in 1 .. tty_rx_count : AtTail(n)[n] = "nl"} = Ends(sent)
    <2>1. PICK m \in 0 .. RxSize - 1 : m = Distance(rx_head, rx_tail)
      BY <1>0, DistanceIs, Zenon
    <2>2. {n \in 1 .. m : Window(rx_buf, rx_tail, n)[n] = "nl"} = Ends(Window(rx_buf, rx_tail, m))
      BY <1>0, EndsOfWindow, Zenon
    <2> QED BY <1>1, <2>1, <2>2, RingIs, Zenon
  <1>5. tty_rx_line_length = LineLength(sent)
    BY <1>3, <1>4, Zenon DEF LineLength
  <1> QED BY <1>2, <1>5, RingIs, Zenon DEF Available, Readable

(* ... after a step too.                                                   *)
LEMMA AvailableNext ==
    ASSUME RingContent' PROVE sent' \in Seq(Chars) /\ Available' = Readable(canonical', sent')
  <1>0. /\ rx_buf' \in [Slots -> Chars] /\ rx_head' \in Slots /\ rx_tail' \in Slots
        /\ sent' = AtTail(tty_rx_count)'
    BY Zenon DEF RingContent, TypeOK, Slots, Chars
  <1>1. sent' = Window(rx_buf', rx_tail', Distance(rx_head', rx_tail'))
    BY <1>0, RingIs, Zenon DEF AtTail, Window
  <1>2. sent' \in Seq(Chars) /\ Len(sent') = Distance(rx_head', rx_tail')
    BY <1>0, <1>1, DistanceIs, WindowIs
  <1>3. tty_rx_line_length' = Least({n \in 1 .. tty_rx_count' : AtTail(n)'[n] = "nl"})
    BY Zenon DEF tty_rx_line_length, Least
  <1>4. {n \in 1 .. tty_rx_count' : AtTail(n)'[n] = "nl"} = Ends(sent')
    <2>1. PICK m \in 0 .. RxSize - 1 : m = Distance(rx_head', rx_tail')
      BY <1>0, DistanceIs, Zenon
    <2>2. {n \in 1 .. m : Window(rx_buf', rx_tail', n)[n] = "nl"}
            = Ends(Window(rx_buf', rx_tail', m))
      BY <1>0, EndsOfWindow, Zenon
    <2> QED BY <1>1, <2>1, <2>2, RingIs, Zenon
  <1>5. tty_rx_line_length' = LineLength(sent')
    BY <1>3, <1>4, Zenon DEF LineLength
  <1> QED BY <1>2, <1>5, RingIs, Zenon DEF Available, Readable

-----------------------------------------------------------------------------
(* The ring and the types, on any number of CPUs.                          *)

RingType ==
    rx_buf \in [Slots -> Chars] /\ rx_head \in Slots /\ rx_tail \in Slots

(* A character is put behind the others, or dropped.                       *)
LEMMA AcceptKeeps ==
    ASSUME RingContent, NEW c \in Chars, Accept(c)
    PROVE  /\ RingType' /\ AtTail(tty_rx_count)' = sent'
           /\ sent' \in {sent, Append(sent, c)}
  <1>0. RingType /\ sent = AtTail(tty_rx_count)
    BY Zenon DEF RingContent, TypeOK, Slots, Chars, RingType
  <1>1. sent = Window(rx_buf, rx_tail, Distance(rx_head, rx_tail))
    BY <1>0, RingIs, Zenon
  <1>2. CASE tty_rx_next(rx_head) # rx_tail
    <2>1. /\ rx_buf' = [rx_buf EXCEPT ![rx_head] = c] /\ rx_head' = tty_rx_next(rx_head)
          /\ sent' = Append(sent, c) /\ rx_tail' = rx_tail
      BY <1>2, Zenon DEF Accept
    <2>0. /\ rx_buf' \in [Slots -> Chars] /\ rx_buf'[rx_head] = c
          /\ \A k \in Slots : k # rx_head => rx_buf'[k] = rx_buf[k]
      BY <1>0, <2>1, Zenon DEF RingType
    <2>2. /\ rx_head' \in Slots
          /\ Distance(rx_head', rx_tail) = Distance(rx_head, rx_tail) + 1
          /\ Window(rx_buf', rx_tail, Distance(rx_head, rx_tail) + 1) = Append(sent, c)
      <3>1. PICK b \in [Slots -> Chars], d \in [Slots -> Chars], t \in Slots, h \in Slots :
                /\ b = rx_buf /\ d = rx_buf' /\ t = rx_tail /\ h = rx_head
                /\ tty_rx_next(h) # t /\ d[h] = c /\ \A k \in Slots : k # h => d[k] = b[k]
        BY <1>0, <1>2, <2>0, Zenon DEF RingType
      <3>3. tty_rx_next(h) # t /\ d[h] = c /\ \A k \in Slots : k # h => d[k] = b[k]
        BY <3>1, Zenon
      <3>2. /\ tty_rx_next(h) \in Slots
            /\ Distance(tty_rx_next(h), t) = Distance(h, t) + 1
            /\ Window(d, t, Distance(h, t) + 1) = Append(Window(b, t, Distance(h, t)), c)
        BY <3>3, WindowGrows
      <3> QED BY <1>1, <2>1, <3>1, <3>2, Zenon
    <2>3. AtTail(tty_rx_count)' = Window(rx_buf', rx_tail', Distance(rx_head', rx_tail'))
      BY RingIs, Zenon DEF AtTail, Window
    <2> QED BY <1>0, <2>0, <2>1, <2>2, <2>3, Zenon DEF RingType
  <1>3. CASE tty_rx_next(rx_head) = rx_tail
    BY <1>0, <1>3, Zenon DEF Accept, ring, RingType, AtTail, tty_rx_count
  <1> QED BY <1>2, <1>3, Zenon

(* tty_read takes what it copies off the front.                            *)
LEMMA TakeIs ==
    ASSUME RingContent, NEW t \in Readers
    PROVE  /\ Taken(t) \in 0 .. tty_rx_count /\ Taken(t) <= Available /\ Taken(t) \in Nat
           /\ Taken(t) < rd[t].count => Taken(t) = Available
           /\ Available > 0 /\ rd[t].count > 0 => Taken(t) > 0
           /\ tty_rx_count \in 0 .. RxSize - 1 /\ AtTail(Taken(t)) \in Seq(Chars)
           /\ Len(AtTail(Taken(t))) = Taken(t)
           /\ \A i \in 1 .. Taken(t) : AtTail(Taken(t))[i] = sent[i]
  <1>0. RingType /\ sent = AtTail(tty_rx_count)
    BY Zenon DEF RingContent, TypeOK, Slots, Chars, RingType
  <1>1. rd[t].count \in Nat
    <2>1. rd[t] \in Reader
      BY Zenon DEF RingContent, TypeOK
    <2>2. rd[t].count \in Counts \cup {0}
      BY <2>1, Zenon DEF Reader
    <2>3. Counts \cup {0} \subseteq Nat
      BY TtyAssumption
    <2> QED BY <2>2, <2>3, Zenon
  <1>2. PICK m \in 0 .. RxSize - 1 : m = tty_rx_count /\ m \in Nat
    BY <1>0, RingIs, DistanceIs, Zenon DEF RingType
  <1>3. canonical \in BOOLEAN
    BY Zenon DEF RingContent, TypeOK
  <1>4. PICK a \in 0 .. m : a = Available
    BY <1>2, <1>3, AvailableIs, ReadableIs, Zenon
  <1>5. PICK n \in 0 .. m : n = Taken(t)
    BY <1>1, <1>2, <1>4 DEF Taken
  <1>6. n = IF a > rd[t].count THEN rd[t].count ELSE a
    BY <1>4, <1>5, Zenon DEF Taken
  <1>7. /\ n \in Nat /\ n <= a /\ (n < rd[t].count => n = a) /\ (a > 0 /\ rd[t].count > 0 => n > 0)
        /\ n \in 0 .. RxSize - 1
    BY <1>1, <1>2, <1>4, <1>5, <1>6, TtyAssumption
  <1>8. AtTail(n) = Window(rx_buf, rx_tail, n) /\ sent = Window(rx_buf, rx_tail, m)
    BY <1>0, <1>2, RingIs, Zenon
  <1>9. AtTail(n) \in Seq(Chars) /\ Len(AtTail(n)) = n
    BY <1>0, <1>7, <1>8, WindowIs DEF RingType
  <1>10. ASSUME NEW i \in 1 .. n PROVE AtTail(n)[i] = sent[i]
    <2>1. i \in 1 .. m
      BY <1>2, <1>5
    <2>2. AtTail(n)[i] = rx_buf[Place(rx_tail, i)]
      BY <1>0, <1>7, <1>8, WindowIs DEF RingType
    <2>3. sent[i] = rx_buf[Place(rx_tail, i)]
      BY <1>0, <1>2, <1>8, <2>1, WindowIs DEF RingType
    <2> QED BY <2>2, <2>3, Zenon
  <1> QED BY <1>2, <1>4, <1>5, <1>7, <1>9, <1>10, Zenon

(* ... and leaves the rest.                                                *)
LEMMA TakeKeeps ==
    ASSUME RingContent, NEW t \in Readers, Take(t)
    PROVE  RingType' /\ AtTail(tty_rx_count)' = sent'
  <1>0. RingType /\ sent = AtTail(tty_rx_count)
    BY Zenon DEF RingContent, TypeOK, Slots, Chars, RingType
  <1>1. PICK m : m = Distance(rx_head, rx_tail)
    BY Zenon
  <1>2. PICK n \in 0 .. m : n = Taken(t)
    BY <1>1, TakeIs, RingIs, Zenon
  <1>3. /\ rx_tail' = (rx_tail + n) % RxSize /\ sent' = SubSeq(sent, n + 1, m)
        /\ rx_buf' = rx_buf /\ rx_head' = rx_head
    BY <1>1, <1>2, AvailableIs, RingIs, Zenon DEF Take
  <1>4. sent = Window(rx_buf, rx_tail, m)
    BY <1>0, <1>1, RingIs, Zenon
  <1>5. /\ rx_tail' \in Slots /\ Distance(rx_head, rx_tail') = m - n
        /\ Window(rx_buf, rx_tail', m - n) = sent'
    BY <1>0, <1>1, <1>2, <1>3, <1>4, WindowShrinks, Zenon DEF RingType
  <1>6. AtTail(tty_rx_count)' = Window(rx_buf', rx_tail', Distance(rx_head', rx_tail'))
    BY RingIs, Zenon DEF AtTail, Window
  <1> QED BY <1>0, <1>3, <1>5, <1>6, Zenon DEF RingType

(* The readers.                                                            *)
Pcs == {"idle", "test", "prep", "asleep", "awake", "unlink", "take"}

(* A reader goes on at l.                                                  *)
LEMMA GotoIs ==
    ASSUME rd \in [Readers -> Reader], NEW t \in Readers, NEW l \in Pcs, Goto(t, l)
    PROVE  /\ rd' \in [Readers -> Reader] /\ rd'[t].pc = l /\ rd'[t].queued = rd[t].queued
           /\ rd'[t].count = rd[t].count
           /\ \A u \in Readers : u # t => rd'[u] = rd[u]
  <1>1. rd' = [rd EXCEPT ![t] = [rd[t] EXCEPT !.pc = l]]
    BY Zenon DEF Goto
  <1>2. [rd[t] EXCEPT !.pc = l] \in Reader
    BY Zenon DEF Reader, Pcs
  <1>3. /\ rd'[t] = [rd[t] EXCEPT !.pc = l] /\ rd' \in [Readers -> Reader]
        /\ \A u \in Readers : u # t => rd'[u] = rd[u]
    BY <1>1, <1>2, Zenon
  <1> QED BY <1>3, Zenon DEF Reader

(* wake_up changes nothing but the run-queue state of sleepers.            *)
LEMMA WakeIs ==
    ASSUME rd \in [Readers -> Reader], wake_up
    PROVE  /\ rd' \in [Readers -> Reader]
           /\ \A u \in Readers :
                /\ rd'[u].pc = rd[u].pc /\ rd'[u].count = rd[u].count
                /\ u \in wq /\ rd[u].pc = "asleep" => rd'[u].queued
                /\ ~(u \in wq /\ rd[u].pc = "asleep") => rd'[u] = rd[u]
  <1>1. ASSUME NEW u \in Readers
        PROVE  /\ rd'[u] = IF u \in wq /\ rd[u].pc = "asleep" THEN [rd[u] EXCEPT !.queued = TRUE]
                           ELSE rd[u]
               /\ rd'[u] \in Reader
               /\ rd'[u].pc = rd[u].pc /\ rd'[u].count = rd[u].count
               /\ u \in wq /\ rd[u].pc = "asleep" => rd'[u].queued
               /\ ~(u \in wq /\ rd[u].pc = "asleep") => rd'[u] = rd[u]
    <2>1. rd'[u] = IF u \in wq /\ rd[u].pc = "asleep" THEN [rd[u] EXCEPT !.queued = TRUE]
                   ELSE rd[u]
      BY Zenon DEF wake_up
    <2>2. /\ [rd[u] EXCEPT !.queued = TRUE] \in Reader /\ [rd[u] EXCEPT !.queued = TRUE].queued
          /\ [rd[u] EXCEPT !.queued = TRUE].pc = rd[u].pc
          /\ [rd[u] EXCEPT !.queued = TRUE].count = rd[u].count
      BY Zenon DEF Reader
    <2> QED BY <2>1, <2>2, Zenon
  <1>2. rd' = [u \in Readers |-> rd'[u]]
    BY Zenon DEF wake_up
  <1> QED BY <1>1, <1>2, Zenon

(* What a reader's step does to the reader.                                *)
LEMMA ReadStarts ==
    ASSUME rd \in [Readers -> Reader], NEW t \in Readers, NEW n \in Counts, tty_read(t, n)
    PROVE  /\ rd' \in [Readers -> Reader] /\ rd'[t].pc = "test" /\ rd'[t].queued
           /\ rd'[t].count = n
           /\ \A u \in Readers : u # t => rd'[u] = rd[u]
  <1>1. [pc |-> "test", count |-> n, queued |-> TRUE, got |-> <<>>] \in Reader
    BY DEF Reader
  <1> QED BY <1>1, Zenon DEF tty_read

(* prepare_to_wait puts its task to sleep.                                 *)
LEMMA SleepIs ==
    ASSUME rd \in [Readers -> Reader], NEW t \in Readers, prepare_to_wait(t)
    PROVE  /\ rd' \in [Readers -> Reader] /\ rd'[t].pc = "asleep" /\ rd'[t].count = rd[t].count
           /\ \A u \in Readers : u # t => rd'[u] = rd[u]
  <1>1. [rd[t] EXCEPT !.pc = "asleep", !.queued = FALSE] \in Reader
    BY Zenon DEF Reader
  <1>2. rd' = [rd EXCEPT ![t] = [rd[t] EXCEPT !.pc = "asleep", !.queued = FALSE]]
    BY Zenon DEF prepare_to_wait
  <1>3. /\ [rd[t] EXCEPT !.pc = "asleep", !.queued = FALSE].pc = "asleep"
        /\ [rd[t] EXCEPT !.pc = "asleep", !.queued = FALSE].count = rd[t].count
    BY Zenon DEF Reader
  <1> QED BY <1>1, <1>2, <1>3, Zenon

(* The copy ends the read, with what was taken.                            *)
LEMMA TakeEnds ==
    ASSUME RingContent, NEW t \in Readers, Take(t)
    PROVE  /\ rd' \in [Readers -> Reader] /\ rd'[t].pc = "idle" /\ rd'[t].got = AtTail(Taken(t))
           /\ \A u \in Readers : u # t => rd'[u] = rd[u]
  <1>0. rd \in [Readers -> Reader] /\ rd[t] \in Reader
    BY Zenon DEF RingContent, TypeOK
  <1>1. PICK g \in Seq(Chars) : g = AtTail(Taken(t))
    BY TakeIs, Zenon
  <1>2. rd' = [rd EXCEPT ![t] = [rd[t] EXCEPT !.pc = "idle", !.got = g]]
    BY <1>0, <1>1, Zenon DEF Take
  <1>3. /\ [rd[t] EXCEPT !.pc = "idle", !.got = g] \in Reader
        /\ [rd[t] EXCEPT !.pc = "idle", !.got = g].pc = "idle"
        /\ [rd[t] EXCEPT !.pc = "idle", !.got = g].got = g
    BY <1>0, Zenon DEF Reader, Chars
  <1> QED BY <1>0, <1>1, <1>2, <1>3, Zenon

(* Queue and lock, given what the readers do.                              *)
Linked == wq \subseteq {t \in Readers : rd[t].pc \in {"asleep", "awake", "unlink"}}
Held == wq_lock \in {Nobody} \cup {t \in Readers : rd[t].pc = "unlink"}
Idle ==
    /\ canonical \in BOOLEAN /\ irq \in {"off", "wake"} /\ tcsets \in {"off", "wake"}
    /\ over \in Readers \cup {Nobody}

(* The parts of the type invariant.                                        *)
LEMMA TypeParts ==
    /\ TypeOK <=> RingType /\ rd \in [Readers -> Reader] /\ Linked /\ Held /\ Idle
    /\ TypeOK' <=> RingType' /\ rd' \in [Readers -> Reader] /\ Linked' /\ Held' /\ Idle'
  BY Zenon DEF TypeOK, RingType, Linked, Held, Idle, Slots, Chars

(* The ring stays a ring, on any number of CPUs: the start ...             *)
LEMMA InitContent == Init => RingContent
  <1> SUFFICES ASSUME Init PROVE RingContent
    BY Zenon
  <1>1. RingType
    <2>1. 0 \in Slots
      BY TtyAssumption DEF Slots
    <2> QED BY <2>1, Zenon DEF Init, RingType, Slots, Chars
  <1>2. rd \in [Readers -> Reader]
    <2>1. [pc |-> "idle", count |-> 0, queued |-> TRUE, got |-> <<>>] \in Reader
      BY DEF Reader
    <2> QED BY <2>1, Zenon DEF Init
  <1>3. Linked /\ Held /\ Idle
    BY Zenon DEF Init, Linked, Held, Idle
  <1>4. AtTail(tty_rx_count) = sent
    <2>1. tty_rx_count = 0 /\ sent = <<>>
      BY DEF Init, tty_rx_count
    <2>2. AtTail(0) = <<>>
      BY DEF AtTail
    <2> QED BY <2>1, <2>2, Zenon
  <1> QED BY <1>1, <1>2, <1>3, <1>4, TypeParts, Zenon DEF RingContent

(* ... and every step.                                                     *)
LEMMA StepContent == ASSUME RingContent, [Next]_vars PROVE RingContent'
  <1>0. /\ RingType /\ rd \in [Readers -> Reader] /\ Linked /\ Held /\ Idle
        /\ AtTail(tty_rx_count) = sent
    BY TypeParts, Zenon DEF RingContent
  <1>a. UNCHANGED ring => RingType' /\ AtTail(tty_rx_count)' = sent'
    BY <1>0, Zenon DEF ring, RingType, AtTail, tty_rx_count
  <1>1. ASSUME NEW c \in Chars, tty_receive_char(c) PROVE RingContent'
    <2>1. RingType' /\ AtTail(tty_rx_count)' = sent'
      BY <1>1, AcceptKeeps, Zenon DEF tty_receive_char
    <2>2. rd' = rd /\ Linked' /\ Held'
      BY <1>0, <1>1, Zenon DEF tty_receive_char, Linked, Held
    <2>3. Idle'
      BY <1>0, <1>1, Zenon DEF tty_receive_char, Idle, Busy
    <2> QED BY <1>0, <2>1, <2>2, <2>3, TypeParts, Zenon DEF RingContent
  <1>2. CASE tty_wake_reader
    <2>1. rd' \in [Readers -> Reader] /\ \A u \in Readers : rd'[u].pc = rd[u].pc
      BY <1>0, <1>2, WakeIs, Zenon DEF tty_wake_reader
    <2>2. Linked' /\ Held' /\ Idle'
      BY <1>0, <1>2, <2>1, Zenon DEF tty_wake_reader, Linked, Held, Idle
    <2> QED BY <1>2, <1>a, <2>1, <2>2, TypeParts, Zenon DEF RingContent, tty_wake_reader
  <1>3. CASE TermiosWake
    <2>1. rd' \in [Readers -> Reader] /\ \A u \in Readers : rd'[u].pc = rd[u].pc
      BY <1>0, <1>3, WakeIs, Zenon DEF TermiosWake
    <2>2. Linked' /\ Held' /\ Idle'
      BY <1>0, <1>3, <2>1, Zenon DEF TermiosWake, Linked, Held, Idle
    <2> QED BY <1>3, <1>a, <2>1, <2>2, TypeParts, Zenon DEF RingContent, TermiosWake
  <1>4. ASSUME NEW m \in Modes, tty_apply_termios(m) PROVE RingContent'
    <2>1. Linked' /\ Held' /\ rd' = rd
      BY <1>0, <1>4, Zenon DEF tty_apply_termios, Linked, Held
    <2>2. Idle'
      BY <1>0, <1>4, TtyAssumption, Zenon DEF tty_apply_termios, Idle
    <2> QED BY <1>0, <1>4, <1>a, <2>1, <2>2, TypeParts, Zenon DEF RingContent, tty_apply_termios
  <1>5. ASSUME NEW t \in Readers, NEW n \in Counts, tty_read(t, n) PROVE RingContent'
    <2>1. /\ rd' \in [Readers -> Reader] /\ rd[t].pc = "idle"
          /\ \A u \in Readers : u # t => rd'[u] = rd[u]
      BY <1>0, <1>5, ReadStarts, Zenon DEF tty_read, At
    <2>2. Linked' /\ Held' /\ Idle'
      BY <1>0, <1>5, <2>1, Zenon DEF tty_read, Linked, Held, Idle
    <2> QED BY <1>5, <1>a, <2>1, <2>2, TypeParts, Zenon DEF RingContent, tty_read
  <1>6. ASSUME NEW t \in Readers, Test(t) \/ Resume(t) \/ LockQueue(t) \/ remove_wait_queue(t)
        PROVE  RingContent'
    <2>1. PICK l \in Pcs : Goto(t, l)
      BY <1>6, Zenon DEF Test, Resume, LockQueue, remove_wait_queue, Pcs
    <2>2. /\ rd' \in [Readers -> Reader] /\ rd'[t].pc = l
          /\ \A u \in Readers : u # t => rd'[u] = rd[u]
      BY <1>0, <2>1, GotoIs, Zenon
    <2>3. UNCHANGED ring /\ UNCHANGED <<canonical, irq, over, tcsets>>
      BY <1>6, Zenon DEF Test, Resume, LockQueue, remove_wait_queue
    <2>4. CASE Test(t)
      BY <1>0, <1>a, <2>2, <2>3, <2>4, TypeParts, Zenon
         DEF Test, At, Linked, Held, Idle, RingContent
    <2>5. CASE Resume(t)
      <3>1. l = "awake" /\ rd[t].pc = "asleep" /\ wq' = wq /\ wq_lock' = wq_lock
        BY <1>0, <2>2, <2>5, GotoIs, Zenon DEF Resume, At, Pcs
      <3> QED BY <1>0, <1>a, <2>2, <2>3, <3>1, TypeParts, Zenon DEF Linked, Held, Idle, RingContent
    <2>6. CASE LockQueue(t)
      <3>1. l = "unlink" /\ rd[t].pc = "awake" /\ wq' = wq /\ wq_lock' = t
        BY <1>0, <2>2, <2>6, GotoIs, Zenon DEF LockQueue, At, Pcs
      <3> QED BY <1>0, <1>a, <2>2, <2>3, <3>1, TypeParts, Zenon DEF Linked, Held, Idle, RingContent
    <2>7. CASE remove_wait_queue(t)
      <3>1. wq' = wq \ {t} /\ wq_lock' = Nobody
        BY <2>7, Zenon DEF remove_wait_queue
      <3> QED BY <1>0, <1>a, <2>2, <2>3, <3>1, TypeParts, Zenon DEF Linked, Held, Idle, RingContent
    <2> QED BY <1>6, <2>4, <2>5, <2>6, <2>7, Zenon
  <1>7. ASSUME NEW t \in Readers, prepare_to_wait(t) PROVE RingContent'
    <2>1. /\ rd' \in [Readers -> Reader] /\ rd'[t].pc = "asleep" /\ rd[t].pc = "prep"
          /\ \A u \in Readers : u # t => rd'[u] = rd[u]
      BY <1>0, <1>7, SleepIs, Zenon DEF prepare_to_wait, At
    <2>2. wq' = wq \cup {t} /\ UNCHANGED <<ring, canonical, wq_lock, irq, over, tcsets>>
      BY <1>7, Zenon DEF prepare_to_wait
    <2>3. Linked' /\ Held' /\ Idle'
      BY <1>0, <2>1, <2>2, Zenon DEF Linked, Held, Idle
    <2> QED BY <1>a, <2>1, <2>2, <2>3, TypeParts, Zenon DEF RingContent
  <1>8. ASSUME NEW t \in Readers, Take(t) PROVE RingContent'
    <2>1. /\ rd' \in [Readers -> Reader] /\ rd[t].pc = "take"
          /\ \A u \in Readers : u # t => rd'[u] = rd[u]
      BY <1>8, TakeEnds, Zenon DEF Take, At
    <2>2. Linked' /\ Held' /\ Idle'
      BY <1>0, <1>8, <2>1, Zenon DEF Take, Linked, Held, Idle
    <2> QED BY <1>8, <2>1, <2>2, TakeKeeps, TypeParts, Zenon DEF RingContent
  <1>9. CASE UNCHANGED vars
    BY <1>0, <1>9, TypeParts, Zenon
       DEF vars, RingContent, RingType, Linked, Held, Idle, AtTail, tty_rx_count
  <1> QED BY <1>1, <1>2, <1>3, <1>4, <1>5, <1>6, <1>7, <1>8, <1>9, Zenon DEF Next, Chars

----------------------------------------------------------------------------
(***************************************************************************)
(* One CPU.                                                                *)
(***************************************************************************)
FS == INSTANCE FiniteSetTheorems

(* The library counts what this module counts.                             *)
LEMMA SameSets ==
    ASSUME NEW S
    PROVE  (FS!IsFiniteSet(S) <=> IsFiniteSet(S)) /\ FS!Cardinality(S) = Cardinality(S)
  <1>1. FS!IsFiniteSet(S) <=> IsFiniteSet(S)
    BY Zenon DEF FS!IsFiniteSet, IsFiniteSet
  <1>2. FS!Cardinality(S) = Cardinality(S)
    BY Zenon DEF FS!Cardinality, Cardinality
  <1> QED BY <1>1, <1>2, Zenon

(* The CPU is free for a task only if nothing else is on it.               *)
LEMMA OnlyCpu ==
    ASSUME NCpus = 1, NEW T \in SUBSET Readers, CpuBeside(T), Idle
    PROVE  T = {} /\ tcsets = "off" /\ ~(irq = "wake" /\ over = Nobody)
  <1>1. Cardinality(T) \in Nat /\ (Cardinality(T) = 0 <=> T = {})
    <2>1. FS!IsFiniteSet(T)
      BY TtyAssumption, SameSets, FS!FS_Subset, Zenon
    <2> QED BY <2>1, SameSets, FS!FS_CardinalityType, FS!FS_EmptySet, Zenon
  <1>2. Cardinality(T) = 0 /\ tcsets # "wake" /\ ~(irq = "wake" /\ over = Nobody)
    BY <1>1 DEF CpuBeside
  <1> QED BY <1>1, <1>2, Zenon DEF Idle

(* So a task about to be given the CPU, or to enter the kernel, ...        *)
LEMMA FreeCpu ==
    ASSUME NCpus = 1, Idle, OneAtATime, CpuBeside(Busy)
    PROVE  Busy = {} /\ tcsets = "off" /\ irq = "off" /\ over = Nobody
  <1>1. Busy \in SUBSET Readers
    BY Zenon DEF Busy
  <1>2. Busy = {} /\ tcsets = "off" /\ ~(irq = "wake" /\ over = Nobody)
    BY <1>1, OnlyCpu, Zenon
  <1> QED BY <1>2, Zenon DEF OneAtATime, Idle

(* ... and a reader that takes a step, are alone.                          *)
LEMMA ReaderAlone ==
    ASSUME NCpus = 1, Idle, OneAtATime, NEW t \in Readers, HasCpu(t)
    PROVE  /\ \A u \in Readers : u # t => ~InKernel(u)
           /\ tcsets = "off" /\ irq = "off" /\ over = Nobody
  <1>1. Busy \ {t} \in SUBSET Readers /\ CpuBeside(Busy \ {t}) /\ t # over
    BY Zenon DEF Busy, HasCpu
  <1>2. Busy \ {t} = {} /\ tcsets = "off" /\ ~(irq = "wake" /\ over = Nobody)
    BY <1>1, OnlyCpu, Zenon
  <1>3. over = Nobody
    BY <1>1, <1>2, Zenon DEF OneAtATime
  <1> QED BY <1>2, <1>3, Zenon DEF Busy, Idle

(* What is readable depends on the ring and the mode.                      *)
LEMMA SameReady ==
    ASSUME RingContent, RingContent', UNCHANGED ring, UNCHANGED canonical
    PROVE  tty_read_ready' <=> tty_read_ready
  BY AvailableIs, AvailableNext, Zenon DEF ring, tty_read_ready

(* One CPU does one thing at a time after a step of reader t, ...          *)
LEMMA StepAlone ==
    ASSUME NCpus = 1, Idle, OneAtATime, NEW t \in Readers, HasCpu(t),
           \A u \in Readers : u # t => rd'[u] = rd[u], UNCHANGED <<irq, over, tcsets>>
    PROVE  OneAtATime'
  <1>1. /\ \A u \in Readers : u # t => ~InKernel(u)
        /\ tcsets = "off" /\ irq = "off" /\ over = Nobody
    BY ReaderAlone, Zenon
  <1>2. \A u \in Readers : u # t => ~InKernel(u)'
    BY <1>1, Zenon DEF InKernel
  <1> QED BY <1>1, <1>2, Zenon DEF OneAtATime, Busy

(* ... and what the others found out is still true, if the step leaves the *)
(* ring alone and moves no queue entry but its own.                        *)
LEMMA StepOthers ==
    ASSUME NEW t \in Readers, \A u \in Readers : u # t => rd'[u] = rd[u],
           \A u \in Readers : StillTrue(u), \A u \in wq : u # t => u \in wq',
           RingContent, RingContent',
           UNCHANGED ring, UNCHANGED canonical, UNCHANGED <<irq, over, tcsets>>
    PROVE  \A u \in Readers : u # t => StillTrue(u)'
  BY SameReady, Zenon DEF StillTrue

(* A reader's copy empties the ring only of what no sleeper waits for.     *)
LEMMA TakeOthers ==
    ASSUME NCpus = 1, OneCpuInv, NEW t \in Readers, Take(t)
    PROVE  \A u \in Readers : StillTrue(u)'
  <1>1. /\ rd' \in [Readers -> Reader] /\ rd'[t].pc = "idle"
        /\ \A u \in Readers : u # t => rd'[u] = rd[u]
    BY TakeEnds, Zenon DEF OneCpuInv
  <1>2. rd[t].pc = "take" /\ HasCpu(t) /\ Idle
    BY TypeParts, Zenon DEF OneCpuInv, RingContent, Take, At
  <1>3. /\ \A u \in Readers : u # t => ~InKernel(u)
        /\ tcsets = "off" /\ irq = "off"
    BY <1>2, ReaderAlone, Zenon DEF OneCpuInv
  <1>4. tty_read_ready
    BY <1>2, Zenon DEF OneCpuInv, StillTrue
  <1>5. ASSUME NEW u \in Readers, u # t PROVE StillTrue(u)'
    <2>1. ~(rd[u].pc = "asleep" /\ ~rd[u].queued)
      BY <1>3, <1>4, Zenon DEF OneCpuInv, StillTrue
    <2>2. rd'[u] = rd[u] /\ rd[u].pc # "prep" /\ rd[u].pc # "take"
      BY <1>1, <1>3, <1>5, Zenon DEF InKernel
    <2> QED BY <2>1, <2>2, Zenon DEF StillTrue
  <1>6. StillTrue(t)'
    BY <1>1, Zenon DEF StillTrue
  <1> QED BY <1>5, <1>6, Zenon

(* The handler adds a character, on a free CPU or on top of a reader that  *)
(* neither tests the condition nor queues.                                 *)
LEMMA ReceiveKeeps ==
    ASSUME NCpus = 1, OneCpuInv, RingContent', NEW c \in Chars, tty_receive_char(c)
    PROVE  OneAtATime' /\ \A u \in Readers : StillTrue(u)'
  <1>0. /\ Idle /\ RingContent /\ OneAtATime /\ irq = "off" /\ over = Nobody
        /\ canonical \in BOOLEAN /\ sent \in Seq(Chars)
    BY TypeParts, AvailableIs, Zenon DEF OneCpuInv, OneAtATime, RingContent, tty_receive_char, Idle
  <1>1. irq' = "wake" /\ rd' = rd /\ wq' = wq /\ tcsets' = tcsets /\ canonical' = canonical
    BY Zenon DEF tty_receive_char
  <1>2. tty_read_ready => tty_read_ready'
    <2>1. sent' \in {sent, Append(sent, c)}
      BY <1>0, AcceptKeeps, Zenon DEF tty_receive_char
    <2>2. tty_read_ready <=> Readable(canonical, sent) > 0
      BY <1>0, AvailableIs, Zenon DEF tty_read_ready
    <2>3. tty_read_ready' <=> Readable(canonical, sent') > 0
      BY <1>1, AvailableNext, Zenon DEF tty_read_ready
    <2> QED BY <1>0, <2>1, <2>2, <2>3, ReadableGrows, Zenon
  <1>3. Busy' = Busy /\ \A u \in Readers : IrqsOn(u)' <=> IrqsOn(u)
    BY <1>1, Zenon DEF Busy, InKernel, IrqsOn
  <1>4. CASE CpuBeside(Busy) /\ over' = Nobody
    <2>1. Busy = {} /\ tcsets = "off"
      BY <1>0, <1>4, FreeCpu, Zenon
    <2>2. OneAtATime'
      BY <1>1, <1>3, <1>4, <2>1, Zenon DEF OneAtATime
    <2>3. ASSUME NEW u \in Readers PROVE StillTrue(u)'
      <3>1. rd[u].pc # "prep" /\ rd[u].pc # "take"
        BY <2>1, Zenon DEF Busy, InKernel
      <3> QED BY <1>1, <3>1, Zenon DEF StillTrue, OneCpuInv
    <2> QED BY <2>2, <2>3, Zenon
  <1>5. ASSUME NEW t \in Busy, IrqsOn(t), over' = t PROVE OneAtATime' /\ \A u \in Readers : StillTrue(u)'
    <2>0. t \in Readers /\ t # Nobody
      BY ReadersAreIds, Zenon DEF Busy, Nobody
    <2>1. tcsets = "off"
      BY <1>0, Zenon DEF OneAtATime, Idle
    <2>2. OneAtATime'
      <3>1. IrqsOn(t)'
        BY <1>3, <1>5, <2>0, Zenon
      <3>2. IrqsOn(over)'
        BY <1>5, <3>1, Zenon DEF IrqsOn
      <3> QED BY <1>0, <1>1, <1>3, <1>5, <2>0, <2>1, <3>2, Zenon DEF OneAtATime
    <2>3. ASSUME NEW u \in Readers PROVE StillTrue(u)'
      <3>1. rd[u].pc # "prep"
        BY <1>0, <1>5, Zenon DEF OneAtATime, Busy, InKernel, IrqsOn
      <3> QED BY <1>1, <1>2, <3>1, Zenon DEF StillTrue, OneCpuInv
    <2> QED BY <2>2, <2>3, Zenon
  <1> QED BY <1>4, <1>5, Zenon DEF tty_receive_char

(* wake_up leaves no sleeper off the run queues.                           *)
LEMMA WakeKeeps ==
    ASSUME OneCpuInv, RingContent', wake_up, UNCHANGED ring, UNCHANGED canonical
    PROVE  /\ \A u \in Readers : StillTrue(u)'
           /\ Busy' = Busy /\ \A u \in Readers : IrqsOn(u)' <=> IrqsOn(u)
  <1>1. \A u \in Readers :
          /\ rd'[u].pc = rd[u].pc
          /\ u \in wq /\ rd[u].pc = "asleep" => rd'[u].queued
          /\ ~(u \in wq /\ rd[u].pc = "asleep") => rd'[u] = rd[u]
    BY TypeParts, WakeIs, Zenon DEF OneCpuInv, RingContent
  <1>2. tty_read_ready' <=> tty_read_ready
    BY SameReady, Zenon DEF OneCpuInv
  <1>3. ASSUME NEW u \in Readers PROVE StillTrue(u)'
    <2>1. ~(rd'[u].pc = "asleep" /\ ~rd'[u].queued)
      BY <1>1, Zenon DEF OneCpuInv, StillTrue
    <2> QED BY <1>1, <1>2, <2>1, Zenon DEF OneCpuInv, StillTrue
  <1>4. Busy' = Busy /\ \A u \in Readers : IrqsOn(u)' <=> IrqsOn(u)
    BY <1>1, Zenon DEF Busy, InKernel, IrqsOn
  <1> QED BY <1>3, <1>4, Zenon

(* On one CPU the invariant holds at the start ...                         *)
LEMMA InitOneCpu == Init => OneCpuInv
  <1> SUFFICES ASSUME Init PROVE OneCpuInv
    BY Zenon
  <1>1. \A t \in Readers : rd[t].pc = "idle"
    BY Zenon DEF Init
  <1>2. Busy = {}
    BY <1>1, Zenon DEF Busy, InKernel
  <1>3. OneAtATime
    BY <1>2, Zenon DEF Init, OneAtATime
  <1>4. \A t \in Readers : StillTrue(t)
    BY <1>1, Zenon DEF StillTrue
  <1> QED BY <1>3, <1>4, InitContent, Zenon DEF OneCpuInv

(* ... and after every step.                                               *)
LEMMA StepOneCpu == ASSUME NCpus = 1, OneCpuInv, [Next]_vars PROVE OneCpuInv'
  <1>0. RingContent /\ RingContent' /\ OneAtATime /\ \A u \in Readers : StillTrue(u)
    BY StepContent, Zenon DEF OneCpuInv
  <1>a. Idle /\ rd \in [Readers -> Reader]
    BY <1>0, TypeParts, Zenon DEF RingContent
  <1> SUFFICES OneAtATime' /\ \A u \in Readers : StillTrue(u)'
    BY <1>0, Zenon DEF OneCpuInv
  <1>1. ASSUME NEW c \in Chars, tty_receive_char(c)
        PROVE  OneAtATime' /\ \A u \in Readers : StillTrue(u)'
    BY <1>0, <1>1, ReceiveKeeps, Zenon
  <1>2. CASE tty_wake_reader
    <2>1. Busy' = Busy /\ \A u \in Readers : StillTrue(u)'
      BY <1>0, <1>2, WakeKeeps, Zenon DEF tty_wake_reader
    <2>2. OneAtATime'
      BY <1>0, <1>2, <2>1, Zenon DEF tty_wake_reader, OneAtATime
    <2> QED BY <2>1, <2>2, Zenon
  <1>3. CASE TermiosWake
    <2>1. Busy' = Busy /\ \A u \in Readers : StillTrue(u)'
      BY <1>0, <1>3, WakeKeeps, Zenon DEF TermiosWake
    <2>2. irq = "off" /\ over = Nobody
      BY <1>0, <1>3, Zenon DEF TermiosWake, OneAtATime
    <2>3. OneAtATime'
      BY <1>0, <1>3, <2>1, <2>2, Zenon DEF TermiosWake, OneAtATime
    <2> QED BY <2>1, <2>3, Zenon
  <1>4. ASSUME NEW m \in Modes, tty_apply_termios(m)
        PROVE  OneAtATime' /\ \A u \in Readers : StillTrue(u)'
    <2>1. Busy = {} /\ irq = "off" /\ over = Nobody
      BY <1>0, <1>a, <1>4, FreeCpu, Zenon DEF tty_apply_termios
    <2>2. rd' = rd /\ wq' = wq /\ irq' = irq /\ over' = over /\ tcsets' = "wake"
      BY <1>4, Zenon DEF tty_apply_termios
    <2>3. Busy' = {}
      BY <2>1, <2>2, Zenon DEF Busy, InKernel
    <2>4. OneAtATime'
      BY <2>1, <2>2, <2>3, Zenon DEF OneAtATime
    <2>5. ASSUME NEW u \in Readers PROVE StillTrue(u)'
      <3>1. rd[u].pc # "prep" /\ rd[u].pc # "take"
        BY <2>1, Zenon DEF Busy, InKernel
      <3> QED BY <1>0, <2>2, <3>1, Zenon DEF StillTrue
    <2> QED BY <2>4, <2>5, Zenon
  <1>5. ASSUME NEW t \in Readers, NEW n \in Counts, tty_read(t, n)
        PROVE  OneAtATime' /\ \A u \in Readers : StillTrue(u)'
    <2>1. rd'[t].pc = "test" /\ \A u \in Readers : u # t => rd'[u] = rd[u]
      BY <1>a, <1>5, ReadStarts, Zenon
    <2>2. HasCpu(t) /\ UNCHANGED <<ring, canonical, wq, irq, over, tcsets>>
      BY <1>5, Zenon DEF tty_read, At
    <2>3. OneAtATime'
      BY <1>0, <1>a, <2>1, <2>2, StepAlone, Zenon
    <2>4. \A u \in Readers : u # t => StillTrue(u)'
      BY <1>0, <2>1, <2>2, StepOthers, Zenon
    <2> QED BY <2>1, <2>3, <2>4, Zenon DEF StillTrue
  <1>6. ASSUME NEW t \in Readers, Test(t)
        PROVE  OneAtATime' /\ \A u \in Readers : StillTrue(u)'
    <2>0. PICK l \in Pcs : Goto(t, l) /\ l = IF tty_read_ready THEN "take" ELSE "prep"
      BY <1>6, Zenon DEF Test, Pcs
    <2>1. rd'[t].pc = l /\ \A u \in Readers : u # t => rd'[u] = rd[u]
      BY <1>a, <2>0, GotoIs, Zenon
    <2>2. HasCpu(t) /\ UNCHANGED <<ring, canonical, wq, irq, over, tcsets>>
      BY <1>6, Zenon DEF Test, At
    <2>3. OneAtATime'
      BY <1>0, <1>a, <2>1, <2>2, StepAlone, Zenon
    <2>4. \A u \in Readers : u # t => StillTrue(u)'
      BY <1>0, <2>1, <2>2, StepOthers, Zenon
    <2>5. tty_read_ready' <=> tty_read_ready
      BY <1>0, <2>2, SameReady, Zenon
    <2>6. StillTrue(t)'
      BY <2>0, <2>1, <2>5, Zenon DEF StillTrue
    <2> QED BY <2>3, <2>4, <2>6, Zenon
  <1>7. ASSUME NEW t \in Readers, prepare_to_wait(t)
        PROVE  OneAtATime' /\ \A u \in Readers : StillTrue(u)'
    <2>1. rd'[t].pc = "asleep" /\ \A u \in Readers : u # t => rd'[u] = rd[u]
      BY <1>a, <1>7, SleepIs, Zenon
    <2>2. /\ HasCpu(t) /\ UNCHANGED <<ring, canonical, irq, over, tcsets>>
          /\ rd[t].pc = "prep" /\ wq' = wq \cup {t}
      BY <1>7, Zenon DEF prepare_to_wait, At
    <2>3. OneAtATime'
      BY <1>0, <1>a, <2>1, <2>2, StepAlone, Zenon
    <2>4. \A u \in Readers : u # t => StillTrue(u)'
      BY <1>0, <2>1, <2>2, StepOthers, Zenon
    <2>5. ~tty_read_ready'
      BY <1>0, <2>2, SameReady, Zenon DEF StillTrue
    <2>6. StillTrue(t)'
      BY <2>1, <2>2, <2>5, Zenon DEF StillTrue
    <2> QED BY <2>3, <2>4, <2>6, Zenon
  <1>8. ASSUME NEW t \in Readers, Resume(t) \/ LockQueue(t) \/ remove_wait_queue(t)
        PROVE  OneAtATime' /\ \A u \in Readers : StillTrue(u)'
    <2>0. PICK l \in Pcs : Goto(t, l) /\ l \in {"awake", "unlink", "test"}
      BY <1>8, Zenon DEF Resume, LockQueue, remove_wait_queue, Pcs
    <2>1. rd'[t].pc = l /\ \A u \in Readers : u # t => rd'[u] = rd[u]
      BY <1>a, <2>0, GotoIs, Zenon
    <2>2. /\ HasCpu(t) /\ UNCHANGED <<ring, canonical, irq, over, tcsets>>
          /\ \A u \in wq : u # t => u \in wq'
      BY <1>8, Zenon DEF Resume, LockQueue, remove_wait_queue, At
    <2>3. OneAtATime'
      BY <1>0, <1>a, <2>1, <2>2, StepAlone, Zenon
    <2>4. \A u \in Readers : u # t => StillTrue(u)'
      BY <1>0, <2>1, <2>2, StepOthers, Zenon
    <2> QED BY <2>0, <2>1, <2>3, <2>4, Zenon DEF StillTrue
  <1>9. ASSUME NEW t \in Readers, Take(t)
        PROVE  OneAtATime' /\ \A u \in Readers : StillTrue(u)'
    <2>1. \A u \in Readers : u # t => rd'[u] = rd[u]
      BY <1>0, <1>9, TakeEnds, Zenon
    <2>2. HasCpu(t) /\ UNCHANGED <<irq, over, tcsets>>
      BY <1>9, Zenon DEF Take, At
    <2>3. OneAtATime'
      BY <1>0, <1>a, <2>1, <2>2, StepAlone, Zenon
    <2> QED BY <1>9, <2>3, TakeOthers, Zenon
  <1>10. CASE UNCHANGED vars
    <2>1. tty_read_ready' <=> tty_read_ready
      BY <1>0, <1>10, SameReady, Zenon DEF vars, ring
    <2>2. rd' = rd /\ wq' = wq /\ irq' = irq /\ over' = over /\ tcsets' = tcsets
      BY <1>10, Zenon DEF vars
    <2>3. \A u \in Readers : StillTrue(u)'
      BY <1>0, <2>1, <2>2, Zenon DEF StillTrue
    <2>4. OneAtATime'
      BY <1>0, <2>2, Zenon DEF OneAtATime, Busy, InKernel, IrqsOn
    <2> QED BY <2>3, <2>4, Zenon
  <1> QED BY <1>1, <1>2, <1>3, <1>4, <1>5, <1>6, <1>7, <1>8, <1>9, <1>10, Zenon DEF Next, Chars

----------------------------------------------------------------------------
(***************************************************************************)
(* What a read returns.                                                    *)
(***************************************************************************)
(* A read under way asks for at least one character.                       *)
Asked == \A t \in Readers : rd[t].pc # "idle" => rd[t].count \in Counts

(* A read begins with a count, keeps it, and ends with the copy.           *)
LEMMA ReaderMoves ==
    ASSUME RingContent, [Next]_vars, NEW u \in Readers
    PROVE  \/ Take(u) /\ rd'[u].pc = "idle"
           \/ rd'[u].pc # "idle" /\ rd'[u].count \in Counts
           \/ (rd'[u].pc = "idle" <=> rd[u].pc = "idle") /\ rd'[u].count = rd[u].count
  <1> DEFINE Same == (rd'[u].pc = "idle" <=> rd[u].pc = "idle") /\ rd'[u].count = rd[u].count
  <1>0. rd \in [Readers -> Reader]
    BY TypeParts, Zenon DEF RingContent
  <1>1. ASSUME NEW c \in Chars, tty_receive_char(c) PROVE Same
    BY <1>1, Zenon DEF tty_receive_char
  <1>2. CASE tty_wake_reader \/ TermiosWake
    <2>1. wake_up
      BY <1>2, Zenon DEF tty_wake_reader, TermiosWake
    <2> QED BY <1>0, <2>1, WakeIs, Zenon
  <1>3. ASSUME NEW m \in Modes, tty_apply_termios(m) PROVE Same
    BY <1>3, Zenon DEF tty_apply_termios
  <1>4. ASSUME NEW t \in Readers, NEW n \in Counts, tty_read(t, n)
        PROVE  Same \/ (rd'[u].pc # "idle" /\ rd'[u].count \in Counts)
    <2>1. /\ rd'[t].pc = "test" /\ rd'[t].count = n
          /\ \A v \in Readers : v # t => rd'[v] = rd[v]
      BY <1>0, <1>4, ReadStarts, Zenon
    <2>2. CASE u = t
      BY <2>1, <2>2, Zenon
    <2>3. CASE u # t
      BY <2>1, <2>3, Zenon
    <2> QED BY <2>2, <2>3, Zenon
  <1>5. ASSUME NEW t \in Readers, Test(t) \/ Resume(t) \/ LockQueue(t) \/ remove_wait_queue(t)
        PROVE  Same
    <2>1. PICK l \in Pcs : Goto(t, l) /\ l # "idle"
      BY <1>5, Zenon DEF Test, Resume, LockQueue, remove_wait_queue, Pcs
    <2>2. /\ rd'[t].pc = l /\ rd'[t].count = rd[t].count
          /\ \A v \in Readers : v # t => rd'[v] = rd[v]
      BY <1>0, <2>1, GotoIs, Zenon
    <2>3. rd[t].pc # "idle"
      BY <1>5, Zenon DEF Test, Resume, LockQueue, remove_wait_queue, At
    <2> QED BY <2>1, <2>2, <2>3, Zenon
  <1>6. ASSUME NEW t \in Readers, prepare_to_wait(t) PROVE Same
    <2>1. /\ rd'[t].pc = "asleep" /\ rd'[t].count = rd[t].count
          /\ \A v \in Readers : v # t => rd'[v] = rd[v]
      BY <1>0, <1>6, SleepIs, Zenon
    <2>2. rd[t].pc = "prep"
      BY <1>6, Zenon DEF prepare_to_wait, At
    <2> QED BY <2>1, <2>2, Zenon
  <1>7. ASSUME NEW t \in Readers, Take(t) PROVE Same \/ (Take(u) /\ rd'[u].pc = "idle")
    <2>1. rd'[t].pc = "idle" /\ \A v \in Readers : v # t => rd'[v] = rd[v]
      BY <1>7, TakeEnds, Zenon
    <2> QED BY <1>7, <2>1, Zenon
  <1>8. CASE UNCHANGED vars
    BY <1>8, Zenon DEF vars
  <1> QED BY <1>1, <1>2, <1>3, <1>4, <1>5, <1>6, <1>7, <1>8, Zenon DEF Next, Chars

(* So the count stays.                                                     *)
LEMMA StepAsked == ASSUME RingContent, Asked, [Next]_vars PROVE Asked'
  <1>1. ASSUME NEW u \in Readers, rd'[u].pc # "idle" PROVE rd'[u].count \in Counts
    BY <1>1, ReaderMoves, Zenon DEF Asked
  <1> QED BY <1>1, Zenon DEF Asked

(* A copy of what is readable is not empty, and at most a line.            *)
LEMMA TakeReads ==
    ASSUME RingContent, NEW t \in Readers, rd[t].count \in Counts, tty_read_ready, Take(t)
    PROVE  rd'[t].got # <<>> /\ (canonical => OneLine(rd'[t].got, rd[t].count))
  <1> DEFINE n == Taken(t)
             g == rd'[t].got
  <1>0. /\ sent \in Seq(Chars) /\ Len(sent) = tty_rx_count /\ canonical \in BOOLEAN
        /\ Available = Readable(canonical, sent) /\ rd[t].count \in Nat \ {0}
    BY AvailableIs, TtyAssumption, Zenon DEF RingContent, TypeOK
  <1>1. /\ g \in Seq(Chars) /\ Len(g) = n /\ \A i \in 1 .. n : g[i] = sent[i]
        /\ n \in Nat /\ n <= Available /\ (n < rd[t].count => n = Available)
    BY TakeIs, TakeEnds, Zenon
  <1>2. n > 0 /\ Available > 0
    <2>1. rd[t].count > 0
      BY <1>0
    <2> QED BY <2>1, TakeIs, Zenon DEF tty_read_ready
  <1>3. g # <<>>
    BY <1>1, <1>2
  <1>4. ASSUME canonical PROVE OneLine(g, rd[t].count)
    <2>1. Available = LineLength(sent)
      BY <1>0, <1>4, Zenon DEF Readable
    <2>2. /\ LineLength(sent) \in Nat /\ Ends(sent) # {}
          /\ \A i \in 1 .. LineLength(sent) - 1 : sent[i] # "nl"
      <3>1. Ends(sent) # {}
        BY <1>0, <1>2, <1>4, ReadableIs, Zenon
      <3>2. LineLength(sent) \in 0 .. Len(sent)
        BY <1>0, LineLengthIs, Zenon
      <3>3. LineLength(sent) \in Nat
        BY <1>0, <3>2
      <3> QED BY <1>0, <3>1, <3>3, LineLengthIs, Zenon
    <2>3. \A i \in 1 .. n - 1 : g[i] # "nl"
      <3>1. \A i \in 1 .. n - 1 : i \in 1 .. n /\ i \in 1 .. LineLength(sent) - 1
        BY <1>1, <2>1, <2>2
      <3> QED BY <1>1, <2>2, <3>1, Zenon
    <2>4. n < rd[t].count => g[n] = "nl"
      <3>1. sent[LineLength(sent)] = "nl"
        BY <1>0, <2>2, LineLengthIs, Zenon DEF Ends
      <3>2. n \in 1 .. n
        BY <1>1, <1>2
      <3> QED BY <1>1, <2>1, <3>1, <3>2, Zenon
    <2> QED BY <1>1, <2>3, <2>4, Zenon DEF OneLine
  <1> QED BY <1>3, <1>4, Zenon

----------------------------------------------------------------------------
(***************************************************************************)
(* The theorems.                                                           *)
(***************************************************************************)
(* On any number of CPUs the ring holds exactly the characters accepted    *)
(* and not yet read, in order, and a reader's queue entry is off the queue *)
(* when its read returns (tty_receive_char, tty_read).                     *)
THEOREM RingKept == Spec => []RingContent
  BY InitContent, StepContent, PTL DEF Spec

(* On one CPU no reader sleeps beside input it could read, once the        *)
(* handler or the TCSETS has done its wake-up: wait_event_interruptible's  *)
(* test and its queueing are one step to the interrupt.                    *)
THEOREM InputNotLost == ASSUME NCpus = 1 PROVE Spec => []NoLostInput
  <1>1. OneCpuInv => NoLostInput
    BY Zenon DEF OneCpuInv, StillTrue, NoLostInput
  <1>2. OneCpuInv /\ [Next]_vars => OneCpuInv'
    BY StepOneCpu, Zenon
  <1> QED BY <1>1, <1>2, InitOneCpu, PTL DEF Spec

(* On one CPU a read never returns 0 characters, whatever the other        *)
(* readers do, and in canonical mode at most one line (tty_read).          *)
THEOREM LinesRead == ASSUME NCpus = 1 PROVE Spec => LineRead
  <1> DEFINE Inv == OneCpuInv /\ Asked
             Reads == \A t \in Readers : rd[t].pc = "take" /\ rd'[t].pc = "idle" =>
                        rd'[t].got # <<>> /\ (canonical => OneLine(rd'[t].got, rd[t].count))
  <1>1. Init => Inv
    <2>1. ASSUME Init, NEW t \in Readers PROVE rd[t].pc = "idle"
      BY <2>1, Zenon DEF Init
    <2> QED BY <2>1, InitOneCpu, Zenon DEF Asked
  <1>2. Inv /\ [Next]_vars => Inv'
    BY StepOneCpu, StepAsked, Zenon DEF OneCpuInv
  <1>3. Inv /\ [Next]_vars => Reads
    <2> SUFFICES ASSUME Inv, [Next]_vars, NEW t \in Readers, rd[t].pc = "take", rd'[t].pc = "idle"
                 PROVE  rd'[t].got # <<>> /\ (canonical => OneLine(rd'[t].got, rd[t].count))
      BY Zenon
    <2>1. RingContent /\ Take(t)
      BY ReaderMoves, Zenon DEF OneCpuInv
    <2>2. rd[t].count \in Counts /\ tty_read_ready
      BY Zenon DEF Asked, OneCpuInv, StillTrue
    <2> QED BY <2>1, <2>2, TakeReads, Zenon
  <1> QED BY <1>1, <1>2, <1>3, PTL DEF Spec, LineRead
=============================================================================
