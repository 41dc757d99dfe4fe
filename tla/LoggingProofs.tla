---------------------------- MODULE LoggingProofs ----------------------------
(***************************************************************************)
(* What Logging promises of the buffer, the callbacks and the order of the *)
(* messages, for any number of threads, connections and messages and any   *)
(* sizes.                                                                  *)
(*                                                                         *)
(* The messages in the buffer are the last ones logged, without a gap; the *)
(* calls under way, under m_cs, are of one message to different callbacks  *)
(* or of the buffered messages to the one callback; and the list of        *)
(* callbacks changes only by who holds cs_main and m_cs.                   *)
(***************************************************************************)
EXTENDS Logging, FiniteSetFacts, TLAPS

Line == [msg : Message, size : Size]
Call == [to : Connection, msg : Message]

\* The buffer ends with the last message logged, and its counters are exact.
BufferOK ==
    /\ m_buffering \in BOOLEAN
    /\ m_msgs_before_open \in Seq(Line) /\ logged \in 0 .. MaxMsg
    /\ Len(m_msgs_before_open) <= logged
    /\ \A i \in 1 .. Len(m_msgs_before_open) :
           m_msgs_before_open[i].msg = logged - Len(m_msgs_before_open) + i
    /\ ~ m_buffering => m_msgs_before_open = <<>>
    /\ m_cur_buffer_memusage = Usage(m_msgs_before_open)
    /\ Usage(m_msgs_before_open) <= MaxBuffer
    /\ discarded \subseteq 1 .. logged - Len(m_msgs_before_open)
    /\ m_buffer_lines_discarded \in Nat /\ announced \in Nat
    /\ m_buffer_lines_discarded <= Cardinality(discarded)
    /\ Cardinality(discarded) = announced + (IF m_buffering THEN m_buffer_lines_discarded ELSE 0)

InList(c) == \E i \in 1 .. Len(m_print_callbacks) : m_print_callbacks[i] = c

\* The callbacks in the list are different, their data lives, and while messages are
\* buffered none has heard one.
ListOK ==
    /\ m_print_callbacks \in Seq(Connection)
    /\ data \in [Connection -> {"none", "live", "destroyed"}]
    /\ heard \in [Connection -> Seq(Nat)]
    /\ \A i, j \in 1 .. Len(m_print_callbacks) : m_print_callbacks[i] = m_print_callbacks[j] => i = j
    /\ \A c \in Connection : InList(c) => data[c] = "live" /\ (m_buffering => heard[c] = <<>>)
    /\ \A c \in Connection : data[c] = "none" => heard[c] = <<>>

Place == {"idle", "callback", "PushBackCallback", "StartLogging", "DeleteCallback", "deleter",
          "Enabled", "DisconnectTestLogger"}

\* Who is where has which lock, and finds the list as the place requires.
PlaceOK(t) ==
    /\ cs_main = t <=> connection[t] # NoConnection
    /\ m_cs = t <=> pc[t] = "callback"
    /\ pc[t] = "idle" => cs_main # t
    /\ pc[t] = "PushBackCallback" =>
           /\ cs_main = t /\ data[connection[t]] = "live" /\ heard[connection[t]] = <<>>
           /\ ~ InList(connection[t]) /\ (m_print_callbacks = <<>> => m_buffering)
    /\ pc[t] = "StartLogging" =>
           /\ m_buffering
           /\ IF cs_main = t THEN m_print_callbacks = <<connection[t]>> ELSE disabled
    /\ pc[t] = "DeleteCallback" => cs_main = t /\ InList(connection[t])
    /\ pc[t] = "deleter" => cs_main = t /\ ~ InList(connection[t])
    /\ pc[t] = "Enabled" => cs_main = t
    /\ pc[t] = "DisconnectTestLogger" => cs_main = t /\ ~ m_buffering /\ m_print_callbacks = <<>>

PlacesOK ==
    /\ m_cs \in Thread \cup {NoThread} /\ cs_main \in Thread \cup {NoThread}
    /\ pc \in [Thread -> Place] /\ connection \in [Thread -> Connection \cup {NoConnection}]
    /\ disabled \in BOOLEAN
    /\ \A t \in Thread : PlaceOK(t)
    /\ \A s, t \in Thread : pc[s] = "StartLogging" /\ pc[t] = "StartLogging" => s = t
    /\ disabled => m_print_callbacks = <<>> /\ cs_main = NoThread

\* The calls under way: one message to different callbacks, or messages without a gap
\* to one callback
CallsOK ==
    /\ calls \in Seq(Call)
    /\ m_cs = NoThread <=> calls = <<>>
    /\ calls # <<>> => ~ m_buffering
    /\ \A i \in 1 .. Len(calls) : InList(calls[i].to)
    /\ \/ /\ \A i \in 1 .. Len(calls) : calls[i].msg = logged
          /\ \A i, j \in 1 .. Len(calls) : calls[i].to = calls[j].to => i = j
       \/ /\ \A i, j \in 1 .. Len(calls) : calls[i].to = calls[j].to
          /\ \A i \in 1 .. Len(calls) : calls[i].msg = logged - Len(calls) + i

\* A connection in the list that has heard messages has heard the last one, but for
\* those it is still to be called with.
HeardOK ==
    /\ HeardInOrder
    /\ \A c \in Connection : InList(c) /\ heard[c] # <<>> =>
           /\ (\A i \in 1 .. Len(calls) : calls[i].to # c) => heard[c][Len(heard[c])] = logged
           /\ \A i \in 1 .. Len(calls) :
                  calls[i].to = c /\ (\A j \in 1 .. i - 1 : calls[j].to # c) =>
                      heard[c][Len(heard[c])] = calls[i].msg - 1

\* Every message is somewhere.
Somewhere(n) ==
    \/ \E c \in Connection : \E i \in 1 .. Len(heard[c]) : heard[c][i] = n
    \/ \E i \in 1 .. Len(m_msgs_before_open) : m_msgs_before_open[i].msg = n
    \/ \E i \in 1 .. Len(calls) : calls[i].msg = n
    \/ n \in discarded \cup missed

AccountOK ==
    /\ \A n \in 1 .. logged : Somewhere(n)
    /\ missed \subseteq 1 .. logged
    /\ \A c \in Connection : \A i \in 1 .. Len(heard[c]) : heard[c][i] \in 1 .. logged

\* Nobody listens only at the end of a destructor, or when logging is disabled.
NobodyOK ==
    ~ m_buffering /\ m_print_callbacks = <<>> =>
        disabled \/ \E t \in Thread : pc[t] \in {"deleter", "Enabled", "DisconnectTestLogger"}

\* The inductive invariant
IInv == BufferOK /\ ListOK /\ PlacesOK /\ CallsOK /\ HeardOK /\ AccountOK /\ NobodyOK

-----------------------------------------------------------------------------
(* Lemmas on the operators                                                 *)

\* Where a proof names no prover, it is Zenon, which is given enough time.
USE ZenonT(40)

\* A set of numbers that is not empty has a least element.
LEMMA LeastElement ==
    ASSUME SetFacts, NEW S \in SUBSET Nat, S # {}
    PROVE  \E x \in S : \A y \in S : x <= y
BY DEF SetFacts, LeastNumbers

\* The bytes of a buffer, and their number
LEMMA BytesMember ==
    ASSUME NEW s \in Seq(Line), NEW x
    PROVE  x \in Bytes(s) <=> \E i \in 1 .. Len(s) : \E b \in 1 .. s[i].size : x = <<i, b>>
BY SMTT(40) DEF Bytes

\* The bytes of a buffer can be counted.
LEMMA BytesFinite ==
    ASSUME SetFacts, NEW s \in Seq(Line)
    PROVE  IsFiniteSet(Bytes(s)) /\ Usage(s) \in Nat
<1> DEFINE I == 1 .. Len(s)
           T == {{i} \X (1 .. s[i].size) : i \in I}
           f == [i \in I |-> {i} \X (1 .. s[i].size)]
<1>1. IsFiniteSet(I)
  BY SMTT(40) DEF SetFacts, FiniteIntervals
<1>2. f \in [I -> T] /\ \A B \in T : \E i \in I : f[i] = B
  OBVIOUS
<1>3. IsFiniteSet(T)
  <2> HIDE DEF f, T, I
  <2> QED BY <1>1, <1>2 DEF SetFacts, FiniteImages
<1>4. ASSUME NEW B \in T PROVE IsFiniteSet(B)
  <2>1. PICK i \in I : B = {i} \X (1 .. s[i].size)
    OBVIOUS
  <2>2. IsFiniteSet({i}) /\ IsFiniteSet(1 .. s[i].size)
    <3>1. s[i] \in Line
      BY SMTT(40)
    <3>2. s[i].size \in Size
      BY <3>1 DEF Line
    <3>5. s[i].size \in Nat
      BY <3>2, LoggingAssumption
    <3>3. IsFiniteSet({i})
      BY DEF SetFacts, FiniteSingletons
    <3>4. IsFiniteSet(1 .. s[i].size)
      <4>1. \A n \in Nat : IsFiniteSet(1 .. n)
        BY SMTT(40) DEF SetFacts, FiniteIntervals
      <4> QED BY <3>5, <4>1
    <3> QED BY <3>3, <3>4
  <2> QED BY <2>1, <2>2 DEF SetFacts, FiniteProducts
<1>5. Bytes(s) = UNION T
  BY SMTT(40) DEF Bytes
<1> HIDE DEF T
<1>6. IsFiniteSet(Bytes(s))
  BY <1>3, <1>4, <1>5 DEF SetFacts, FiniteUNION
<1> QED BY <1>6 DEF Usage, SetFacts, FiniteSubsets

\* An empty buffer uses nothing.
LEMMA UsageEmpty ==
    ASSUME SetFacts
    PROVE  Usage(<<>>) = 0
<1>1. Bytes(<<>>) = {}
  BY SMTT(40) DEF Bytes
<1> QED BY <1>1 DEF Usage, SetFacts, FiniteEmpty

\* The lines before and after a cut take together what the buffer takes.
LEMMA UsageCut ==
    ASSUME SetFacts, NEW s \in Seq(Line), NEW k \in 0 .. Len(s), NEW a \in Seq(Line), NEW z \in Seq(Line),
           Len(a) = k, \A i \in 1 .. k : a[i] = s[i],
           Len(z) = Len(s) - k, \A i \in 1 .. Len(s) - k : z[i] = s[k + i]
    PROVE  Usage(s) = Usage(a) + Usage(z)
<1> DEFINE Z == {x \in Bytes(s) : x \notin Bytes(a)}
           f == [x \in Bytes(z) |-> <<x[1] + k, x[2]>>]
<1>1. ASSUME NEW x \in Bytes(z)
      PROVE  \E i \in 1 .. Len(s) - k : \E b \in 1 .. s[k + i].size : x = <<i, b>>
  <2>1. PICK i \in 1 .. Len(z) : \E b \in 1 .. z[i].size : x = <<i, b>>
    <3> HIDE DEF Z
    <3> QED BY BytesMember, SMTT(40)
  <2>2. i \in 1 .. Len(s) - k /\ z[i] = s[k + i]
    OBVIOUS
  <2> QED BY <2>1, <2>2
<1>2. ASSUME NEW i \in 1 .. Len(s), i > k, NEW b \in 1 .. s[i].size PROVE <<i, b>> \in Z
  <2>1. <<i, b>> \in Bytes(s)
    <3>1. \E j \in 1 .. Len(s) : \E d \in 1 .. s[j].size : <<i, b>> = <<j, d>>
      OBVIOUS
    <3> QED BY <3>1, BytesMember
  <2>2. ASSUME <<i, b>> \in Bytes(a) PROVE FALSE
    <3>1. PICK j \in 1 .. k : \E d \in 1 .. a[j].size : <<i, b>> = <<j, d>>
      BY <2>2, BytesMember, SMTT(40)
    <3>2. i = j
      BY <3>1
    <3> QED BY <1>2, <3>2, SMTT(40)
  <2> QED BY <2>1, <2>2
<1>3. ASSUME NEW x \in Z
      PROVE  \E i \in 1 .. Len(s) - k : \E b \in 1 .. s[k + i].size : x = <<k + i, b>>
  <2>1. PICK i \in 1 .. Len(s) : \E b \in 1 .. s[i].size : x = <<i, b>>
    <3>1. x \in Bytes(s)
      OBVIOUS
    <3> HIDE DEF Z
    <3> QED BY <3>1, BytesMember, SMTT(40)
  <2>2. PICK b \in 1 .. s[i].size : x = <<i, b>>
    BY <2>1
  <2>3. i > k
    <3> SUFFICES ASSUME i <= k PROVE x \in Bytes(a)
      BY SMTT(40)
    <3>1. i \in 1 .. Len(a) /\ b \in 1 .. a[i].size
      BY <2>2, SMTT(40)
    <3> QED BY <2>2, <3>1, BytesMember
  <2>4. i - k \in 1 .. Len(s) - k /\ k + (i - k) = i
    BY <2>3, SMTT(40)
  <2> QED BY <2>2, <2>4
<1>4. /\ f \in [Bytes(z) -> Z] /\ \A x, y \in Bytes(z) : f[x] = f[y] => x = y
      /\ \A x \in Z : \E y \in Bytes(z) : f[y] = x
  <2>1. ASSUME NEW x \in Bytes(z) PROVE f[x] \in Z
    <3>1. PICK i \in 1 .. Len(s) - k : \E b \in 1 .. s[k + i].size : x = <<i, b>>
      BY <1>1
    <3>2. PICK b \in 1 .. s[k + i].size : x = <<i, b>>
      BY <3>1
    <3>3. k + i \in 1 .. Len(s) /\ k + i > k /\ f[x] = <<k + i, b>>
      BY <3>2, SMTT(40)
    <3> HIDE DEF f, Z
    <3> QED BY <1>2, <3>3
  <2>2. ASSUME NEW x \in Bytes(z), NEW y \in Bytes(z), f[x] = f[y] PROVE x = y
    <3>1. PICK i \in 1 .. Len(s) - k : \E b \in 1 .. s[k + i].size : x = <<i, b>>
      BY <1>1
    <3>2. PICK b \in 1 .. s[k + i].size : x = <<i, b>>
      BY <3>1
    <3>3. PICK j \in 1 .. Len(s) - k : \E d \in 1 .. s[k + j].size : y = <<j, d>>
      BY <1>1
    <3>4. PICK d \in 1 .. s[k + j].size : y = <<j, d>>
      BY <3>3
    <3>5. <<i + k, b>> = <<j + k, d>>
      BY <2>2, <3>2, <3>4
    <3> QED BY <3>2, <3>4, <3>5, SMTT(40)
  <2>3. ASSUME NEW x \in Z PROVE \E y \in Bytes(z) : f[y] = x
    <3>1. PICK i \in 1 .. Len(s) - k : \E b \in 1 .. s[k + i].size : x = <<k + i, b>>
      BY <1>3
    <3>2. PICK b \in 1 .. s[k + i].size : x = <<k + i, b>>
      BY <3>1
    <3>3. i \in 1 .. Len(z) /\ b \in 1 .. z[i].size
      OBVIOUS
    <3>4. <<i, b>> \in Bytes(z)
      BY <3>3, BytesMember
    <3>5. f[<<i, b>>] = <<k + i, b>>
      BY <3>4, SMTT(40)
    <3> QED BY <3>2, <3>4, <3>5
  <2>4. f \in [Bytes(z) -> Z]
    BY <2>1
  <2> HIDE DEF f, Z
  <2> QED BY <2>2, <2>3, <2>4
<1>5. Cardinality(Z) = Usage(z) /\ IsFiniteSet(Z)
  <2> HIDE DEF f, Z
  <2>1. IsFiniteSet(Bytes(z))
    BY BytesFinite
  <2>2. Cardinality(Z) = Cardinality(Bytes(z)) /\ IsFiniteSet(Z)
    BY <1>4, <2>1 DEF SetFacts, FiniteImages
  <2> QED BY <2>2 DEF Usage
<1>6. Bytes(s) = Bytes(a) \cup Z /\ Bytes(a) \cap Z = {}
  <2>1. ASSUME NEW x \in Bytes(a) PROVE x \in Bytes(s)
    <3>1. PICK i \in 1 .. k : \E b \in 1 .. a[i].size : x = <<i, b>>
      BY BytesMember, SMTT(40)
    <3>2. i \in 1 .. Len(s) /\ a[i] = s[i]
      BY SMTT(40)
    <3> QED BY <3>1, <3>2, BytesMember
  <2> QED BY <2>1
<1> HIDE DEF Z
<1>7. Cardinality(Bytes(s)) = Cardinality(Bytes(a)) + Cardinality(Z) - Cardinality(Bytes(a) \cap Z)
  BY <1>5, <1>6, BytesFinite DEF SetFacts, FiniteUnions
<1>8. Cardinality(Bytes(a) \cap Z) = 0
  BY <1>6 DEF SetFacts, FiniteEmpty
<1>9. Usage(a) \in Nat /\ Usage(z) \in Nat
  BY BytesFinite
<1>10. Usage(s) = Usage(a) + Usage(z) - 0
  BY <1>5, <1>7, <1>8 DEF Usage
<1> QED BY <1>9, <1>10, SMTT(40)

\* The length and the elements of a sequence
LEMMA SeqElements ==
    ASSUME NEW S, NEW s \in Seq(S)
    PROVE  Len(s) \in Nat /\ \A i \in 1 .. Len(s) : s[i] \in S
BY SMTT(40)

\* The two parts of a sequence that is cut
LEMMA CutProperties ==
    ASSUME NEW S, NEW s \in Seq(S), NEW k \in 0 .. Len(s), NEW a, NEW z,
           a = SubSeq(s, 1, k), z = SubSeq(s, k + 1, Len(s))
    PROVE  /\ a \in Seq(S) /\ Len(a) = k /\ \A i \in 1 .. k : a[i] = s[i]
           /\ z \in Seq(S) /\ Len(z) = Len(s) - k /\ \A i \in 1 .. Len(s) - k : z[i] = s[k + i]
<1>1. \A i \in 1 .. Len(s) : s[i] \in S
  BY SMTT(40)
<1>2. /\ 1 \in Int /\ k \in Int /\ k + 1 \in Int /\ Len(s) \in Int
      /\ \A i \in 1 .. k : s[i] \in S
      /\ \A i \in k + 1 .. Len(s) : s[i] \in S
  BY <1>1, SMTT(40)
<1>3. /\ a \in Seq(S) /\ Len(a) = IF 1 <= k THEN k - 1 + 1 ELSE 0
      /\ \A i \in 1 .. k - 1 + 1 : a[i] = s[1 + i - 1]
  BY <1>2, SMTT(40)
<1>4. /\ z \in Seq(S) /\ Len(z) = IF k + 1 <= Len(s) THEN Len(s) - (k + 1) + 1 ELSE 0
      /\ \A i \in 1 .. Len(s) - (k + 1) + 1 : z[i] = s[(k + 1) + i - 1]
  BY <1>2, SMTT(40)
<1>5. Len(a) = k /\ Len(z) = Len(s) - k
  BY <1>3, <1>4, SMTT(40)
<1>6. ASSUME NEW i \in 1 .. k PROVE a[i] = s[i]
  <2>1. i \in 1 .. k - 1 + 1 /\ 1 + i - 1 = i
    BY SMTT(40)
  <2> QED BY <1>3, <2>1
<1>7. ASSUME NEW i \in 1 .. Len(s) - k PROVE z[i] = s[k + i]
  <2>1. i \in 1 .. Len(s) - (k + 1) + 1 /\ (k + 1) + i - 1 = k + i
    BY SMTT(40)
  <2> QED BY <1>4, <2>1
<1> QED BY <1>3, <1>4, <1>5, <1>6, <1>7

\* A buffer of one line uses the size of the line.
LEMMA UsageOne ==
    ASSUME SetFacts, NEW m \in Line
    PROVE  Usage(<<m>>) = m.size
<1>1. m.size \in Nat
  BY LoggingAssumption DEF Line
<1>2. Bytes(<<m>>) = {1} \X (1 .. m.size)
  <2>1. DOMAIN <<m>> = {1} /\ <<m>>[1] = m
    BY SMTT(40)
  <2> QED BY <2>1 DEF Bytes
<1>3. \A n \in Nat : IsFiniteSet(1 .. n) /\ Cardinality(1 .. n) = n
  BY SMTT(40) DEF SetFacts, FiniteIntervals
<1>4. IsFiniteSet({1}) /\ Cardinality({1}) = 1
  BY DEF SetFacts, FiniteSingletons
<1> DEFINE B == 1 .. m.size
<1>5. IsFiniteSet(B) /\ Cardinality(B) = m.size
  BY <1>1, <1>3
<1> HIDE DEF B
<1>6. Cardinality({1} \X B) = Cardinality({1}) * Cardinality(B)
  BY <1>4, <1>5 DEF SetFacts, FiniteProducts
<1>7. Cardinality({1} \X B) = m.size
  BY <1>1, <1>4, <1>5, <1>6, SMTT(40)
<1> QED BY <1>2, <1>7 DEF Usage, B

\* A line at the end adds its size.
LEMMA UsageAppend ==
    ASSUME SetFacts, NEW s \in Seq(Line), NEW m \in Line
    PROVE  Usage(Append(s, m)) = Usage(s) + m.size
<1>1. Append(s, m) \in Seq(Line) /\ Len(s) \in 0 .. Len(Append(s, m)) /\ <<m>> \in Seq(Line)
  BY SMTT(40)
<1>2. \A i \in 1 .. Len(s) : s[i] = Append(s, m)[i]
  BY SMTT(40)
<1>3. /\ Len(<<m>>) = Len(Append(s, m)) - Len(s)
      /\ \A i \in 1 .. Len(Append(s, m)) - Len(s) : <<m>>[i] = Append(s, m)[Len(s) + i]
  BY SMTT(40)
<1>4. Usage(Append(s, m)) = Usage(s) + Usage(<<m>>)
  BY <1>1, <1>2, <1>3, UsageCut
<1> QED BY <1>4, UsageOne

\* When the counter is exact, the loop that makes room takes no more lines than there are,
\* and what is left of the counter is within the limit: it need not be reset.
LEMMA ExcessMakesRoom ==
    ASSUME SetFacts, NEW buf \in Seq(Line), NEW usage, usage = Usage(buf)
    PROVE  /\ Excess(usage, buf) \in 0 .. Len(buf)
           /\ Remaining(usage, buf, Excess(usage, buf)) <= MaxBuffer
<1> DEFINE K == {k \in 0 .. Len(buf) : \/ k = Len(buf)
                                      \/ Remaining(usage, buf, k) <= MaxBuffer}
           Good(k) == /\ k = Len(buf) \/ Remaining(usage, buf, k) <= MaxBuffer
                      /\ \A j \in 0 .. k - 1 : Remaining(usage, buf, j) > MaxBuffer
<1>1. SubSeq(buf, 1, Len(buf)) = buf /\ Len(buf) \in 0 .. Len(buf)
  BY SMTT(40)
<1>2. \A j \in 0 .. Len(buf) : Remaining(usage, buf, j) \in Int
  <2> SUFFICES ASSUME NEW j \in 0 .. Len(buf) PROVE Remaining(usage, buf, j) \in Int
    OBVIOUS
  <2>1. SubSeq(buf, 1, j) \in Seq(Line)
    BY SMTT(40)
  <2>2. Usage(SubSeq(buf, 1, j)) \in Nat /\ usage \in Nat
    BY <2>1, BytesFinite
  <2>3. \A m, n \in Nat : m - n \in Int
    BY SMTT(40)
  <2> QED BY <2>2, <2>3 DEF Remaining
<1>3. PICK k \in K : \A j \in K : k <= j
  <2>1. Len(buf) \in K
    BY <1>1
  <2>2. K \in SUBSET Nat
    BY SMTT(40)
  <2> HIDE DEF K
  <2> QED BY <2>1, <2>2, LeastElement
<1>4. ASSUME NEW j \in 0 .. k - 1 PROVE Remaining(usage, buf, j) > MaxBuffer
  <2>1. j \in 0 .. Len(buf) /\ j \notin K
    <3>1. j < k /\ k \in 0 .. Len(buf) /\ j \in Nat
      BY SMTT(40)
    <3> HIDE DEF K
    <3> QED BY <1>3, <3>1, SMTT(40)
  <2>2. ~ (Remaining(usage, buf, j) <= MaxBuffer) /\ Remaining(usage, buf, j) \in Int
    BY <1>2, <2>1
  <2>3. \A n \in Int : ~ (n <= MaxBuffer) => n > MaxBuffer
    BY LoggingAssumption, SMTT(40)
  <2> QED BY <2>2, <2>3
<1>5. k \in 0 .. Len(buf) /\ Good(k)
  BY <1>4
<1>6. Excess(usage, buf) \in 0 .. Len(buf) /\ Good(Excess(usage, buf))
  <2> HIDE DEF Good, K
  <2>1. Excess(usage, buf) = CHOOSE j \in 0 .. Len(buf) : Good(j)
    BY DEF Excess, Good
  <2> QED BY <1>5, <2>1
<1>7. Remaining(usage, buf, Len(buf)) <= MaxBuffer
  <2>1. Remaining(usage, buf, Len(buf)) = usage - usage /\ usage \in Nat
    BY <1>1, BytesFinite DEF Remaining
  <2> HIDE DEF Good, K
  <2> QED BY <2>1, LoggingAssumption, SMTT(40)
<1> QED BY <1>6, <1>7

-----------------------------------------------------------------------------
(* The buffer                                                              *)

\* Buffering a message: the counters stay exact, and what leaves the buffer is counted.
LEMMA BufferStep ==
    ASSUME SetFacts, BufferOK, m_buffering, NEW size \in Size, logged < MaxMsg, logged' = logged + 1,
           BufferMessage(logged', size), UNCHANGED <<m_buffering, announced>>
    PROVE  /\ BufferOK'
           /\ \A n : (\E i \in 1 .. Len(m_msgs_before_open) : m_msgs_before_open[i].msg = n) \/ n = logged' =>
                  \/ \E i \in 1 .. Len(m_msgs_before_open') : m_msgs_before_open'[i].msg = n
                  \/ n \in discarded'
           /\ discarded \subseteq discarded'
<1> DEFINE line == [msg |-> logged', size |-> size]
           old == m_msgs_before_open
           buf == Append(old, line)
           usage == m_cur_buffer_memusage + size
           k == Excess(usage, buf)
           a == SubSeq(buf, 1, k)
           z == SubSeq(buf, k + 1, Len(buf))
           lo == logged - Len(old)
           D == {buf[i].msg : i \in 1 .. k}
<1>1. /\ m_msgs_before_open' = z
      /\ m_cur_buffer_memusage' = IF usage - Usage(a) > MaxBuffer THEN 0 ELSE usage - Usage(a)
      /\ m_buffer_lines_discarded' = m_buffer_lines_discarded + k
      /\ discarded' = discarded \cup D
  BY DEF BufferMessage, Remaining
<1>2. /\ old \in Seq(Line) /\ logged \in 0 .. MaxMsg /\ MaxMsg \in Nat
      /\ logged' \in 0 .. MaxMsg /\ line \in Line
  BY LoggingAssumption, SMTT(40) DEF BufferOK, Line, Message
<1>3. buf \in Seq(Line) /\ Len(buf) = Len(old) + 1
  BY <1>2, SMTT(40)
<1>4. k \in 0 .. Len(buf) /\ usage - Usage(a) <= MaxBuffer
  <2>1. usage = Usage(buf)
    BY <1>2, UsageAppend DEF BufferOK
  <2> HIDE DEF buf, usage
  <2> QED BY <1>3, <2>1, ExcessMakesRoom DEF Remaining
<1>5. lo \in Nat /\ \A i \in 1 .. Len(buf) : buf[i].msg = lo + i
  <2>1. Len(old) <= logged /\ \A i \in 1 .. Len(old) : old[i].msg = logged - Len(old) + i
    BY DEF BufferOK
  <2>2. lo \in Nat
    BY <1>2, <2>1, SMTT(40)
  <2>3. ASSUME NEW i \in 1 .. Len(buf) PROVE buf[i].msg = lo + i
    <3>1. CASE i \in 1 .. Len(old)
      <4>1. buf[i] = old[i]
        BY <1>2, <3>1, SMTT(40)
      <4> QED BY <2>1, <3>1, <4>1
    <3>2. CASE i = Len(old) + 1
      <4>1. buf[i] = line
        BY <1>2, <3>2, SMTT(40)
      <4>2. logged + 1 = lo + (Len(old) + 1)
        BY <1>2, SMTT(40)
      <4> QED BY <3>2, <4>1, <4>2, SMTT(40)
    <3> QED BY <1>2, <1>3, <3>1, <3>2, SMTT(40)
  <2> QED BY <2>2, <2>3
<1>6. Usage(buf) = Usage(old) + size
  BY <1>2, UsageAppend
<1> HIDE DEF buf, k, line
<1>7. /\ a \in Seq(Line) /\ Len(a) = k /\ \A i \in 1 .. k : a[i] = buf[i]
      /\ z \in Seq(Line) /\ Len(z) = Len(buf) - k /\ \A i \in 1 .. Len(buf) - k : z[i] = buf[k + i]
  <2>1. a = SubSeq(buf, 1, k) /\ z = SubSeq(buf, k + 1, Len(buf))
    OBVIOUS
  <2> HIDE DEF a, z
  <2> QED BY <1>3, <1>4, <2>1, CutProperties, SMTT(40)
<1> HIDE DEF a, z
<1>8. Usage(buf) = Usage(a) + Usage(z)
  BY <1>3, <1>4, <1>7, UsageCut
<1>9. /\ Usage(a) \in Nat /\ Usage(z) \in Nat /\ Usage(old) \in Nat
      /\ m_cur_buffer_memusage = Usage(old)
  BY <1>2, <1>7, BytesFinite DEF BufferOK
<1>10. m_cur_buffer_memusage' = Usage(z) /\ Usage(z) <= MaxBuffer
  <2>1. size \in Nat /\ MaxBuffer \in Nat
    BY LoggingAssumption
  <2>2. Usage(a) + Usage(z) = Usage(old) + size /\ usage = Usage(old) + size
    BY <1>6, <1>8, <1>9
  <2>3. usage - Usage(a) = Usage(z)
    <3> HIDE DEF usage
    <3> QED BY <1>9, <2>1, <2>2, SMTT(40)
  <2> HIDE DEF usage
  <2>4. Usage(z) <= MaxBuffer
    BY <1>4, <2>3
  <2>5. ~ (Usage(z) > MaxBuffer)
    BY <1>9, <2>1, <2>4, SMTT(40)
  <2> QED BY <1>1, <2>3, <2>4, <2>5
<1>11. \A i \in 1 .. Len(z) : z[i].msg = logged' - Len(z) + i
  <2> SUFFICES ASSUME NEW i \in 1 .. Len(z) PROVE z[i].msg = logged' - Len(z) + i
    OBVIOUS
  <2>1. k + i \in 1 .. Len(buf)
    BY <1>3, <1>4, <1>7, SMTT(40)
  <2>2. z[i] = buf[k + i]
    BY <1>7
  <2>3. z[i].msg = lo + (k + i)
    BY <1>5, <2>1, <2>2
  <2>4. lo + (k + i) = logged' - Len(z) + i
    BY <1>2, <1>3, <1>4, <1>7, SMTT(40)
  <2> QED BY <2>3, <2>4
<1>12. Len(z) <= logged' /\ lo + k = logged' - Len(z)
  BY <1>2, <1>3, <1>4, <1>5, <1>7, SMTT(40)
<1>13. D = lo + 1 .. lo + k
  <2>1. ASSUME NEW n \in lo + 1 .. lo + k PROVE n \in D
    <3>1. n - lo \in 1 .. k /\ n - lo \in 1 .. Len(buf)
      BY <1>3, <1>4, <1>5, SMTT(40)
    <3>2. lo + (n - lo) = n
      BY <1>5, SMTT(40)
    <3>3. buf[n - lo].msg = n
      BY <1>5, <3>1, <3>2
    <3> QED BY <3>1, <3>3
  <2>2. ASSUME NEW i \in 1 .. k PROVE buf[i].msg \in lo + 1 .. lo + k
    <3>1. i \in 1 .. Len(buf)
      BY <1>3, <1>4, SMTT(40)
    <3> HIDE DEF lo
    <3> QED BY <1>4, <1>5, <3>1, SMTT(40)
  <2> QED BY <2>1, <2>2
<1> HIDE DEF D
<1>14. discarded \subseteq 1 .. lo
  BY DEF BufferOK
<1>15. /\ IsFiniteSet(discarded) /\ IsFiniteSet(D) /\ Cardinality(D) = k
       /\ Cardinality(discarded) \in Nat /\ discarded \cap D = {}
  <2> HIDE DEF lo
  <2>1. IsFiniteSet(1 .. lo) /\ IsFiniteSet(lo + 1 .. lo + k)
    <3>1. 1 \in Int /\ lo \in Int /\ lo + 1 \in Int /\ lo + k \in Int
      BY <1>4, <1>5, SMTT(40)
    <3> QED BY <3>1 DEF SetFacts, FiniteIntervals
  <2>2. Cardinality(lo + 1 .. lo + k) = k
    <3>1. lo + 1 \in Int /\ lo + k \in Int
      BY <1>4, <1>5, SMTT(40)
    <3>2. Cardinality(lo + 1 .. lo + k) =
            IF lo + 1 > lo + k THEN 0 ELSE (lo + k) - (lo + 1) + 1
      BY <3>1 DEF SetFacts, FiniteIntervals
    <3> QED BY <1>4, <1>5, <3>2, SMTT(40)
  <2>3. IsFiniteSet(discarded) /\ Cardinality(discarded) \in Nat
    BY <1>14, <2>1 DEF SetFacts, FiniteSubsets
  <2>4. discarded \cap D = {}
    BY <1>4, <1>5, <1>13, <1>14, SMTT(40)
  <2> QED BY <1>13, <2>1, <2>2, <2>3, <2>4
<1>16. Cardinality(discarded') = Cardinality(discarded) + k
  <2>1. Cardinality(discarded \cup D) =
          Cardinality(discarded) + Cardinality(D) - Cardinality(discarded \cap D)
    BY <1>15 DEF SetFacts, FiniteUnions
  <2>2. Cardinality(discarded \cap D) = 0
    BY <1>15 DEF SetFacts, FiniteEmpty
  <2> QED BY <1>1, <1>4, <1>15, <2>1, <2>2, SMTT(40)
<1>17. discarded' \subseteq 1 .. logged' - Len(z)
  <2>1. discarded' \subseteq 1 .. lo + k
    <3> HIDE DEF lo
    <3> QED BY <1>1, <1>4, <1>5, <1>13, <1>14, SMTT(40)
  <2> QED BY <1>12, <2>1
<1>18. BufferOK'
  <2>1. /\ m_buffer_lines_discarded \in Nat /\ announced \in Nat
        /\ m_buffer_lines_discarded <= Cardinality(discarded)
        /\ Cardinality(discarded) = announced + m_buffer_lines_discarded
    BY DEF BufferOK
  <2>2. /\ m_buffer_lines_discarded' \in Nat
        /\ m_buffer_lines_discarded' <= Cardinality(discarded')
        /\ Cardinality(discarded') = announced + m_buffer_lines_discarded'
    BY <1>1, <1>4, <1>15, <1>16, <2>1, <1>3, SMTT(40)
  <2>3. m_buffering' = TRUE /\ announced' = announced
    BY DEF BufferOK
  <2> QED BY <1>1, <1>2, <1>4, <1>7, <1>10, <1>11, <1>12, <1>17, <2>1, <2>2, <2>3 DEF BufferOK
<1>19. ASSUME NEW i \in 1 .. Len(buf)
       PROVE  (\E j \in 1 .. Len(z) : z[j].msg = buf[i].msg) \/ buf[i].msg \in D
  <2>1. CASE i <= k
    BY <2>1, SMTT(40) DEF D
  <2>2. CASE i > k
    <3>1. i - k \in 1 .. Len(z) /\ k + (i - k) = i
      BY <1>3, <1>4, <1>7, <2>2, SMTT(40)
    <3>2. z[i - k] = buf[i]
      BY <1>7, <3>1
    <3> QED BY <3>1, <3>2
  <2> QED BY <1>3, <1>4, <2>1, <2>2, SMTT(40)
<1>20. ASSUME NEW n, (\E i \in 1 .. Len(old) : old[i].msg = n) \/ n = logged'
       PROVE  \E i \in 1 .. Len(buf) : buf[i].msg = n
  <2>1. ASSUME NEW i \in 1 .. Len(old) PROVE i \in 1 .. Len(buf) /\ buf[i] = old[i]
    BY <1>2, <1>3, SMTT(40) DEF buf
  <2>2. Len(buf) \in 1 .. Len(buf) /\ buf[Len(buf)].msg = logged'
    BY <1>2, <1>3, SMTT(40) DEF buf, line
  <2> QED BY <1>20, <2>1, <2>2
<1>21. ASSUME NEW n, (\E i \in 1 .. Len(old) : old[i].msg = n) \/ n = logged'
       PROVE  (\E j \in 1 .. Len(z) : z[j].msg = n) \/ n \in D
  <2>1. PICK i \in 1 .. Len(buf) : buf[i].msg = n
    BY <1>20, <1>21
  <2> QED BY <1>19, <2>1
<1>22. \A n : (\E i \in 1 .. Len(m_msgs_before_open) : m_msgs_before_open[i].msg = n) \/ n = logged' =>
                  \/ \E i \in 1 .. Len(m_msgs_before_open') : m_msgs_before_open'[i].msg = n
                  \/ n \in discarded'
  BY <1>1, <1>21
<1> QED BY <1>1, <1>18, <1>22

-----------------------------------------------------------------------------
(* The list of callbacks, and the calls                                    *)

\* r is a and then z.
Joined(r, a, z, S) ==
    /\ r \in Seq(S) /\ Len(r) = Len(a) + Len(z)
    /\ \A i \in 1 .. Len(a) + Len(z) : r[i] = IF i <= Len(a) THEN a[i] ELSE z[i - Len(a)]

\* What a concatenation holds.
LEMMA JoinProperties ==
    ASSUME NEW S, NEW a \in Seq(S), NEW z \in Seq(S)
    PROVE  Joined(a \o z, a, z, S)
  BY SMTT(40) DEF Joined

\* No element comes twice.
NoRepeats(s) == \A i, j \in 1 .. Len(s) : s[i] = s[j] => i = j

\* r is s without its element p.
Without(r, s, S, p) ==
    /\ r \in Seq(S) /\ Len(r) = Len(s) - 1
    /\ \A i \in 1 .. Len(r) : r[i] = IF i < p THEN s[i] ELSE s[i + 1]

\* Taking an element from a sequence of different elements
LEMMA EraseProperties ==
    ASSUME NEW S, NEW s \in Seq(S), NoRepeats(s),
           NEW p \in 1 .. Len(s), NEW r, r = Erase(s, s[p])
    PROVE  Without(r, s, S, p)
<1> DEFINE e == s[p]
           it == CHOOSE i \in 1 .. Len(s) : s[i] = e
           a == SubSeq(s, 1, p - 1)
           z == SubSeq(s, p + 1, Len(s))
<1>1. it \in 1 .. Len(s) /\ s[it] = e
  OBVIOUS
<1>2. it = p
  <2> HIDE DEF it
  <2> QED BY <1>1 DEF NoRepeats
<1>3. r = a \o z
  BY <1>2 DEF Erase
<1>4. /\ a \in Seq(S) /\ Len(a) = p - 1 /\ \A i \in 1 .. p - 1 : a[i] = s[i]
  <2>1. p - 1 \in 0 .. Len(s)
    BY SMTT(40)
  <2> QED BY <2>1, CutProperties, SMTT(40)
<1>5. /\ z \in Seq(S) /\ Len(z) = Len(s) - p /\ \A i \in 1 .. Len(s) - p : z[i] = s[p + i]
  <2>1. p \in 0 .. Len(s)
    BY SMTT(40)
  <2> QED BY <2>1, CutProperties, SMTT(40)
<1> HIDE DEF a, z
<1>6. /\ r \in Seq(S) /\ Len(r) = Len(a) + Len(z)
      /\ \A i \in 1 .. Len(a) + Len(z) : r[i] = IF i <= Len(a) THEN a[i] ELSE z[i - Len(a)]
  <2>1. Joined(r, a, z, S)
    BY <1>3, <1>4, <1>5, JoinProperties
  <2> QED BY <2>1 DEF Joined
<1>7. Len(r) = Len(s) - 1
  <2>1. Len(s) \in Nat
    BY SMTT(40)
  <2>2. Len(r) = (p - 1) + (Len(s) - p)
    BY <1>4, <1>5, <1>6
  <2> QED BY <2>1, <2>2, SMTT(40)
<1>8. ASSUME NEW i \in 1 .. Len(r) PROVE r[i] = IF i < p THEN s[i] ELSE s[i + 1]
  <2>1. r[i] = IF i <= p - 1 THEN a[i] ELSE z[i - (p - 1)]
    BY <1>4, <1>6
  <2>2. CASE i < p
    BY <1>4, <2>1, <2>2, SMTT(40)
  <2>3. CASE i >= p
    <3>1. i - (p - 1) \in 1 .. Len(s) - p /\ p + (i - (p - 1)) = i + 1
      BY <1>7, <2>3, SMTT(40)
    <3>2. z[i - (p - 1)] = s[i + 1]
      BY <1>5, <3>1
    <3> QED BY <2>1, <2>3, <3>2, SMTT(40)
  <2> QED BY <2>2, <2>3, SMTT(40)
<1> QED BY <1>6, <1>7, <1>8 DEF Without

\* The calls with one message, and the calls of one callback
LEMMA CallsWithOne ==
    ASSUME m_print_callbacks \in Seq(Connection), m_print_callbacks # <<>>, NEW n \in Message
    PROVE  /\ CallsFor(<<n>>) \in Seq(Call) /\ Len(CallsFor(<<n>>)) = Len(m_print_callbacks)
           /\ \A i \in 1 .. Len(m_print_callbacks) :
                  CallsFor(<<n>>)[i].to = m_print_callbacks[i] /\ CallsFor(<<n>>)[i].msg = n
<1> DEFINE l == Len(m_print_callbacks)
           C == [k \in 1 .. l |-> [to |-> m_print_callbacks[((k - 1) % l) + 1],
                                   msg |-> <<n>>[((k - 1) \div l) + 1]]]
<1>1. l \in Nat \ {0}
  BY SMTT(40)
<1>2. \A a \in Nat, b \in Nat \ {0} : a < b => a % b = a /\ a \div b = 0
  BY SMTT(40)
<1>3. CallsFor(<<n>>) = C
  <2>1. Len(<<n>>) * l = l
    BY <1>1, SMTT(40)
  <2> QED BY <2>1 DEF CallsFor
<1>4. ASSUME NEW k \in 1 .. l
      PROVE  [to |-> m_print_callbacks[((k - 1) % l) + 1], msg |-> <<n>>[((k - 1) \div l) + 1]]
               = [to |-> m_print_callbacks[k], msg |-> n]
  <2>1. (k - 1) \in Nat /\ k - 1 < l
    BY <1>1, SMTT(40)
  <2>2. (k - 1) % l = k - 1 /\ (k - 1) \div l = 0
    BY <1>1, <1>2, <2>1
  <2>3. ((k - 1) % l) + 1 = k /\ ((k - 1) \div l) + 1 = 1
    BY <2>2, SMTT(40)
  <2>4. m_print_callbacks[((k - 1) % l) + 1] = m_print_callbacks[k] /\ <<n>>[((k - 1) \div l) + 1] = n
    BY <2>3, SMTT(40)
  <2> QED BY <2>4
<1>5. C = [k \in 1 .. l |-> [to |-> m_print_callbacks[k], msg |-> n]]
  BY <1>4
<1> HIDE DEF C
<1>6. C \in Seq(Call) /\ Len(C) = l /\ \A k \in 1 .. l : C[k].to = m_print_callbacks[k] /\ C[k].msg = n
  BY <1>1, <1>5, SMTT(40) DEF Call
<1> QED BY <1>3, <1>6

\* With one connection in the list there is one call for each message.
LEMMA CallsOfOne ==
    ASSUME m_print_callbacks \in Seq(Connection), Len(m_print_callbacks) = 1, NEW ms \in Seq(Message)
    PROVE  /\ CallsFor(ms) \in Seq(Call) /\ Len(CallsFor(ms)) = Len(ms)
           /\ \A i \in 1 .. Len(ms) :
                  CallsFor(ms)[i].to = m_print_callbacks[1] /\ CallsFor(ms)[i].msg = ms[i]
<1> DEFINE C == [k \in 1 .. Len(ms) |-> [to |-> m_print_callbacks[((k - 1) % 1) + 1],
                                         msg |-> ms[((k - 1) \div 1) + 1]]]
<1>3. CallsFor(ms) = C
  <2>1. Len(ms) * Len(m_print_callbacks) = Len(ms)
    BY SMTT(40)
  <2> QED BY <2>1 DEF CallsFor
<1>4. ASSUME NEW k \in 1 .. Len(ms)
      PROVE  [to |-> m_print_callbacks[((k - 1) % 1) + 1], msg |-> ms[((k - 1) \div 1) + 1]]
               = [to |-> m_print_callbacks[1], msg |-> ms[k]]
  <2>1. ((k - 1) % 1) + 1 = 1 /\ ((k - 1) \div 1) + 1 = k
    BY SMTT(40)
  <2> QED BY <2>1
<1>5. C = [k \in 1 .. Len(ms) |-> [to |-> m_print_callbacks[1], msg |-> ms[k]]]
  BY <1>4
<1> HIDE DEF C
<1>6. /\ C \in Seq(Call) /\ Len(C) = Len(ms)
      /\ \A k \in 1 .. Len(ms) : C[k].to = m_print_callbacks[1] /\ C[k].msg = ms[k]
  <2>1. m_print_callbacks[1] \in Connection /\ Len(ms) \in Nat
    <3>1. \A i \in 1 .. Len(m_print_callbacks) : m_print_callbacks[i] \in Connection
      BY SeqElements
    <3>2. 1 \in 1 .. Len(m_print_callbacks)
      BY SMTT(40)
    <3>3. Len(ms) \in Nat
      BY SeqElements
    <3> QED BY <3>1, <3>2, <3>3
  <2>2. \A k \in 1 .. Len(ms) : [to |-> m_print_callbacks[1], msg |-> ms[k]] \in Call
    BY <2>1, SMTT(40) DEF Call
  <2> QED BY <1>5, <2>1, <2>2, SMTT(40)
<1> QED BY <1>3, <1>6

-----------------------------------------------------------------------------
(* Frames                                                                  *)

\* The same list holds the same connections.
LEMMA ListSame ==
    ASSUME m_print_callbacks' = m_print_callbacks
    PROVE  \A c : InList(c)' <=> InList(c)
BY DEF InList

\* Whoever holds cs_main, or starts or stops the logging, is the only one to.
LEMMA OthersQuiet ==
    ASSUME PlacesOK, NEW t \in Thread,
           cs_main = t \/ (cs_main = NoThread /\ ~ disabled) \/ pc[t] = "StartLogging"
    PROVE  \A u \in Thread \ {t} :
               pc[u] \in {"idle", "callback"} /\ cs_main # u /\ connection[u] = NoConnection
<1> SUFFICES ASSUME NEW u \in Thread, u # t
             PROVE  pc[u] \in {"idle", "callback"} /\ cs_main # u /\ connection[u] = NoConnection
  OBVIOUS
<1>1. PlaceOK(u) /\ PlaceOK(t) /\ pc[u] \in Place
  BY DEF PlacesOK
<1>2. cs_main # u
  <2>1. CASE cs_main = t \/ cs_main = NoThread
    BY <2>1, LoggingAssumption
  <2>2. CASE pc[t] = "StartLogging" /\ cs_main # t
    BY <1>1, <2>2, LoggingAssumption, SMTT(40) DEF PlaceOK, PlacesOK
  <2> QED BY <2>1, <2>2
<1>3. connection[u] = NoConnection
  BY <1>1, <1>2 DEF PlaceOK
<1>4. pc[u] # "StartLogging"
  <2> SUFFICES ASSUME pc[u] = "StartLogging" PROVE FALSE
    OBVIOUS
  <2>1. disabled /\ cs_main = NoThread /\ pc[t] # "StartLogging"
    BY <1>1, <1>2 DEF PlaceOK, PlacesOK
  <2> QED BY <2>1, LoggingAssumption
<1>5. pc[u] \in {"idle", "callback"}
  BY <1>1, <1>2, <1>4 DEF PlaceOK, Place
<1> QED BY <1>2, <1>3, <1>5

\* The others, when they are quiet, are not concerned.
LEMMA QuietFrame ==
    ASSUME PlacesOK, NEW t \in Thread,
           cs_main = t \/ (cs_main = NoThread /\ ~ disabled) \/ pc[t] = "StartLogging",
           \A u \in Thread \ {t} : pc'[u] = pc[u] /\ connection'[u] = connection[u],
           cs_main' \in {t, NoThread},
           \A u \in Thread \ {t} : m_cs' = u <=> m_cs = u
    PROVE  \A u \in Thread \ {t} : PlaceOK(u)' /\ pc'[u] \in {"idle", "callback"}
<1> SUFFICES ASSUME NEW u \in Thread, u # t PROVE PlaceOK(u)' /\ pc'[u] \in {"idle", "callback"}
  OBVIOUS
<1>1. PlaceOK(u) /\ pc[u] \in {"idle", "callback"} /\ connection[u] = NoConnection
  BY OthersQuiet DEF PlacesOK
<1>2. pc'[u] = pc[u] /\ connection'[u] = NoConnection /\ cs_main' # u /\ (m_cs' = u <=> m_cs = u)
  BY <1>1, LoggingAssumption
<1> QED BY <1>1, <1>2 DEF PlaceOK

\* The others, when what they rely on does not change
LEMMA SameFrame ==
    ASSUME PlacesOK, NEW t \in Thread,
           \A u \in Thread \ {t} :
               /\ pc'[u] = pc[u] /\ connection'[u] = connection[u]
               /\ cs_main' = u <=> cs_main = u
               /\ m_cs' = u <=> m_cs = u,
           UNCHANGED <<m_print_callbacks, m_buffering, data, disabled>>,
           \A c \in Connection : ~ InList(c) => heard'[c] = heard[c]
    PROVE  \A u \in Thread \ {t} : PlaceOK(u)'
<1> SUFFICES ASSUME NEW u \in Thread, u # t PROVE PlaceOK(u)'
  OBVIOUS
<1>1. PlaceOK(u) /\ connection[u] \in Connection \cup {NoConnection}
  BY DEF PlacesOK
<1>2. /\ pc'[u] = pc[u] /\ connection'[u] = connection[u]
      /\ cs_main' = u <=> cs_main = u
      /\ m_cs' = u <=> m_cs = u
  OBVIOUS
<1>3. \A c : InList(c)' <=> InList(c)
  BY ListSame
<1>4. pc[u] = "PushBackCallback" => heard'[connection[u]] = heard[connection[u]]
  BY <1>1 DEF PlaceOK
<1>5. /\ m_print_callbacks' = m_print_callbacks /\ m_buffering' = m_buffering /\ data' = data
      /\ disabled' = disabled
  OBVIOUS
<1> QED BY <1>1, <1>2, <1>3, <1>4, <1>5, SMTT(40) DEF PlaceOK

\* From the places of all threads
LEMMA PlacesTogether ==
    ASSUME PlacesOK, NEW t \in Thread, PlaceOK(t)', \A u \in Thread \ {t} : PlaceOK(u)',
           NEW label \in Place, pc' = [pc EXCEPT ![t] = label],
           cs_main' \in Thread \cup {NoThread}, m_cs' \in Thread \cup {NoThread},
           connection' \in [Thread -> Connection \cup {NoConnection}], disabled' \in BOOLEAN,
           label = "StartLogging" => \A u \in Thread \ {t} : pc[u] # "StartLogging",
           disabled' => m_print_callbacks' = <<>> /\ cs_main' = NoThread
    PROVE  PlacesOK'
<1>1. pc \in [Thread -> Place]
  BY DEF PlacesOK
<1>2. pc' \in [Thread -> Place] /\ pc'[t] = label /\ \A u \in Thread \ {t} : pc'[u] = pc[u]
  BY <1>1
<1>3. \A u \in Thread : PlaceOK(u)'
  OBVIOUS
<1>4. ASSUME NEW s \in Thread, NEW u \in Thread, pc'[s] = "StartLogging", pc'[u] = "StartLogging"
      PROVE  s = u
  <2>1. \A x, y \in Thread : pc[x] = "StartLogging" /\ pc[y] = "StartLogging" => x = y
    BY DEF PlacesOK
  <2> QED BY <1>2, <1>4, <2>1
<1> QED BY <1>2, <1>3, <1>4 DEF PlacesOK

\* While nothing is called
LEMMA CallsNone ==
    ASSUME calls' = <<>>, m_cs' = NoThread
    PROVE  CallsOK'
BY SMTT(40) DEF CallsOK, Call

\* Where nothing moves, every message is where it was.
LEMMA AccountSame ==
    ASSUME AccountOK,
           UNCHANGED <<logged, missed, discarded, heard, m_msgs_before_open, calls>>
    PROVE  AccountOK'
<1>1. \A n : Somewhere(n)' <=> Somewhere(n)
  BY DEF Somewhere
<1> QED BY <1>1 DEF AccountOK

\* A buffer that is left alone is as good as before.
LEMMA BufferSame ==
    ASSUME BufferOK, UNCHANGED <<m_buffering, buffer, logged, discarded, announced>>
    PROVE  BufferOK'
BY DEF BufferOK, buffer

\* What is still to be called, and what was heard, is as before.
LEMMA CallsSame ==
    ASSUME CallsOK, UNCHANGED <<m_buffering, m_cs, calls, logged>>, \A c : InList(c)' <=> InList(c)
    PROVE  CallsOK'
<1>1. m_buffering' = m_buffering /\ m_cs' = m_cs /\ calls' = calls /\ logged' = logged
  OBVIOUS
<1> QED BY <1>1, SMTT(40) DEF CallsOK

\* What the connections heard is as before.
LEMMA HeardSame ==
    ASSUME HeardOK, UNCHANGED <<calls, heard, logged>>, \A c : InList(c)' <=> InList(c)
    PROVE  HeardOK'
<1>1. calls' = calls /\ heard' = heard /\ logged' = logged
  OBVIOUS
<1> QED BY <1>1, SMTT(40) DEF HeardOK, HeardInOrder

-----------------------------------------------------------------------------
(* The constructor and the destructor of a connection                      *)

\* The constructor of a connection takes cs_main.
LEMMA ConnectStep ==
    ASSUME IInv, NEW t \in Thread, NEW c \in Connection, Connect(t, c)
    PROVE  IInv'
<1> USE DEF IInv
<1>1. /\ pc[t] = "idle" /\ cs_main = NoThread /\ data[c] = "none" /\ ~ disabled
      /\ cs_main' = t /\ connection' = [connection EXCEPT ![t] = c]
      /\ data' = [data EXCEPT ![c] = "live"] /\ pc' = [pc EXCEPT ![t] = "PushBackCallback"]
      /\ m_buffering' = m_buffering /\ buffer' = buffer /\ m_print_callbacks' = m_print_callbacks
      /\ m_cs' = m_cs /\ calls' = calls /\ disabled' = disabled
      /\ logged' = logged /\ heard' = heard /\ discarded' = discarded /\ missed' = missed
      /\ announced' = announced
  BY DEF Connect, Goto, history
<1>2. \A d : InList(d)' <=> InList(d)
  BY <1>1, ListSame
<1>3. pc \in [Thread -> Place] /\ connection \in [Thread -> Connection \cup {NoConnection}]
  BY DEF PlacesOK
<1>4. ~ InList(c) /\ heard[c] = <<>>
  BY <1>1 DEF ListOK
<1>5. BufferOK'
  BY <1>1, BufferSame
<1>6. ListOK'
  BY <1>1, <1>2, <1>4 DEF ListOK
<1>7. m_print_callbacks = <<>> => m_buffering
  <2> SUFFICES ASSUME m_print_callbacks = <<>>, ~ m_buffering PROVE FALSE
    BY DEF BufferOK
  <2>1. PICK u \in Thread : pc[u] \in {"deleter", "Enabled", "DisconnectTestLogger"}
    BY <1>1 DEF NobodyOK
  <2>2. cs_main = u
    BY <2>1 DEF PlacesOK, PlaceOK
  <2> QED BY <1>1, <2>2, LoggingAssumption
<1>8. PlacesOK'
  <2>1. m_cs # t
    BY <1>1 DEF PlacesOK, PlaceOK
  <2>2. connection'[t] = c /\ pc'[t] = "PushBackCallback" /\ data'[c] = "live"
    BY <1>1, <1>3 DEF ListOK
  <2>3. PlaceOK(t)'
    BY <1>1, <1>2, <1>4, <1>7, <2>1, <2>2, LoggingAssumption DEF PlaceOK
  <2>4. \A u \in Thread \ {t} : PlaceOK(u)'
    BY <1>1, <1>3, QuietFrame
  <2>5. "PushBackCallback" \in Place /\ connection' \in [Thread -> Connection \cup {NoConnection}]
    BY <1>1, <1>3 DEF Place
  <2>6. m_cs' \in Thread \cup {NoThread} /\ disabled' \in BOOLEAN
    BY <1>1 DEF PlacesOK
  <2> QED BY <1>1, <2>3, <2>4, <2>5, <2>6, PlacesTogether
<1>9. CallsOK'
  BY <1>1, <1>2, CallsSame
<1>10. HeardOK'
  BY <1>1, <1>2 DEF HeardOK, HeardInOrder
<1>11. AccountOK'
  BY <1>1, AccountSame DEF buffer
<1>12. NobodyOK'
  BY <1>1, <1>7 DEF NobodyOK
<1> QED BY <1>5, <1>6, <1>8, <1>9, <1>10, <1>11, <1>12

\* The destructor of a connection takes cs_main.
LEMMA DestroyStep ==
    ASSUME IInv, NEW t \in Thread, NEW c \in Connection, Destroy(t, c)
    PROVE  IInv'
<1> USE DEF IInv
<1>1. /\ pc[t] = "idle" /\ cs_main = NoThread /\ c \in Range(m_print_callbacks)
      /\ cs_main' = t /\ connection' = [connection EXCEPT ![t] = c]
      /\ pc' = [pc EXCEPT ![t] = "DeleteCallback"] /\ data' = data
      /\ m_buffering' = m_buffering /\ buffer' = buffer /\ m_print_callbacks' = m_print_callbacks
      /\ m_cs' = m_cs /\ calls' = calls /\ disabled' = disabled
      /\ logged' = logged /\ heard' = heard /\ discarded' = discarded /\ missed' = missed
      /\ announced' = announced
  BY DEF Destroy, FirstOfDestructor, Goto, history
<1>2. \A d : InList(d)' <=> InList(d)
  BY <1>1, ListSame
<1>3. pc \in [Thread -> Place] /\ connection \in [Thread -> Connection \cup {NoConnection}]
  BY DEF PlacesOK
<1>4. InList(c)
  BY <1>1, SMTT(40) DEF ListOK, InList, Range
<1>5. m_print_callbacks # <<>> /\ ~ disabled
  BY <1>4, SMTT(40) DEF InList, PlacesOK
<1>6. BufferOK' /\ ListOK'
  BY <1>1, <1>2, BufferSame DEF ListOK
<1>8. PlacesOK'
  <2>1. m_cs # t
    BY <1>1 DEF PlacesOK, PlaceOK
  <2>2. connection'[t] = c /\ pc'[t] = "DeleteCallback"
    BY <1>1, <1>3
  <2>3. PlaceOK(t)'
    BY <1>1, <1>2, <1>4, <2>1, <2>2, LoggingAssumption DEF PlaceOK
  <2>4. \A u \in Thread \ {t} : PlaceOK(u)'
    BY <1>1, <1>3, <1>5, QuietFrame
  <2>5. "DeleteCallback" \in Place /\ connection' \in [Thread -> Connection \cup {NoConnection}]
    BY <1>1, <1>3 DEF Place
  <2>6. m_cs' \in Thread \cup {NoThread} /\ disabled' \in BOOLEAN
    BY <1>1 DEF PlacesOK
  <2> QED BY <1>1, <1>5, <2>3, <2>4, <2>5, <2>6, PlacesTogether
<1>9. CallsOK'
  BY <1>1, <1>2, CallsSame
<1>10. HeardOK'
  BY <1>1, <1>2, HeardSame
<1>11. AccountOK'
  BY <1>1, AccountSame DEF buffer
<1>12. NobodyOK'
  BY <1>1, <1>5 DEF NobodyOK
<1> QED BY <1>6, <1>8, <1>9, <1>10, <1>11, <1>12

\* The user data of a connection is freed.
LEMMA deleterStep ==
    ASSUME IInv, NEW t \in Thread, deleter(t)
    PROVE  IInv'
<1> USE DEF IInv
<1> DEFINE c == connection[t]
<1>1. /\ pc[t] = "deleter" /\ data' = [data EXCEPT ![c] = "destroyed"]
      /\ pc' = [pc EXCEPT ![t] = "Enabled"]
      /\ connection' = connection /\ cs_main' = cs_main
      /\ m_buffering' = m_buffering /\ buffer' = buffer /\ m_print_callbacks' = m_print_callbacks
      /\ m_cs' = m_cs /\ calls' = calls /\ disabled' = disabled
      /\ logged' = logged /\ heard' = heard /\ discarded' = discarded /\ missed' = missed
      /\ announced' = announced
  BY DEF deleter, Goto, history
<1>2. \A d : InList(d)' <=> InList(d)
  BY <1>1, ListSame
<1>3. pc \in [Thread -> Place] /\ connection \in [Thread -> Connection \cup {NoConnection}]
  BY DEF PlacesOK
<1>4. cs_main = t /\ ~ InList(c) /\ c # NoConnection /\ c \in Connection
  BY <1>1, <1>3 DEF PlacesOK, PlaceOK
<1>5. ~ disabled
  BY <1>4, LoggingAssumption DEF PlacesOK
<1>6. BufferOK'
  BY <1>1, BufferSame
<1>7. ListOK'
  <2>1. \A d \in Connection : data'[d] = IF d = c THEN "destroyed" ELSE data[d]
    BY <1>1 DEF ListOK
  <2> QED BY <1>1, <1>2, <1>4, <2>1, SMTT(40) DEF ListOK
<1>8. PlacesOK'
  <2>1. m_cs # t
    BY <1>1 DEF PlacesOK, PlaceOK
  <2>2. pc'[t] = "Enabled"
    BY <1>1, <1>3
  <2>3. PlaceOK(t)'
    BY <1>1, <1>4, <2>1, <2>2 DEF PlaceOK
  <2>4. \A u \in Thread \ {t} : PlaceOK(u)'
    BY <1>1, <1>3, <1>4, QuietFrame
  <2>5. "Enabled" \in Place
    BY DEF Place
  <2>6. m_cs' \in Thread \cup {NoThread} /\ disabled' \in BOOLEAN
    BY <1>1 DEF PlacesOK
  <2> QED BY <1>1, <1>3, <1>4, <1>5, <2>3, <2>4, <2>5, <2>6, PlacesTogether
<1>9. CallsOK'
  BY <1>1, <1>2, CallsSame
<1>10. HeardOK'
  BY <1>1, <1>2 DEF HeardOK, HeardInOrder
<1>11. AccountOK'
  BY <1>1, AccountSame DEF buffer
<1>12. NobodyOK'
  <2>1. pc'[t] = "Enabled"
    BY <1>1, <1>3
  <2> QED BY <2>1 DEF NobodyOK
<1> QED BY <1>6, <1>7, <1>8, <1>9, <1>10, <1>11, <1>12

\* The destructor of a connection looks whether anybody still logs.
LEMMA EnabledStep ==
    ASSUME IInv, NEW t \in Thread, Enabled(t)
    PROVE  IInv'
<1> USE DEF IInv
<1>1. /\ pc[t] = "Enabled" /\ m_cs = NoThread /\ data' = data
      /\ m_buffering' = m_buffering /\ buffer' = buffer /\ m_print_callbacks' = m_print_callbacks
      /\ m_cs' = m_cs /\ calls' = calls /\ disabled' = disabled
      /\ logged' = logged /\ heard' = heard /\ discarded' = discarded /\ missed' = missed
      /\ announced' = announced
      /\ IF m_buffering \/ m_print_callbacks # <<>>
         THEN Return(t)
         ELSE /\ pc' = [pc EXCEPT ![t] = "DisconnectTestLogger"]
              /\ cs_main' = cs_main /\ connection' = connection
  BY DEF Enabled, StaysEnabled, m_cs_free, Goto, history
<1>2. \A d : InList(d)' <=> InList(d)
  BY <1>1, ListSame
<1>3. pc \in [Thread -> Place] /\ connection \in [Thread -> Connection \cup {NoConnection}]
  BY DEF PlacesOK
<1>4. cs_main = t /\ connection[t] # NoConnection
  BY <1>1 DEF PlacesOK, PlaceOK
<1>5. ~ disabled
  BY <1>4, LoggingAssumption DEF PlacesOK
<1>6. BufferOK'
  BY <1>1, BufferSame
<1>7. ListOK'
  BY <1>1, <1>2 DEF ListOK
<1>8. ASSUME m_buffering \/ m_print_callbacks # <<>> PROVE PlacesOK' /\ NobodyOK'
  <2>1. /\ pc' = [pc EXCEPT ![t] = "idle"] /\ connection' = [connection EXCEPT ![t] = NoConnection]
        /\ cs_main' = NoThread
    BY <1>1, <1>4, <1>8 DEF Return, Goto
  <2>2. pc'[t] = "idle" /\ connection'[t] = NoConnection
    BY <1>3, <2>1
  <2>3. PlaceOK(t)'
    BY <1>1, <2>1, <2>2, LoggingAssumption DEF PlaceOK
  <2>4. \A u \in Thread \ {t} : PlaceOK(u)'
    BY <1>1, <1>3, <1>4, <2>1, QuietFrame
  <2>5. "idle" \in Place /\ connection' \in [Thread -> Connection \cup {NoConnection}]
    BY <1>3, <2>1 DEF Place
  <2>6. m_cs' \in Thread \cup {NoThread} /\ disabled' \in BOOLEAN
    BY <1>1 DEF PlacesOK
  <2>7. PlacesOK'
    BY <1>1, <1>5, <2>1, <2>3, <2>4, <2>5, <2>6, PlacesTogether
  <2>8. NobodyOK'
    BY <1>1, <1>8 DEF NobodyOK
  <2> QED BY <2>7, <2>8
<1>9. ASSUME ~ (m_buffering \/ m_print_callbacks # <<>>) PROVE PlacesOK' /\ NobodyOK'
  <2>1. /\ pc' = [pc EXCEPT ![t] = "DisconnectTestLogger"] /\ connection' = connection
        /\ cs_main' = cs_main
    BY <1>1, <1>9
  <2>2. pc'[t] = "DisconnectTestLogger"
    BY <1>3, <2>1
  <2>3. PlaceOK(t)'
    BY <1>1, <1>4, <1>9, <2>1, <2>2, LoggingAssumption DEF PlaceOK
  <2>4. \A u \in Thread \ {t} : PlaceOK(u)'
    BY <1>1, <1>3, <1>4, <2>1, QuietFrame
  <2>5. "DisconnectTestLogger" \in Place
    BY DEF Place
  <2>6. m_cs' \in Thread \cup {NoThread} /\ disabled' \in BOOLEAN
    BY <1>1 DEF PlacesOK
  <2>7. PlacesOK'
    BY <1>1, <1>3, <1>4, <1>5, <2>1, <2>3, <2>4, <2>5, <2>6, PlacesTogether
  <2>8. NobodyOK'
    BY <2>2 DEF NobodyOK
  <2> QED BY <2>7, <2>8
<1>10. CallsOK'
  BY <1>1, <1>2, CallsSame
<1>11. HeardOK'
  BY <1>1, <1>2 DEF HeardOK, HeardInOrder
<1>12. AccountOK'
  BY <1>1, AccountSame DEF buffer
<1> QED BY <1>6, <1>7, <1>8, <1>9, <1>10, <1>11, <1>12

\* DisconnectTestLogger empties the list and starts to buffer again.
LEMMA DisconnectTestLoggerStep ==
    ASSUME SetFacts, IInv, NEW t \in Thread, DisconnectTestLogger(t)
    PROVE  IInv'
<1> USE DEF IInv
<1>1. /\ pc[t] = "DisconnectTestLogger" /\ m_cs = NoThread /\ data' = data
      /\ m_buffering' = TRUE /\ m_print_callbacks' = <<>> /\ m_msgs_before_open' = <<>>
      /\ m_cur_buffer_memusage' = 0 /\ m_buffer_lines_discarded' = 0
      /\ pc' = [pc EXCEPT ![t] = "idle"] /\ connection' = [connection EXCEPT ![t] = NoConnection]
      /\ m_cs' = m_cs /\ calls' = calls /\ disabled' = disabled
      /\ logged' = logged /\ heard' = heard /\ discarded' = discarded /\ missed' = missed
      /\ announced' = announced /\ cs_main' = IF cs_main = t THEN NoThread ELSE cs_main
  BY DEF DisconnectTestLogger, m_cs_free, Return, Goto, history
<1>2. pc \in [Thread -> Place] /\ connection \in [Thread -> Connection \cup {NoConnection}]
  BY DEF PlacesOK
<1>3. cs_main = t /\ ~ m_buffering /\ m_print_callbacks = <<>> /\ cs_main' = NoThread
  BY <1>1 DEF PlacesOK, PlaceOK
<1>4. m_msgs_before_open = <<>> /\ calls = <<>>
  BY <1>1, <1>3 DEF BufferOK, CallsOK
<1>5. \A c : ~ InList(c) /\ ~ InList(c)'
  BY <1>1, <1>3, SMTT(40) DEF InList
<1>6. BufferOK'
  <2>1. m_cur_buffer_memusage' = Usage(m_msgs_before_open') /\ Usage(m_msgs_before_open') <= MaxBuffer
    BY <1>1, UsageEmpty, LoggingAssumption, SMTT(40)
  <2>2. /\ Cardinality(discarded') = announced' + 0 /\ announced' \in Nat
        /\ 0 <= Cardinality(discarded')
    BY <1>1, <1>3, SMTT(40) DEF BufferOK
  <2>3. /\ logged' \in 0 .. MaxMsg /\ discarded' \subseteq 1 .. logged' - Len(m_msgs_before_open')
    BY <1>1, <1>4 DEF BufferOK
  <2>4. Len(m_msgs_before_open') = 0 /\ m_msgs_before_open' \in Seq(Line)
    BY <1>1, SMTT(40)
  <2> QED BY <1>1, <2>1, <2>2, <2>3, <2>4, SMTT(40) DEF BufferOK
<1>7. ListOK'
  BY <1>1, <1>3, <1>5, SMTT(40) DEF ListOK
<1>8. PlacesOK'
  <2>2. pc'[t] = "idle" /\ connection'[t] = NoConnection
    BY <1>1, <1>2
  <2>3. PlaceOK(t)'
    BY <1>1, <1>3, <2>2, LoggingAssumption DEF PlaceOK
  <2>4. \A u \in Thread \ {t} : PlaceOK(u)'
    BY <1>1, <1>2, <1>3, QuietFrame
  <2>5. "idle" \in Place /\ connection' \in [Thread -> Connection \cup {NoConnection}]
    BY <1>1, <1>2 DEF Place
  <2>6. m_cs' \in Thread \cup {NoThread} /\ disabled' \in BOOLEAN
    BY <1>1 DEF PlacesOK
  <2> QED BY <1>1, <1>3, <2>3, <2>4, <2>5, <2>6, PlacesTogether
<1>9. CallsOK'
  BY <1>1, <1>4, CallsNone
<1>10. HeardOK'
  BY <1>1, <1>5 DEF HeardOK, HeardInOrder
<1>11. AccountOK'
  BY <1>1, <1>4, AccountSame
<1>12. NobodyOK'
  BY <1>1 DEF NobodyOK
<1> QED BY <1>6, <1>7, <1>8, <1>9, <1>10, <1>11, <1>12

\* DisableLogging, before there is any connection.
LEMMA DisableLoggingStep ==
    ASSUME IInv, NEW t \in Thread, DisableLogging(t)
    PROVE  IInv'
<1> USE DEF IInv
<1>1. /\ ~ disabled /\ pc[t] = "idle" /\ cs_main = NoThread /\ m_cs = NoThread
      /\ m_buffering /\ m_print_callbacks = <<>> /\ disabled' = TRUE
      /\ pc' = [pc EXCEPT ![t] = "StartLogging"]
      /\ connection' = connection /\ cs_main' = cs_main /\ data' = data
      /\ m_buffering' = m_buffering /\ buffer' = buffer /\ m_print_callbacks' = m_print_callbacks
      /\ m_cs' = m_cs /\ calls' = calls
      /\ logged' = logged /\ heard' = heard /\ discarded' = discarded /\ missed' = missed
      /\ announced' = announced
  BY DEF DisableLogging, m_cs_free, Goto, history
<1>2. \A d : InList(d)' <=> InList(d)
  BY <1>1, ListSame
<1>3. pc \in [Thread -> Place] /\ connection \in [Thread -> Connection \cup {NoConnection}]
  BY DEF PlacesOK
<1>6. BufferOK' /\ ListOK'
  BY <1>1, <1>2, BufferSame, SMTT(40) DEF ListOK
<1>8. PlacesOK'
  <2>1. m_cs # t /\ cs_main # t /\ connection[t] = NoConnection
    BY <1>1, LoggingAssumption DEF PlacesOK, PlaceOK
  <2>2. pc'[t] = "StartLogging"
    BY <1>1, <1>3
  <2>3. PlaceOK(t)'
    BY <1>1, <2>1, <2>2, LoggingAssumption DEF PlaceOK
  <2>4. \A u \in Thread \ {t} : PlaceOK(u)' /\ pc'[u] \in {"idle", "callback"}
    BY <1>1, <1>3, QuietFrame
  <2>5. "StartLogging" \in Place /\ \A u \in Thread \ {t} : pc[u] # "StartLogging"
    BY <1>1, <1>3, <2>4 DEF Place
  <2>6. m_cs' \in Thread \cup {NoThread} /\ disabled' \in BOOLEAN
    BY <1>1 DEF PlacesOK
  <2> QED BY <1>1, <1>3, <2>3, <2>4, <2>5, <2>6, PlacesTogether
<1>9. CallsOK'
  BY <1>1, <1>2, CallsSame
<1>10. HeardOK'
  BY <1>1, <1>2 DEF HeardOK, HeardInOrder
<1>11. AccountOK'
  BY <1>1, AccountSame DEF buffer
<1>12. NobodyOK'
  BY <1>1 DEF NobodyOK
<1> QED BY <1>6, <1>8, <1>9, <1>10, <1>11, <1>12

\* DeleteCallback takes a connection out of the list.
LEMMA DeleteCallbackStep ==
    ASSUME IInv, NEW t \in Thread, DeleteCallback(t)
    PROVE  IInv'
<1> USE DEF IInv
<1> DEFINE c == connection[t]
<1>1. /\ pc[t] = "DeleteCallback" /\ m_cs = NoThread
      /\ m_print_callbacks' = Erase(m_print_callbacks, c)
      /\ pc' = [pc EXCEPT ![t] = "deleter"]
      /\ connection' = connection /\ cs_main' = cs_main /\ data' = data
      /\ m_buffering' = m_buffering /\ buffer' = buffer
      /\ m_cs' = m_cs /\ calls' = calls /\ disabled' = disabled
      /\ logged' = logged /\ heard' = heard /\ discarded' = discarded /\ missed' = missed
      /\ announced' = announced
  BY DEF DeleteCallback, m_cs_free, Goto, history
<1>2. pc \in [Thread -> Place] /\ connection \in [Thread -> Connection \cup {NoConnection}]
  BY DEF PlacesOK
<1>3. cs_main = t /\ InList(c) /\ c # NoConnection
  BY <1>1 DEF PlacesOK, PlaceOK
<1>4. ~ disabled /\ calls = <<>>
  BY <1>1, <1>3, LoggingAssumption DEF PlacesOK, CallsOK
<1>5. PICK p \in 1 .. Len(m_print_callbacks) : m_print_callbacks[p] = c
  BY <1>3 DEF InList
<1>6. /\ m_print_callbacks \in Seq(Connection)
      /\ \A i, j \in 1 .. Len(m_print_callbacks) : m_print_callbacks[i] = m_print_callbacks[j] => i = j
  BY DEF ListOK
<1>7. /\ m_print_callbacks' \in Seq(Connection)
      /\ Len(m_print_callbacks') = Len(m_print_callbacks) - 1
      /\ \A i \in 1 .. Len(m_print_callbacks') :
             m_print_callbacks'[i] = IF i < p THEN m_print_callbacks[i] ELSE m_print_callbacks[i + 1]
  <2>1. m_print_callbacks' = Erase(m_print_callbacks, m_print_callbacks[p])
    BY <1>1, <1>5
  <2>2. NoRepeats(m_print_callbacks)
    BY <1>6 DEF NoRepeats
  <2>3. Without(m_print_callbacks', m_print_callbacks, Connection, p)
    BY <1>5, <1>6, <2>1, <2>2, EraseProperties
  <2> QED BY <2>3 DEF Without
<1>8. \A i \in 1 .. Len(m_print_callbacks') :
         \E j \in 1 .. Len(m_print_callbacks) :
             j # p /\ m_print_callbacks'[i] = m_print_callbacks[j] /\ j = IF i < p THEN i ELSE i + 1
  <2> SUFFICES ASSUME NEW i \in 1 .. Len(m_print_callbacks')
               PROVE  \E j \in 1 .. Len(m_print_callbacks) :
             j # p /\ m_print_callbacks'[i] = m_print_callbacks[j] /\ j = IF i < p THEN i ELSE i + 1
    OBVIOUS
  <2>1. CASE i < p
    <3>1. i \in 1 .. Len(m_print_callbacks) /\ i # p /\ m_print_callbacks'[i] = m_print_callbacks[i]
      BY <1>6, <1>7, <2>1, SMTT(40)
    <3> QED BY <2>1, <3>1
  <2>2. CASE ~ (i < p)
    <3>1. i + 1 \in 1 .. Len(m_print_callbacks) /\ i + 1 # p /\ m_print_callbacks'[i] = m_print_callbacks[i + 1]
      BY <1>6, <1>7, <2>2, SMTT(40)
    <3> QED BY <2>2, <3>1
  <2> QED BY <2>1, <2>2
<1>9. \A d : InList(d)' => InList(d) /\ d # c
  <2> SUFFICES ASSUME NEW d, InList(d)' PROVE InList(d) /\ d # c
    OBVIOUS
  <2>1. PICK i \in 1 .. Len(m_print_callbacks') : m_print_callbacks'[i] = d
    BY DEF InList
  <2>2. PICK j \in 1 .. Len(m_print_callbacks) : j # p /\ m_print_callbacks'[i] = m_print_callbacks[j]
    BY <1>8
  <2> QED BY <1>5, <1>6, <2>1, <2>2 DEF InList
<1>10. BufferOK'
  BY <1>1, BufferSame
<1>11. ListOK'
  <2>1. ASSUME NEW i \in 1 .. Len(m_print_callbacks'), NEW k \in 1 .. Len(m_print_callbacks'),
               m_print_callbacks'[i] = m_print_callbacks'[k]
        PROVE  i = k
    <3>1. PICK j \in 1 .. Len(m_print_callbacks) :
              m_print_callbacks'[i] = m_print_callbacks[j] /\ j = IF i < p THEN i ELSE i + 1
      BY <1>8
    <3>2. PICK l \in 1 .. Len(m_print_callbacks) :
              m_print_callbacks'[k] = m_print_callbacks[l] /\ l = IF k < p THEN k ELSE k + 1
      BY <1>8
    <3>3. j = l
      BY <1>6, <2>1, <3>1, <3>2
    <3> QED BY <1>7, <3>1, <3>2, <3>3, SMTT(40)
  <2> QED BY <1>1, <1>7, <1>9, <2>1 DEF ListOK
<1>12. PlacesOK'
  <2>1. m_cs # t
    BY <1>1 DEF PlacesOK, PlaceOK
  <2>2. pc'[t] = "deleter"
    BY <1>1, <1>2
  <2>3. PlaceOK(t)'
    BY <1>1, <1>3, <1>9, <2>1, <2>2 DEF PlaceOK
  <2>4. \A u \in Thread \ {t} : PlaceOK(u)'
    BY <1>1, <1>2, <1>3, QuietFrame
  <2>5. "deleter" \in Place
    BY DEF Place
  <2>6. m_cs' \in Thread \cup {NoThread} /\ disabled' \in BOOLEAN
    BY <1>1 DEF PlacesOK
  <2> QED BY <1>1, <1>2, <1>3, <1>4, <2>3, <2>4, <2>5, <2>6, PlacesTogether
<1>13. CallsOK'
  BY <1>1, <1>4, CallsNone
<1>14. HeardOK'
  BY <1>1, <1>9 DEF HeardOK, HeardInOrder
<1>15. AccountOK'
  BY <1>1, AccountSame DEF buffer
<1>16. NobodyOK'
  <2>1. pc'[t] = "deleter"
    BY <1>1, <1>2
  <2> QED BY <2>1 DEF NobodyOK
<1> QED BY <1>10, <1>11, <1>12, <1>13, <1>14, <1>15, <1>16

\* PushBackCallback puts a connection at the end of the list.
LEMMA PushBackCallbackStep ==
    ASSUME IInv, NEW t \in Thread, PushBackCallback(t)
    PROVE  IInv'
<1> USE DEF IInv
<1> DEFINE c == connection[t]
           n == Len(m_print_callbacks)
<1>1. /\ pc[t] = "PushBackCallback" /\ m_cs = NoThread
      /\ m_print_callbacks' = Append(m_print_callbacks, c) /\ data' = data
      /\ m_buffering' = m_buffering /\ buffer' = buffer
      /\ m_cs' = m_cs /\ calls' = calls /\ disabled' = disabled
      /\ logged' = logged /\ heard' = heard /\ discarded' = discarded /\ missed' = missed
      /\ announced' = announced
      /\ IF Len(m_print_callbacks') = 1
         THEN pc' = [pc EXCEPT ![t] = "StartLogging"] /\ cs_main' = cs_main /\ connection' = connection
         ELSE Return(t)
  BY DEF PushBackCallback, m_cs_free, Goto, history
<1>2. pc \in [Thread -> Place] /\ connection \in [Thread -> Connection \cup {NoConnection}]
  BY DEF PlacesOK
<1>3. /\ cs_main = t /\ ~ InList(c) /\ c # NoConnection /\ c \in Connection
      /\ data[c] = "live" /\ heard[c] = <<>> /\ (m_print_callbacks = <<>> => m_buffering)
  BY <1>1, <1>2 DEF PlacesOK, PlaceOK
<1>4. ~ disabled /\ calls = <<>>
  BY <1>1, <1>3, LoggingAssumption DEF PlacesOK, CallsOK
<1>5. /\ m_print_callbacks \in Seq(Connection) /\ n \in Nat
      /\ \A i, j \in 1 .. n : m_print_callbacks[i] = m_print_callbacks[j] => i = j
  BY SMTT(40) DEF ListOK
<1>6. /\ m_print_callbacks' \in Seq(Connection) /\ Len(m_print_callbacks') = n + 1
      /\ \A i \in 1 .. n : m_print_callbacks'[i] = m_print_callbacks[i]
      /\ m_print_callbacks'[n + 1] = c
  BY <1>1, <1>3, <1>5, SMTT(40)
<1> HIDE DEF n
<1>7. \A d : InList(d)' <=> InList(d) \/ d = c
  <2>1. ASSUME NEW d, InList(d)' PROVE InList(d) \/ d = c
    <3>1. PICK i \in 1 .. n + 1 : m_print_callbacks'[i] = d
      BY <1>6, <2>1 DEF InList
    <3>2. CASE i = n + 1
      BY <1>6, <3>1, <3>2
    <3>3. CASE i # n + 1
      <4>1. i \in 1 .. n
        BY <1>5, <3>3, SMTT(40)
      <4> QED BY <1>6, <3>1, <4>1 DEF InList, n
    <3> QED BY <3>2, <3>3
  <2>2. ASSUME NEW d, InList(d) PROVE InList(d)'
    <3>1. PICK i \in 1 .. n : m_print_callbacks[i] = d
      BY <2>2 DEF InList, n
    <3>2. i \in 1 .. n + 1 /\ m_print_callbacks'[i] = d
      BY <1>5, <1>6, <3>1, SMTT(40)
    <3> QED BY <1>6, <3>2 DEF InList
  <2>3. ASSUME NEW d, d = c PROVE InList(d)'
    <3>1. n + 1 \in 1 .. n + 1
      BY <1>5, SMTT(40)
    <3> QED BY <1>6, <2>3, <3>1 DEF InList
  <2> QED BY <2>1, <2>2, <2>3
<1>8. BufferOK'
  BY <1>1, BufferSame
<1>9. ListOK'
  <2>1. ASSUME NEW i \in 1 .. n + 1, NEW k \in 1 .. n + 1, m_print_callbacks'[i] = m_print_callbacks'[k]
        PROVE  i = k
    <3>1. \A l \in 1 .. n : m_print_callbacks'[l] # c
      BY <1>3, <1>6 DEF InList, n
    <3>2. (i \in 1 .. n \/ i = n + 1) /\ (k \in 1 .. n \/ k = n + 1)
      BY <1>5, SMTT(40)
    <3> QED BY <1>5, <1>6, <2>1, <3>1, <3>2
  <2> QED BY <1>1, <1>3, <1>6, <1>7, <2>1 DEF ListOK
<1>10. ASSUME Len(m_print_callbacks') = 1 PROVE PlacesOK'
  <2>1. /\ pc' = [pc EXCEPT ![t] = "StartLogging"] /\ cs_main' = cs_main /\ connection' = connection
        /\ n = 0 /\ m_print_callbacks = <<>>
    BY <1>1, <1>5, <1>6, <1>10, SMTT(40) DEF n
  <2>2. pc'[t] = "StartLogging" /\ m_cs # t
    BY <1>1, <1>2, <2>1 DEF PlacesOK, PlaceOK
  <2>3. m_print_callbacks' = <<c>> /\ m_buffering
    BY <1>1, <1>3, <2>1, SMTT(40)
  <2>4. PlaceOK(t)'
    BY <1>1, <1>3, <2>1, <2>2, <2>3 DEF PlaceOK
  <2>5. \A u \in Thread \ {t} : PlaceOK(u)' /\ pc'[u] \in {"idle", "callback"}
    BY <1>1, <1>2, <1>3, <2>1, QuietFrame
  <2>6. "StartLogging" \in Place /\ \A u \in Thread \ {t} : pc[u] # "StartLogging"
    BY <1>2, <2>1, <2>5 DEF Place
  <2>7. m_cs' \in Thread \cup {NoThread} /\ disabled' \in BOOLEAN
    BY <1>1 DEF PlacesOK
  <2> QED BY <1>1, <1>2, <1>3, <1>4, <2>1, <2>4, <2>5, <2>6, <2>7, PlacesTogether
<1>11. ASSUME Len(m_print_callbacks') # 1 PROVE PlacesOK'
  <2>1. /\ pc' = [pc EXCEPT ![t] = "idle"] /\ connection' = [connection EXCEPT ![t] = NoConnection]
        /\ cs_main' = NoThread
    BY <1>1, <1>3, <1>11 DEF Return, Goto
  <2>2. pc'[t] = "idle" /\ connection'[t] = NoConnection /\ m_cs # t
    BY <1>1, <1>2, <2>1, LoggingAssumption
  <2>3. PlaceOK(t)'
    BY <1>1, <2>1, <2>2, LoggingAssumption DEF PlaceOK
  <2>4. \A u \in Thread \ {t} : PlaceOK(u)'
    BY <1>1, <1>2, <1>3, <2>1, QuietFrame
  <2>5. "idle" \in Place /\ connection' \in [Thread -> Connection \cup {NoConnection}]
    BY <1>2, <2>1 DEF Place
  <2>6. m_cs' \in Thread \cup {NoThread} /\ disabled' \in BOOLEAN
    BY <1>1 DEF PlacesOK
  <2> QED BY <1>1, <1>4, <2>1, <2>3, <2>4, <2>5, <2>6, PlacesTogether
<1>12. CallsOK'
  BY <1>1, <1>4, CallsNone
<1>13. HeardOK'
  BY <1>1, <1>3, <1>7 DEF HeardOK, HeardInOrder
<1>14. AccountOK'
  BY <1>1, AccountSame DEF buffer
<1>15. NobodyOK'
  BY <1>6, <1>5, SMTT(40) DEF NobodyOK
<1> QED BY <1>8, <1>9, <1>10, <1>11, <1>12, <1>13, <1>14, <1>15

-----------------------------------------------------------------------------
(* StartLogging                                                            *)

\* The buffer is left empty, and its lines and what was discarded are told.
LEMMA StartBuffer ==
    ASSUME SetFacts, BufferOK, m_buffering, m_buffering' = FALSE, m_msgs_before_open' = <<>>,
           m_cur_buffer_memusage' = 0, announced' = announced + m_buffer_lines_discarded,
           UNCHANGED <<m_buffer_lines_discarded, logged, discarded>>
    PROVE  BufferOK'
<1>1. m_cur_buffer_memusage' = Usage(m_msgs_before_open') /\ Usage(m_msgs_before_open') <= MaxBuffer
  BY UsageEmpty, LoggingAssumption, SMTT(40)
<1>2. /\ m_buffer_lines_discarded' \in Nat /\ announced' \in Nat
      /\ m_buffer_lines_discarded' <= Cardinality(discarded')
      /\ Cardinality(discarded') = announced' + 0
  BY SMTT(40) DEF BufferOK
<1>3. Len(m_msgs_before_open') = 0 /\ m_msgs_before_open' \in Seq(Line)
  BY SMTT(40)
<1>4. logged' \in 0 .. MaxMsg /\ discarded' \subseteq 1 .. logged' - Len(m_msgs_before_open')
  <2>1. logged \in 0 .. MaxMsg /\ Len(m_msgs_before_open) \in Nat /\ MaxMsg \in Nat
    BY LoggingAssumption, SMTT(40) DEF BufferOK
  <2>2. discarded \subseteq 1 .. logged - Len(m_msgs_before_open)
    BY DEF BufferOK
  <2> QED BY <1>3, <2>1, <2>2, SMTT(40)
<1>5. /\ m_buffering' \in BOOLEAN /\ (IF m_buffering' THEN m_buffer_lines_discarded' ELSE 0) = 0
      /\ Len(m_msgs_before_open') <= logged'
      /\ \A i \in 1 .. Len(m_msgs_before_open') :
             m_msgs_before_open'[i].msg = logged' - Len(m_msgs_before_open') + i
  <2>1. logged' \in Nat
    BY <1>4, LoggingAssumption, SMTT(40)
  <2>2. 1 .. Len(m_msgs_before_open') = {} /\ Len(m_msgs_before_open') <= logged'
    BY <1>3, <2>1, SMTT(40)
  <2> QED BY <2>2
<1> QED BY <1>1, <1>2, <1>3, <1>4, <1>5 DEF BufferOK

\* StartLogging gives the buffered messages to the connections.
LEMMA StartLoggingStep ==
    ASSUME SetFacts, IInv, NEW t \in Thread, StartLogging(t)
    PROVE  IInv'
<1> USE DEF IInv
<1> DEFINE c == connection[t]
           b == m_msgs_before_open
           ms == BufferedMessages
<1>1. /\ pc[t] = "StartLogging" /\ m_cs = NoThread
      /\ m_buffering' = FALSE /\ m_msgs_before_open' = <<>> /\ m_cur_buffer_memusage' = 0
      /\ CallAll(t, ms) /\ announced' = announced + m_buffer_lines_discarded
      /\ missed' = IF m_print_callbacks = <<>> THEN missed \cup Range(ms) ELSE missed
      /\ m_buffer_lines_discarded' = m_buffer_lines_discarded
      /\ m_print_callbacks' = m_print_callbacks /\ data' = data
      /\ disabled' = disabled /\ logged' = logged /\ heard' = heard /\ discarded' = discarded
  BY DEF StartLogging, UsageAfterStart, m_cs_free
<1>2. \A d : InList(d)' <=> InList(d)
  BY <1>1, ListSame
<1>3. pc \in [Thread -> Place] /\ connection \in [Thread -> Connection \cup {NoConnection}]
  BY DEF PlacesOK
<1>4. /\ m_buffering /\ IF cs_main = t THEN m_print_callbacks = <<c>> ELSE disabled
      /\ cs_main = t <=> c # NoConnection
  BY <1>1 DEF PlacesOK, PlaceOK
<1>5. cs_main # t => cs_main = NoThread /\ m_print_callbacks = <<>>
  BY <1>4 DEF PlacesOK
<1>6. calls = <<>>
  BY <1>1 DEF CallsOK
<1>7. /\ b \in Seq(Line) /\ Len(b) \in Nat /\ logged \in 0 .. MaxMsg
      /\ \A i \in 1 .. Len(b) : b[i].msg = logged - Len(b) + i /\ b[i].msg \in Message
  <2>1. b \in Seq(Line) /\ logged \in 0 .. MaxMsg
        /\ \A i \in 1 .. Len(b) : b[i].msg = logged - Len(b) + i
    BY DEF BufferOK
  <2>2. \A i \in 1 .. Len(b) : b[i] \in Line
    BY <2>1, SMTT(40)
  <2>3. \A i \in 1 .. Len(b) : b[i].msg \in Message
    BY <2>2 DEF Line
  <2>4. Len(b) \in Nat
    BY <2>1, SMTT(40)
  <2> QED BY <2>1, <2>3, <2>4
<1>8. ms \in Seq(Message) /\ Len(ms) = Len(b) /\ \A i \in 1 .. Len(b) : ms[i] = b[i].msg
  <2>1. DOMAIN b = 1 .. Len(b)
    BY <1>7, SMTT(40)
  <2>2. ms \in [1 .. Len(b) -> Message] /\ \A i \in 1 .. Len(b) : ms[i] = b[i].msg
    BY <1>7, <2>1 DEF BufferedMessages
  <2> HIDE DEF ms
  <2>3. ms \in Seq(Message) /\ Len(ms) = Len(b)
    BY <1>7, <2>2, SMTT(40)
  <2> QED BY <2>2, <2>3
<1> HIDE DEF ms
<1>9. BufferOK'
  BY <1>1, <1>4, StartBuffer
<1>10. ListOK'
  BY <1>1, <1>2 DEF ListOK
<1>11. NobodyOK'
  <2>1. CASE cs_main = t
    BY <1>1, <1>4, <2>1, SMTT(40) DEF NobodyOK
  <2>2. CASE cs_main # t
    BY <1>1, <1>4, <2>2 DEF NobodyOK
  <2> QED BY <2>1, <2>2
<1>12. HeardOK'
  <2>1. \A d \in Connection : InList(d) => heard[d] = <<>>
    BY <1>4 DEF ListOK
  <2> QED BY <1>1, <1>2, <2>1 DEF HeardOK, HeardInOrder
<1>13. \A d \in Connection : \A i \in 1 .. Len(heard'[d]) : heard'[d][i] \in 1 .. logged'
  BY <1>1 DEF AccountOK
<1>14. missed' \subseteq 1 .. logged'
  <2>1. ASSUME NEW x \in Range(ms) PROVE x \in 1 .. logged
    <3>1. PICK i \in 1 .. Len(b) : x = ms[i]
      BY <1>7, <1>8, SMTT(40) DEF Range
    <3>2. x = logged - Len(b) + i /\ x \in 1 .. MaxMsg
      BY <1>7, <1>8, <3>1 DEF Message
    <3> QED BY <1>7, <3>2, LoggingAssumption, SMTT(40)
  <2> QED BY <1>1, <2>1 DEF AccountOK
<1>15. CASE ms = <<>> \/ m_print_callbacks = <<>>
  <2>1. /\ pc' = [pc EXCEPT ![t] = "idle"] /\ connection' = [connection EXCEPT ![t] = NoConnection]
        /\ cs_main' = (IF cs_main = t THEN NoThread ELSE cs_main) /\ m_cs' = m_cs /\ calls' = calls
    BY <1>1, <1>15 DEF CallAll, Return, Goto
  <2>2. cs_main' = NoThread
    BY <1>5, <2>1
  <2>3. PlacesOK'
    <3>1. pc'[t] = "idle" /\ connection'[t] = NoConnection /\ m_cs' # t
      BY <1>1, <1>3, <2>1, LoggingAssumption
    <3>2. PlaceOK(t)'
      BY <2>2, <3>1, LoggingAssumption DEF PlaceOK
    <3>3. \A u \in Thread \ {t} : PlaceOK(u)'
      BY <1>1, <1>3, <2>1, <2>2, QuietFrame
    <3>4. "idle" \in Place /\ connection' \in [Thread -> Connection \cup {NoConnection}]
      BY <1>3, <2>1 DEF Place
    <3>5. m_cs' \in Thread \cup {NoThread} /\ disabled' \in BOOLEAN
      BY <1>1, <2>1 DEF PlacesOK
    <3>6. disabled' => m_print_callbacks' = <<>>
      BY <1>1 DEF PlacesOK
    <3> QED BY <2>1, <2>2, <3>2, <3>3, <3>4, <3>5, <3>6, PlacesTogether
  <2>4. CallsOK'
    BY <1>1, <1>6, <2>1, CallsNone
  <2>5. AccountOK'
    <3>1. ASSUME NEW n \in 1 .. logged PROVE Somewhere(n)'
      <4>1. Somewhere(n)
        BY DEF AccountOK
      <4>2. CASE \E i \in 1 .. Len(b) : b[i].msg = n
        <5>1. PICK i \in 1 .. Len(b) : b[i].msg = n
          BY <4>2
        <5>2. Len(ms) # 0 /\ ms[i] = n /\ i \in DOMAIN ms
          BY <1>7, <1>8, <5>1, SMTT(40)
        <5>3. m_print_callbacks = <<>>
          BY <1>15, <5>2, SMTT(40)
        <5>4. n \in missed'
          BY <1>1, <5>2, <5>3 DEF Range
        <5> QED BY <5>4 DEF Somewhere
      <4>3. CASE ~ \E i \in 1 .. Len(b) : b[i].msg = n
        <5>1. \/ \E d \in Connection : \E i \in 1 .. Len(heard'[d]) : heard'[d][i] = n
              \/ \E i \in 1 .. Len(calls') : calls'[i].msg = n
              \/ n \in discarded' \cup missed'
          BY <1>1, <2>1, <4>1, <4>3 DEF Somewhere
        <5> QED BY <5>1 DEF Somewhere
      <4> QED BY <4>2, <4>3
    <3> QED BY <1>1, <1>13, <1>14, <3>1 DEF AccountOK
  <2> QED BY <1>9, <1>10, <1>11, <1>12, <2>3, <2>4, <2>5
<1>16. CASE ~ (ms = <<>> \/ m_print_callbacks = <<>>)
  <2>1. /\ pc' = [pc EXCEPT ![t] = "callback"] /\ calls' = CallsFor(ms) /\ m_cs' = t
        /\ cs_main' = cs_main /\ connection' = connection
    BY <1>1, <1>16 DEF CallAll, Goto
  <2>2. cs_main = t /\ m_print_callbacks = <<c>> /\ c \in Connection
    BY <1>3, <1>4, <1>5, <1>16
  <2>3. m_print_callbacks \in Seq(Connection) /\ Len(m_print_callbacks) = 1 /\ m_print_callbacks[1] = c
    BY <2>2, SMTT(40)
  <2>4. /\ calls' \in Seq(Call) /\ Len(calls') = Len(b)
        /\ \A i \in 1 .. Len(b) : calls'[i].to = c /\ calls'[i].msg = b[i].msg
    BY <1>8, <2>1, <2>3, CallsOfOne
  <2>5. ~ disabled
    BY <2>2, LoggingAssumption DEF PlacesOK
  <2>6. PlacesOK'
    <3>1. pc'[t] = "callback"
      BY <1>3, <2>1
    <3>2. PlaceOK(t)'
      BY <1>4, <2>1, <2>2, <3>1, LoggingAssumption DEF PlaceOK
    <3>3. \A u \in Thread \ {t} : PlaceOK(u)'
      BY <1>1, <1>3, <2>1, <2>2, LoggingAssumption, QuietFrame
    <3>4. "callback" \in Place
      BY DEF Place
    <3>5. disabled' \in BOOLEAN
      BY <1>1 DEF PlacesOK
    <3> QED BY <1>1, <1>3, <2>1, <2>2, <2>5, <3>2, <3>3, <3>4, <3>5, PlacesTogether
  <2>7. CallsOK'
    <3>1. Len(calls') # 0
      BY <1>8, <1>16, <2>4, SMTT(40)
    <3>2. InList(c)
      BY <2>3, SMTT(40) DEF InList
    <3>3. \A i \in 1 .. Len(calls') : InList(calls'[i].to)
      BY <2>4, <3>2
    <3>4. \A i \in 1 .. Len(calls') : InList(calls[i].to)'
      BY <1>1, <3>3 DEF InList
    <3>5. /\ \A i, j \in 1 .. Len(calls') : calls'[i].to = calls'[j].to
          /\ \A i \in 1 .. Len(calls') : calls'[i].msg = logged' - Len(calls') + i
      BY <1>1, <1>7, <2>4
    <3>6. calls' # <<>> /\ m_cs' # NoThread
      BY <2>1, <3>1, LoggingAssumption
    <3> QED BY <1>1, <2>4, <3>4, <3>5, <3>6 DEF CallsOK
  <2>8. AccountOK'
    <3>1. ASSUME NEW n \in 1 .. logged PROVE Somewhere(n)'
      <4>1. Somewhere(n)
        BY DEF AccountOK
      <4>2. CASE \E i \in 1 .. Len(b) : b[i].msg = n
        <5>1. \E i \in 1 .. Len(calls') : calls'[i].msg = n
          BY <2>4, <4>2
        <5> QED BY <5>1 DEF Somewhere
      <4>3. CASE ~ \E i \in 1 .. Len(b) : b[i].msg = n
        <5>1. \/ \E d \in Connection : \E i \in 1 .. Len(heard'[d]) : heard'[d][i] = n
              \/ n \in discarded' \cup missed'
          BY <1>1, <1>6, <4>1, <4>3, SMTT(40) DEF Somewhere
        <5> QED BY <5>1 DEF Somewhere
      <4> QED BY <4>2, <4>3
    <3> QED BY <1>1, <1>13, <1>14, <3>1 DEF AccountOK
  <2> QED BY <1>9, <1>10, <1>11, <1>12, <2>6, <2>7, <2>8
<1> QED BY <1>15, <1>16

-----------------------------------------------------------------------------
(* Logging, and the callbacks                                              *)

\* LogPrintStr buffers a message, or begins to give it to the connections.
LEMMA LogPrintStrStep ==
    ASSUME SetFacts, IInv, NEW t \in Thread, NEW size \in Size, LogPrintStr(t, size)
    PROVE  IInv'
<1> USE DEF IInv
<1>1. /\ pc[t] = "idle" /\ m_cs = NoThread /\ logged < MaxMsg /\ logged' = logged + 1
      /\ m_buffering' = m_buffering /\ m_print_callbacks' = m_print_callbacks /\ data' = data
      /\ disabled' = disabled /\ heard' = heard /\ announced' = announced
  BY DEF LogPrintStr, m_cs_free
<1>2. \A d : InList(d)' <=> InList(d)
  BY <1>1, ListSame
<1>3. pc \in [Thread -> Place] /\ connection \in [Thread -> Connection \cup {NoConnection}]
  BY DEF PlacesOK
<1>4. calls = <<>> /\ cs_main # t /\ connection[t] = NoConnection
  BY <1>1 DEF CallsOK, PlacesOK, PlaceOK
<1>5. logged \in 0 .. MaxMsg /\ MaxMsg \in Nat /\ logged' \in 0 .. MaxMsg /\ logged' \in Message
  BY <1>1, LoggingAssumption, SMTT(40) DEF BufferOK, Message
<1>6. ListOK'
  BY <1>1, <1>2 DEF ListOK
<1>7. /\ 1 .. logged' = 1 .. logged \cup {logged'}
      /\ \A d \in Connection : \A i \in 1 .. Len(heard'[d]) : heard'[d][i] \in 1 .. logged'
  BY <1>1, <1>5, SMTT(40) DEF AccountOK
<1>8. \A n \in 1 .. logged :
         \/ \E d \in Connection : \E i \in 1 .. Len(heard'[d]) : heard'[d][i] = n
         \/ \E i \in 1 .. Len(m_msgs_before_open) : m_msgs_before_open[i].msg = n
         \/ n \in discarded \cup missed
  BY <1>1, <1>4, SMTT(40) DEF AccountOK, Somewhere
<1>9. missed \subseteq 1 .. logged'
  BY <1>7 DEF AccountOK
<1>10. CASE m_buffering
  <2>1. /\ BufferMessage(logged', size) /\ m_cs' = m_cs /\ cs_main' = cs_main /\ calls' = calls
        /\ pc' = pc /\ connection' = connection /\ missed' = missed
    BY <1>10 DEF LogPrintStr, Buffering
  <2>2. /\ BufferOK'
        /\ \A n : (\E i \in 1 .. Len(m_msgs_before_open) : m_msgs_before_open[i].msg = n) \/ n = logged' =>
                  \/ \E i \in 1 .. Len(m_msgs_before_open') : m_msgs_before_open'[i].msg = n
                  \/ n \in discarded'
        /\ discarded \subseteq discarded'
    BY <1>1, <1>10, <2>1, BufferStep
  <2>3. PlacesOK'
    BY <1>1, <1>2, <2>1 DEF PlacesOK, PlaceOK
  <2>4. CallsOK'
    BY <1>1, <1>4, <2>1, CallsNone
  <2>5. HeardOK'
    <3>1. \A d \in Connection : InList(d) => heard[d] = <<>>
      BY <1>10 DEF ListOK
    <3> QED BY <1>1, <1>2, <3>1 DEF HeardOK, HeardInOrder
  <2>6. AccountOK'
    <3>1. ASSUME NEW n \in 1 .. logged' PROVE Somewhere(n)'
      <4>1. \/ \E d \in Connection : \E i \in 1 .. Len(heard'[d]) : heard'[d][i] = n
            \/ \E i \in 1 .. Len(m_msgs_before_open') : m_msgs_before_open'[i].msg = n
            \/ n \in discarded' \cup missed'
        BY <1>7, <1>8, <2>1, <2>2
      <4> QED BY <4>1 DEF Somewhere
    <3> QED BY <1>7, <1>9, <2>1, <3>1 DEF AccountOK
  <2>7. NobodyOK'
    BY <1>1, <1>10 DEF NobodyOK
  <2> QED BY <1>6, <2>2, <2>3, <2>4, <2>5, <2>6, <2>7
<1>11. CASE ~ m_buffering
  <2>1. /\ CallAll(t, <<logged'>>)
        /\ missed' = IF m_print_callbacks = <<>> THEN missed \cup {logged'} ELSE missed
        /\ m_msgs_before_open' = m_msgs_before_open /\ m_cur_buffer_memusage' = m_cur_buffer_memusage
        /\ m_buffer_lines_discarded' = m_buffer_lines_discarded /\ discarded' = discarded
    BY <1>11 DEF LogPrintStr, Buffering, buffer
  <2>2. m_msgs_before_open = <<>>
    BY <1>11 DEF BufferOK
  <2>3. BufferOK'
    <3>1. /\ discarded' \subseteq 1 .. logged' /\ Len(m_msgs_before_open') = 0
      BY <1>1, <1>5, <2>1, <2>2, SMTT(40) DEF BufferOK
    <3>2. 0 <= logged' /\ logged' - 0 = logged'
      <4>1. logged' \in Nat
        BY <1>5, SMTT(40)
      <4>2. \A n \in Nat : 0 <= n /\ n - 0 = n
        BY SMTT(40)
      <4> QED BY <4>1, <4>2
    <3> QED BY <1>1, <1>5, <1>11, <2>1, <2>2, <3>1, <3>2, SMTT(40) DEF BufferOK
  <2>4. missed' \subseteq 1 .. logged'
    BY <1>7, <1>9, <2>1
  <2>5. CASE m_print_callbacks = <<>>
    <3>1. /\ pc' = [pc EXCEPT ![t] = "idle"] /\ connection' = [connection EXCEPT ![t] = NoConnection]
          /\ cs_main' = cs_main /\ m_cs' = m_cs /\ calls' = calls
      BY <1>4, <2>1, <2>5 DEF CallAll, Return, Goto
    <3>2. pc' = pc /\ connection' = connection /\ cs_main' = cs_main /\ m_cs' = m_cs
      BY <1>1, <1>3, <1>4, <3>1
    <3>3. PlacesOK'
      BY <1>1, <1>2, <3>2 DEF PlacesOK, PlaceOK
    <3>4. CallsOK'
      BY <1>1, <1>4, <3>1, CallsNone
    <3>5. HeardOK'
      <4>1. \A d : ~ InList(d)
        BY <2>5, SMTT(40) DEF InList
      <4> QED BY <1>1, <1>2, <4>1 DEF HeardOK, HeardInOrder
    <3>6. AccountOK'
      <4>1. ASSUME NEW n \in 1 .. logged' PROVE Somewhere(n)'
        <5>1. \/ \E d \in Connection : \E i \in 1 .. Len(heard'[d]) : heard'[d][i] = n
              \/ \E i \in 1 .. Len(m_msgs_before_open') : m_msgs_before_open'[i].msg = n
              \/ n \in discarded' \cup missed'
          BY <1>7, <1>8, <2>1, <2>5
        <5> QED BY <5>1 DEF Somewhere
      <4> QED BY <1>7, <2>4, <4>1 DEF AccountOK
    <3>7. NobodyOK'
      BY <1>1, <3>2 DEF NobodyOK
    <3> QED BY <1>6, <2>3, <3>3, <3>4, <3>5, <3>6, <3>7
  <2>6. CASE m_print_callbacks # <<>>
    <3>1. /\ pc' = [pc EXCEPT ![t] = "callback"] /\ calls' = CallsFor(<<logged'>>) /\ m_cs' = t
          /\ cs_main' = cs_main /\ connection' = connection
      BY <2>1, <2>6 DEF CallAll, Goto
    <3>2. /\ m_print_callbacks \in Seq(Connection)
          /\ \A i, j \in 1 .. Len(m_print_callbacks) : m_print_callbacks[i] = m_print_callbacks[j] => i = j
      BY DEF ListOK
    <3>3. /\ calls' \in Seq(Call) /\ Len(calls') = Len(m_print_callbacks)
          /\ \A i \in 1 .. Len(m_print_callbacks) :
                 calls'[i].to = m_print_callbacks[i] /\ calls'[i].msg = logged'
      BY <1>5, <2>6, <3>1, <3>2, CallsWithOne
    <3>4. PlacesOK'
      <4>1. pc'[t] = "callback"
        BY <1>3, <3>1
      <4>2. PlaceOK(t)'
        BY <1>4, <3>1, <4>1, LoggingAssumption DEF PlaceOK
      <4>3. \A u \in Thread \ {t} : PlaceOK(u)'
        BY <1>1, <1>3, <3>1, LoggingAssumption, SameFrame
      <4>4. "callback" \in Place
        BY DEF Place
      <4>5. /\ disabled' \in BOOLEAN /\ cs_main' \in Thread \cup {NoThread}
            /\ (disabled' => m_print_callbacks' = <<>> /\ cs_main' = NoThread)
        BY <1>1, <3>1 DEF PlacesOK
      <4> QED BY <1>1, <1>3, <3>1, <4>2, <4>3, <4>4, <4>5, PlacesTogether
    <3>5. CallsOK'
      <4>1. \A i \in 1 .. Len(calls') : InList(calls[i].to)'
        BY <1>1, <3>3 DEF InList
      <4>2. /\ \A i \in 1 .. Len(calls') : calls'[i].msg = logged'
            /\ \A i, j \in 1 .. Len(calls') : calls'[i].to = calls'[j].to => i = j
        BY <3>2, <3>3, SMTT(40)
      <4>3. calls' # <<>> /\ m_cs' # NoThread
        BY <2>6, <3>1, <3>2, <3>3, LoggingAssumption, SMTT(40)
      <4> QED BY <1>1, <1>11, <3>3, <4>1, <4>2, <4>3 DEF CallsOK
    <3>6. HeardOK'
      <4>1. ASSUME NEW d \in Connection, InList(d), heard[d] # <<>>
            PROVE  heard[d][Len(heard[d])] = logged' - 1 /\ \E i \in 1 .. Len(calls') : calls'[i].to = d
        <5>1. heard[d][Len(heard[d])] = logged
          <6>1. calls = <<>> /\ ~ m_buffering
            BY <1>4, <1>11
          <6> QED BY <4>1, <6>1, SMTT(40) DEF HeardOK
        <5>2. logged' - 1 = logged
          BY <1>1, <1>5, SMTT(40)
        <5> QED BY <3>3, <4>1, <5>1, <5>2 DEF InList
      <4> QED BY <1>1, <1>2, <3>3, <4>1 DEF HeardOK, HeardInOrder
    <3>7. AccountOK'
      <4>1. ASSUME NEW n \in 1 .. logged' PROVE Somewhere(n)'
        <5>1. CASE n = logged'
          <6>1. 1 \in 1 .. Len(calls') /\ calls'[1].msg = n
            BY <2>6, <3>2, <3>3, <5>1, SMTT(40)
          <6> QED BY <6>1 DEF Somewhere
        <5>2. CASE n \in 1 .. logged
          <6>1. \/ \E d \in Connection : \E i \in 1 .. Len(heard'[d]) : heard'[d][i] = n
                \/ n \in discarded' \cup missed'
            BY <1>8, <2>1, <2>2, <2>6, <5>2, SMTT(40)
          <6> QED BY <6>1 DEF Somewhere
        <5> QED BY <1>7, <5>1, <5>2
      <4> QED BY <1>7, <2>4, <4>1 DEF AccountOK
    <3>8. NobodyOK'
      BY <1>1, <2>6 DEF NobodyOK
    <3> QED BY <1>6, <2>3, <3>4, <3>5, <3>6, <3>7, <3>8
  <2> QED BY <2>5, <2>6
<1> QED BY <1>10, <1>11

\* A connection is called with a message.
LEMMA CallbackStep ==
    ASSUME IInv, NEW t \in Thread, Callback(t)
    PROVE  IInv'
<1> USE DEF IInv
<1> DEFINE c == calls[1].to
           m == calls[1].msg
           n == Len(calls)
<1>1. pc[t] = "callback" /\ m_cs = t /\ calls # <<>> /\ ~ m_buffering
  BY LoggingAssumption, SMTT(40) DEF Callback, PlacesOK, PlaceOK, CallsOK
<1>2. /\ calls \in Seq(Call) /\ n \in Nat \ {0} /\ Head(calls) = calls[1]
      /\ 1 \in 1 .. n /\ \A i \in 1 .. n : calls[i] \in Call
  BY <1>1, SMTT(40) DEF CallsOK
<1>3. c \in Connection /\ m \in Message
  BY <1>2 DEF Call
<1>4. /\ heard' = [heard EXCEPT ![c] = Append(@, m)] /\ calls' = Tail(calls)
      /\ m_buffering' = m_buffering /\ buffer' = buffer /\ m_print_callbacks' = m_print_callbacks
      /\ data' = data /\ disabled' = disabled /\ logged' = logged /\ discarded' = discarded
      /\ missed' = missed /\ announced' = announced
      /\ IF calls' # <<>>
         THEN m_cs' = m_cs /\ pc' = pc /\ cs_main' = cs_main /\ connection' = connection
         ELSE m_cs' = NoThread /\ Return(t)
  BY <1>2 DEF Callback
<1>5. /\ calls' \in Seq(Call) /\ Len(calls') = n - 1
      /\ \A i \in 1 .. n - 1 : calls'[i] = calls[i + 1] /\ i + 1 \in 1 .. n
  BY <1>1, <1>2, <1>4, SMTT(40)
<1>6. \A d : InList(d)' <=> InList(d)
  BY <1>4, ListSame
<1>7. InList(c) /\ data[c] = "live"
  BY <1>2, <1>3 DEF CallsOK, ListOK
<1>8. /\ heard \in [Connection -> Seq(Nat)]
      /\ heard'[c] = Append(heard[c], m) /\ \A d \in Connection \ {c} : heard'[d] = heard[d]
      /\ heard' \in [Connection -> Seq(Nat)]
  <2>1. heard \in [Connection -> Seq(Nat)] /\ heard[c] \in Seq(Nat) /\ m \in Nat
    BY <1>3, SMTT(40) DEF ListOK, Message
  <2>2. Append(heard[c], m) \in Seq(Nat)
    BY <2>1, SMTT(40)
  <2> HIDE DEF c, m
  <2> QED BY <1>3, <1>4, <2>1, <2>2
<1>9. /\ Len(heard'[c]) = Len(heard[c]) + 1 /\ heard'[c][Len(heard[c]) + 1] = m
      /\ Len(heard[c]) \in Nat /\ \A i \in 1 .. Len(heard[c]) : heard'[c][i] = heard[c][i]
  <2>1. heard[c] \in Seq(Nat) /\ m \in Nat
    BY <1>3, <1>8, SMTT(40) DEF Message
  <2> HIDE DEF c, m
  <2> QED BY <1>8, <2>1, SMTT(40)
<1>10. /\ pc \in [Thread -> Place] /\ connection \in [Thread -> Connection \cup {NoConnection}]
       /\ cs_main = t <=> connection[t] # NoConnection
  BY DEF PlacesOK, PlaceOK
<1>11. BufferOK'
  BY <1>4, BufferSame
<1>12. ListOK'
  <2>1. \A d \in Connection : data[d] = "none" => d # c
    BY <1>7
  <2> HIDE DEF c, m
  <2> QED BY <1>1, <1>4, <1>6, <1>8, <2>1 DEF ListOK
<1>13. NobodyOK'
  BY <1>4, <1>7, SMTT(40) DEF NobodyOK, InList
<1>14. \A d \in Connection : ~ InList(d) => heard'[d] = heard[d]
  BY <1>7, <1>8
<1>15. PlacesOK'
  <2>1. /\ disabled' \in BOOLEAN
        /\ (disabled => m_print_callbacks = <<>> /\ cs_main = NoThread)
        /\ cs_main \in Thread \cup {NoThread}
    BY <1>4 DEF PlacesOK
  <2>2. CASE calls' # <<>>
    <3>1. m_cs' = m_cs /\ pc' = pc /\ cs_main' = cs_main /\ connection' = connection
      BY <1>4, <2>2
    <3>2. PlaceOK(t)'
      BY <1>1, <1>10, <3>1 DEF PlaceOK
    <3>3. \A u \in Thread \ {t} : PlaceOK(u)'
      BY <1>4, <1>14, <3>1, SameFrame
    <3>4. "callback" \in Place /\ pc' = [pc EXCEPT ![t] = "callback"]
      BY <1>1, <1>10, <3>1 DEF Place
    <3> QED BY <1>1, <1>4, <1>10, <2>1, <3>1, <3>2, <3>3, <3>4, PlacesTogether
  <2>3. CASE calls' = <<>>
    <3>1. /\ m_cs' = NoThread /\ pc' = [pc EXCEPT ![t] = "idle"]
          /\ connection' = [connection EXCEPT ![t] = NoConnection]
          /\ cs_main' = IF cs_main = t THEN NoThread ELSE cs_main
      BY <1>4, <2>3 DEF Return, Goto
    <3>2. pc'[t] = "idle" /\ connection'[t] = NoConnection /\ cs_main' # t
      BY <1>10, <3>1, LoggingAssumption
    <3>3. PlaceOK(t)'
      BY <3>1, <3>2, LoggingAssumption DEF PlaceOK
    <3>4. \A u \in Thread \ {t} : PlaceOK(u)'
      <4>1. \A u \in Thread \ {t} :
               /\ pc'[u] = pc[u] /\ connection'[u] = connection[u]
               /\ cs_main' = u <=> cs_main = u
               /\ m_cs' = u <=> m_cs = u
        BY <1>1, <1>10, <3>1, LoggingAssumption, SMTT(40)
      <4> QED BY <1>4, <1>14, <4>1, SameFrame
    <3>5. "idle" \in Place /\ connection' \in [Thread -> Connection \cup {NoConnection}]
      BY <1>10, <3>1 DEF Place
    <3>6. cs_main' \in Thread \cup {NoThread} /\ (disabled' => m_print_callbacks' = <<>> /\ cs_main' = NoThread)
      BY <1>4, <2>1, <3>1
    <3> QED BY <2>1, <3>1, <3>3, <3>4, <3>5, <3>6, PlacesTogether
  <2> QED BY <2>2, <2>3
<1>16. \/ /\ \A i \in 1 .. n : calls[i].msg = logged
          /\ \A i, j \in 1 .. n : calls[i].to = calls[j].to => i = j
       \/ /\ \A i, j \in 1 .. n : calls[i].to = calls[j].to
          /\ \A i \in 1 .. n : calls[i].msg = logged - n + i
  BY DEF CallsOK
<1>17. logged \in Nat
  BY LoggingAssumption, SMTT(40) DEF BufferOK
<1>18. CallsOK'
  <2>0. \A i \in 1 .. n - 1 :
            i + 1 \in 1 .. n /\ calls'[i].to = calls[i + 1].to /\ calls'[i].msg = calls[i + 1].msg
    BY <1>5
  <2>1. \A i \in 1 .. n - 1 : InList(calls[i].to)'
    <3> SUFFICES ASSUME NEW i \in 1 .. n - 1 PROVE InList(calls[i].to)'
      OBVIOUS
    <3>1. InList(calls[i + 1].to)
      BY <2>0 DEF CallsOK
    <3> QED BY <1>4, <2>0, <3>1 DEF InList
  <2>2. calls' = <<>> <=> m_cs' = NoThread
    BY <1>1, <1>4, LoggingAssumption
  <2>3. \/ /\ \A i \in 1 .. n - 1 : calls'[i].msg = logged
           /\ \A i, j \in 1 .. n - 1 : calls'[i].to = calls'[j].to => i = j
        \/ /\ \A i, j \in 1 .. n - 1 : calls'[i].to = calls'[j].to
           /\ \A i \in 1 .. n - 1 : calls'[i].msg = logged - (n - 1) + i
    <3>1. CASE /\ \A i \in 1 .. n : calls[i].msg = logged
               /\ \A i, j \in 1 .. n : calls[i].to = calls[j].to => i = j
      <4>1. ASSUME NEW i \in 1 .. n - 1, NEW j \in 1 .. n - 1, calls'[i].to = calls'[j].to PROVE i = j
        <5>1. i + 1 \in 1 .. n /\ j + 1 \in 1 .. n /\ calls[i + 1].to = calls[j + 1].to
          BY <2>0, <4>1
        <5>2. i + 1 = j + 1
          BY <3>1, <5>1
        <5> HIDE DEF n
        <5> QED BY <1>2, <5>2, SMTT(40)
      <4>2. \A i \in 1 .. n - 1 : calls'[i].msg = logged
        BY <2>0, <3>1
      <4> QED BY <4>1, <4>2
    <3>2. CASE /\ \A i, j \in 1 .. n : calls[i].to = calls[j].to
               /\ \A i \in 1 .. n : calls[i].msg = logged - n + i
      <4>1. \A i \in 1 .. n - 1 : logged - n + (i + 1) = logged - (n - 1) + i
        BY <1>2, <1>17, SMTT(40)
      <4>2. \A i \in 1 .. n - 1 : calls'[i].msg = logged - n + (i + 1)
        BY <2>0, <3>2
      <4>3. \A i, j \in 1 .. n - 1 : calls'[i].to = calls'[j].to
        BY <2>0, <3>2, SMTT(40)
      <4>4. \A i \in 1 .. n - 1 : calls'[i].msg = logged - (n - 1) + i
        BY <4>1, <4>2
      <4> QED BY <4>3, <4>4
    <3> QED BY <1>16, <3>1, <3>2
  <2>4. calls' \in Seq(Call) /\ Len(calls') = n - 1 /\ ~ m_buffering' /\ logged' = logged
    BY <1>1, <1>4, <1>5
  <2> HIDE DEF n
  <2>5. \/ /\ \A i \in 1 .. Len(calls') : calls'[i].msg = logged'
           /\ \A i, j \in 1 .. Len(calls') : calls'[i].to = calls'[j].to => i = j
        \/ /\ \A i, j \in 1 .. Len(calls') : calls'[i].to = calls'[j].to
           /\ \A i \in 1 .. Len(calls') : calls'[i].msg = logged' - Len(calls') + i
    BY <2>3, <2>4
  <2>6. \A i \in 1 .. Len(calls') : InList(calls[i].to)'
    BY <2>1, <2>4
  <2> QED BY <2>2, <2>4, <2>5, <2>6 DEF CallsOK
<1>19. m \in 1 .. logged
  <2>1. m = logged \/ m = logged - n + 1
    BY <1>2, <1>16
  <2> HIDE DEF m
  <2> QED BY <1>2, <1>3, <1>17, <2>1, LoggingAssumption, SMTT(40) DEF Message
<1>20. heard[c] # <<>> => heard[c][Len(heard[c])] = m - 1
  BY <1>2, <1>3, <1>7, SMTT(40) DEF HeardOK
<1>21. HeardInOrder'
  <2> SUFFICES ASSUME NEW d \in Connection, NEW i \in 1 .. Len(heard'[d]) - 1
               PROVE  heard'[d][i + 1] = heard'[d][i] + 1
    BY DEF HeardInOrder
  <2>1. CASE d # c
    BY <1>8, <2>1 DEF HeardOK, HeardInOrder
  <2>2. CASE d = c
    <3>1. i \in 1 .. Len(heard[c])
      BY <1>9, <2>2, SMTT(40)
    <3>2. CASE i = Len(heard[c])
      <4>1. heard[c] # <<>>
        BY <1>9, <3>1, <3>2, SMTT(40)
      <4>2. heard'[c][i] = m - 1 /\ heard'[c][i + 1] = m
        BY <1>9, <1>20, <3>1, <3>2, <4>1
      <4>3. m \in Nat
        BY <1>19, SMTT(40)
      <4> HIDE DEF c, m
      <4> QED BY <2>2, <4>2, <4>3, SMTT(40)
    <3>3. CASE i # Len(heard[c])
      <4>1. i \in 1 .. Len(heard[c]) - 1 /\ i + 1 \in 1 .. Len(heard[c])
        BY <1>9, <3>1, <3>3, SMTT(40)
      <4>2. heard[c][i + 1] = heard[c][i] + 1
        BY <1>3, <4>1 DEF HeardOK, HeardInOrder
      <4> HIDE DEF c, m
      <4> QED BY <1>9, <2>2, <3>1, <4>1, <4>2
    <3> QED BY <3>2, <3>3
  <2> QED BY <2>1, <2>2
<1>22. HeardOK'
  <2>1. ASSUME NEW d \in Connection, InList(d), heard'[d] # <<>>,
               \A i \in 1 .. n - 1 : calls'[i].to # d
        PROVE  heard'[d][Len(heard'[d])] = logged
    <3>1. CASE d # c
      <4>1. ASSUME NEW i \in 1 .. n PROVE calls[i].to # d
        <5>1. CASE i = 1
          BY <3>1, <5>1
        <5>2. CASE i # 1
          <6>1. i - 1 \in 1 .. n - 1 /\ (i - 1) + 1 = i
            BY <1>2, <5>2, SMTT(40)
          <6>2. calls'[i - 1] = calls[i]
            BY <1>5, <6>1
          <6> QED BY <2>1, <6>1, <6>2
        <5> QED BY <5>1, <5>2
      <4>2. heard'[d] = heard[d]
        BY <1>8, <3>1
      <4> QED BY <2>1, <4>1, <4>2 DEF HeardOK
    <3>2. CASE d = c
      <4>1. heard'[d][Len(heard'[d])] = m
        BY <1>9, <3>2
      <4>2. m = logged
        <5>1. CASE \A i \in 1 .. n : calls[i].msg = logged
          BY <1>2, <5>1
        <5>2. CASE /\ \A i, j \in 1 .. n : calls[i].to = calls[j].to
                   /\ \A i \in 1 .. n : calls[i].msg = logged - n + i
          <6>1. n = 1
            <7> SUFFICES ASSUME n # 1 PROVE FALSE
              OBVIOUS
            <7>1. 1 \in 1 .. n - 1
              <8> HIDE DEF n
              <8> QED BY <1>2, SMTT(40)
            <7>2. calls'[1].to = calls[1 + 1].to /\ 1 + 1 \in 1 .. n
              BY <1>5, <7>1
            <7> QED BY <1>2, <2>1, <3>2, <5>2, <7>1, <7>2
          <6>2. m = logged - n + 1
            BY <1>2, <5>2
          <6> HIDE DEF m, n
          <6> QED BY <1>17, <6>1, <6>2, SMTT(40)
        <5> QED BY <1>16, <5>1, <5>2
      <4> QED BY <4>1, <4>2
    <3> QED BY <3>1, <3>2
  <2>2. ASSUME NEW d \in Connection, InList(d), heard'[d] # <<>>, NEW i \in 1 .. n - 1,
               calls'[i].to = d, \A j \in 1 .. i - 1 : calls'[j].to # d
        PROVE  heard'[d][Len(heard'[d])] = calls'[i].msg - 1
    <3>1. calls[i + 1].to = d /\ i + 1 \in 1 .. n /\ calls'[i].msg = calls[i + 1].msg
      BY <1>5, <2>2
    <3>2. CASE d # c
      <4>1. ASSUME NEW j \in 1 .. (i + 1) - 1 PROVE calls[j].to # d
        <5>1. CASE j = 1
          BY <3>2, <5>1
        <5>2. CASE j # 1
          <6>1. j - 1 \in 1 .. i - 1 /\ j - 1 \in 1 .. n - 1 /\ (j - 1) + 1 = j
            BY <1>2, <5>2, SMTT(40)
          <6>2. calls'[j - 1] = calls[j]
            BY <1>5, <6>1
          <6> QED BY <2>2, <6>1, <6>2
        <5> QED BY <5>1, <5>2
      <4>2. heard'[d] = heard[d]
        BY <1>8, <3>2
      <4>3. heard[d][Len(heard[d])] = calls[i + 1].msg - 1
        BY <2>2, <3>1, <4>1, <4>2 DEF HeardOK
      <4> QED BY <3>1, <4>2, <4>3
    <3>3. CASE d = c
      <4>1. heard'[d][Len(heard'[d])] = m
        BY <1>9, <3>3
      <4>2. calls[i + 1].to = calls[1].to /\ i + 1 # 1
        BY <1>2, <3>1, <3>3, SMTT(40)
      <4>3. /\ \A j, k \in 1 .. n : calls[j].to = calls[k].to
            /\ \A j \in 1 .. n : calls[j].msg = logged - n + j
        BY <1>2, <1>16, <3>1, <4>2
      <4>4. i = 1
        <5> SUFFICES ASSUME i # 1 PROVE FALSE
          OBVIOUS
        <5>1. 1 \in 1 .. i - 1 /\ 1 \in 1 .. n - 1 /\ 1 + 1 \in 1 .. n
          BY <1>2, SMTT(40)
        <5>2. calls'[1].to = calls[1 + 1].to
          BY <1>5, <5>1
        <5> QED BY <2>2, <3>1, <4>3, <5>1, <5>2
      <4>5. m = logged - n + 1 /\ calls'[i].msg = logged - n + (1 + 1)
        BY <1>2, <3>1, <4>3, <4>4
      <4> HIDE DEF m, n
      <4> QED BY <1>2, <1>17, <4>1, <4>5, SMTT(40)
    <3> QED BY <3>2, <3>3
  <2>3. Len(calls') = n - 1 /\ logged' = logged
    BY <1>4, <1>5
  <2> HIDE DEF n
  <2>4. ASSUME NEW d \in Connection, InList(d)', heard'[d] # <<>>
        PROVE  /\ (\A i \in 1 .. Len(calls') : calls'[i].to # d) => heard'[d][Len(heard'[d])] = logged'
               /\ \A i \in 1 .. Len(calls') :
                      calls'[i].to = d /\ (\A j \in 1 .. i - 1 : calls'[j].to # d) =>
                          heard'[d][Len(heard'[d])] = calls'[i].msg - 1
    BY <1>6, <2>1, <2>2, <2>3, <2>4
  <2> QED BY <1>21, <2>4 DEF HeardOK
<1>23. AccountOK'
  <2>1. ASSUME NEW d \in Connection, NEW i \in 1 .. Len(heard'[d]) PROVE heard'[d][i] \in 1 .. logged
    <3>1. CASE d # c
      BY <1>8, <3>1 DEF AccountOK
    <3>2. CASE d = c
      <4>1. i \in 1 .. Len(heard[c]) \/ i = Len(heard[c]) + 1
        BY <1>9, <3>2, SMTT(40)
      <4> QED BY <1>3, <1>9, <1>19, <3>2, <4>1 DEF AccountOK
    <3> QED BY <3>1, <3>2
  <2>2. ASSUME NEW x \in 1 .. logged PROVE Somewhere(x)'
    <3>1. Somewhere(x)
      BY DEF AccountOK
    <3>2. CASE \E d \in Connection : \E i \in 1 .. Len(heard[d]) : heard[d][i] = x
      <4>1. PICK d \in Connection : \E i \in 1 .. Len(heard[d]) : heard[d][i] = x
        BY <3>2
      <4>2. PICK i \in 1 .. Len(heard[d]) : heard[d][i] = x
        BY <4>1
      <4>3. i \in 1 .. Len(heard'[d]) /\ heard'[d][i] = x
        <5>1. CASE d # c
          BY <1>8, <4>2, <5>1
        <5>2. CASE d = c
          <6>1. i \in 1 .. Len(heard[c]) + 1
            BY <1>9, <5>2, SMTT(40)
          <6> QED BY <1>9, <4>2, <5>2, <6>1
        <5> QED BY <5>1, <5>2
      <4> QED BY <4>3 DEF Somewhere
    <3>3. CASE \E i \in 1 .. Len(m_msgs_before_open) : m_msgs_before_open[i].msg = x
      BY <1>4, <3>3 DEF Somewhere, buffer
    <3>4. CASE \E i \in 1 .. n : calls[i].msg = x
      <4>1. PICK i \in 1 .. n : calls[i].msg = x
        BY <3>4
      <4>2. CASE i = 1
        <5>1. Len(heard[c]) + 1 \in 1 .. Len(heard'[c]) /\ heard'[c][Len(heard[c]) + 1] = x
          BY <1>9, <4>1, <4>2, SMTT(40)
        <5>2. \E d \in Connection : \E k \in 1 .. Len(heard'[d]) : heard'[d][k] = x
          BY <1>3, <5>1
        <5> QED BY <5>2 DEF Somewhere
      <4>3. CASE i # 1
        <5>1. i - 1 \in 1 .. n - 1 /\ (i - 1) + 1 = i
          BY <1>2, <4>3, SMTT(40)
        <5>2. calls'[i - 1].msg = x /\ i - 1 \in 1 .. Len(calls')
          BY <1>5, <4>1, <5>1
        <5> QED BY <5>2 DEF Somewhere
      <4> QED BY <4>2, <4>3
    <3>5. CASE x \in discarded \cup missed
      BY <1>4, <3>5 DEF Somewhere
    <3> QED BY <3>1, <3>2, <3>3, <3>4, <3>5 DEF Somewhere
  <2>3. missed' \subseteq 1 .. logged' /\ logged' = logged
    BY <1>4 DEF AccountOK
  <2> QED BY <2>1, <2>2, <2>3 DEF AccountOK
<1> QED BY <1>11, <1>12, <1>13, <1>15, <1>18, <1>22, <1>23

-----------------------------------------------------------------------------
(* The invariant, and what follows from it                                 *)

\* The invariant holds at first.
LEMMA InitIInv ==
    ASSUME SetFacts
    PROVE  Init => IInv
<1> SUFFICES ASSUME Init PROVE IInv
  OBVIOUS
<1> USE DEF Init
<1>1. BufferOK
  <2>1. Usage(m_msgs_before_open) = 0 /\ Cardinality(discarded) = 0
    BY UsageEmpty DEF SetFacts, FiniteEmpty
  <2>2. 1 .. Len(m_msgs_before_open) = {} /\ m_msgs_before_open \in Seq(Line) /\ Len(m_msgs_before_open) = 0
    BY SMTT(40)
  <2> QED BY <2>1, <2>2, LoggingAssumption, SMTT(40) DEF BufferOK
<1>2. \A c : ~ InList(c)
  BY SMTT(40) DEF InList
<1>3. ListOK
  BY <1>2, SMTT(40) DEF ListOK
<1>4. PlacesOK
  BY <1>2, LoggingAssumption DEF PlacesOK, PlaceOK, Place
<1>5. CallsOK
  BY SMTT(40) DEF CallsOK
<1>6. HeardOK
  BY <1>2, SMTT(40) DEF HeardOK, HeardInOrder
<1>7. AccountOK /\ NobodyOK
  BY SMTT(40) DEF AccountOK, NobodyOK
<1> QED BY <1>1, <1>3, <1>4, <1>5, <1>6, <1>7 DEF IInv

\* What changes nothing keeps the invariant.
LEMMA StutterIInv == IInv /\ UNCHANGED vars => IInv'
<1> SUFFICES ASSUME IInv, UNCHANGED vars PROVE IInv'
  OBVIOUS
<1>1. /\ m_buffering' = m_buffering /\ buffer' = buffer /\ m_print_callbacks' = m_print_callbacks
      /\ m_cs' = m_cs /\ cs_main' = cs_main /\ calls' = calls /\ pc' = pc /\ connection' = connection
      /\ data' = data /\ disabled' = disabled
      /\ logged' = logged /\ heard' = heard /\ discarded' = discarded /\ missed' = missed
      /\ announced' = announced
  BY DEF vars, history
<1>2. \A d : InList(d)' <=> InList(d)
  BY <1>1, ListSame
<1>3. BufferOK'
  BY <1>1, BufferSame DEF IInv
<1>4. ListOK'
  BY <1>1, <1>2 DEF IInv, ListOK
<1>5. PlacesOK'
  BY <1>1, <1>2 DEF IInv, PlacesOK, PlaceOK
<1>6. CallsOK'
  BY <1>1, <1>2, SMTT(40) DEF IInv, CallsOK
<1>7. HeardOK'
  BY <1>1, <1>2 DEF IInv, HeardOK, HeardInOrder
<1>8. AccountOK'
  BY <1>1, AccountSame DEF IInv, buffer
<1>9. NobodyOK'
  BY <1>1 DEF IInv, NobodyOK
<1> QED BY <1>3, <1>4, <1>5, <1>6, <1>7, <1>8, <1>9 DEF IInv

\* Every step keeps the invariant.
LEMMA NextIInv ==
    ASSUME SetFacts
    PROVE  IInv /\ [Next]_vars => IInv'
<1> SUFFICES ASSUME IInv, [Next]_vars PROVE IInv'
  OBVIOUS
<1>1. ASSUME NEW t \in Thread, NEW size \in Size, LogPrintStr(t, size) PROVE IInv'
  BY <1>1, LogPrintStrStep
<1>2. ASSUME NEW t \in Thread, NEW c \in Connection, Connect(t, c) \/ Destroy(t, c) PROVE IInv'
  BY <1>2, ConnectStep, DestroyStep
<1>3. ASSUME NEW t \in Thread, DisableLogging(t) PROVE IInv'
  BY <1>3, DisableLoggingStep
<1>4. ASSUME NEW t \in Thread, Continue(t) PROVE IInv'
  BY <1>4, CallbackStep, PushBackCallbackStep, StartLoggingStep, DeleteCallbackStep, deleterStep,
     EnabledStep, DisconnectTestLoggerStep DEF Continue
<1>5. CASE UNCHANGED vars
  BY <1>5, StutterIInv
<1> QED BY <1>1, <1>2, <1>3, <1>4, <1>5 DEF Next

-----------------------------------------------------------------------------
(* The theorems                                                            *)

INSTANCE FiniteSetTheorems

\* The libraries have what is used of them.
LEMMA SetFactsHold == SetFacts
<1>1. LeastNumbers
  <2> DEFINE Less == OpToRel(<, Nat)
  <2>1. \A x, y \in Nat : <<y, x>> \in Less <=> y < x
    BY DEF OpToRel
  <2>2. IsWellFoundedOn(Less, Nat)
    BY NatLessThanWellFounded
  <2> HIDE DEF Less
  <2>3. ASSUME NEW S \in SUBSET Nat, S # {} PROVE \E x \in S : \A y \in S : x <= y
    <3>1. PICK x \in S : \A y \in S : ~ (<<y, x>> \in Less)
      BY <2>2, <2>3, WFMin
    <3>2. ASSUME NEW y \in S PROVE x <= y
      <4>1. x \in Nat /\ y \in Nat /\ ~ (y < x)
        BY <2>1, <3>1
      <4> QED BY <4>1, SMTT(40)
    <3> QED BY <3>2
  <2> QED BY <2>3 DEF LeastNumbers
<1>2. FiniteSubsets
  BY FS_CardinalityType, FS_Subset DEF FiniteSubsets
<1>3. FiniteEmpty /\ FiniteSingletons
  BY FS_EmptySet, FS_Singleton DEF FiniteEmpty, FiniteSingletons
<1>4. FiniteAdd /\ FiniteRemove
  BY FS_AddElement, FS_RemoveElement DEF FiniteAdd, FiniteRemove
<1>5. FiniteUnions /\ FiniteUNION
  BY FS_Union, FS_UNION DEF FiniteUnions, FiniteUNION
<1>6. FiniteProducts /\ FiniteIntervals
  BY FS_Product, FS_Interval DEF FiniteProducts, FiniteIntervals
<1>7. FiniteImages
  <2> SUFFICES ASSUME NEW S, NEW T, NEW f \in [S -> T], IsFiniteSet(S),
                      \A y \in T : \E x \in S : f[x] = y
               PROVE  /\ IsFiniteSet(T)
                      /\ (\A x, y \in S : f[x] = f[y] => x = y) => Cardinality(T) = Cardinality(S)
    BY DEF FiniteImages
  <2>1. f \in Surjection(S, T)
    BY DEF Surjection
  <2>2. (\A x, y \in S : f[x] = f[y] => x = y) => f \in Injection(S, T)
    BY DEF Injection, IsInjective
  <2> QED BY <2>1, <2>2, FS_Surjection
<1> QED BY <1>1, <1>2, <1>3, <1>4, <1>5, <1>6, <1>7 DEF SetFacts

\* The invariant always holds.
LEMMA Invariance == Spec => []IInv
BY InitIInv, NextIInv, SetFactsHold, PTL DEF Spec

\* The members have their types and m_cur_buffer_memusage is what the buffered lines take,
\* within the limit; once logging has started, the number of lines the connections were told
\* were discarded is the number discarded (Logger::LogPrintStr_, StartLogging).
THEOREM BufferIsExact == Spec => []BufferExact
<1>1. IInv => BufferExact
  <2> SUFFICES ASSUME IInv PROVE BufferExact
    OBVIOUS
  <2>1. BufferOK /\ ListOK /\ PlacesOK /\ CallsOK
    BY DEF IInv
  <2>2. m_cur_buffer_memusage = Usage(m_msgs_before_open) /\ Usage(m_msgs_before_open) \in 0 .. MaxBuffer
    <3>1. Usage(m_msgs_before_open) \in Nat
      BY <2>1, BytesFinite, SetFactsHold DEF BufferOK
    <3> QED BY <2>1, <3>1, LoggingAssumption, SMTT(40) DEF BufferOK
  <2>3. m_buffer_lines_discarded \in 0 .. MaxMsg
    <3> DEFINE k == logged - Len(m_msgs_before_open)
    <3>1. k \in Nat /\ k <= MaxMsg /\ discarded \subseteq 1 .. k /\ MaxMsg \in Nat
      BY <2>1, LoggingAssumption, SMTT(40) DEF BufferOK
    <3> HIDE DEF k
    <3>2. IsFiniteSet(1 .. k) /\ Cardinality(1 .. k) = k
      BY <3>1, SetFactsHold, SMTT(40) DEF SetFacts, FiniteIntervals
    <3>3. Cardinality(discarded) <= k /\ Cardinality(discarded) \in Nat
      BY <3>1, <3>2, SetFactsHold DEF SetFacts, FiniteSubsets
    <3>4. m_buffer_lines_discarded \in Nat /\ m_buffer_lines_discarded <= Cardinality(discarded)
      BY <2>1 DEF BufferOK
    <3> QED BY <3>1, <3>3, <3>4, SMTT(40)
  <2>4. ~ m_buffering => announced = Cardinality(discarded)
    BY <2>1, SMTT(40) DEF BufferOK
  <2>5. TypeOK
    BY <2>1, <2>2, <2>3 DEF TypeOK, BufferOK, ListOK, PlacesOK, CallsOK, Line, Call
  <2> QED BY <2>2, <2>4, <2>5 DEF BufferExact
<1> QED BY <1>1, Invariance, SetFactsHold, PTL

\* Whoever calls the callbacks with m_cs held finds their user data alive, whatever
\* connections are destroyed meanwhile (~LoggingConnection takes the callback from the list
\* under m_cs before it destroys the data).
THEOREM CallbacksFindTheirData == Spec => []UserDataAlive
<1>1. IInv => UserDataAlive
  <2> SUFFICES ASSUME IInv, NEW i \in DOMAIN calls PROVE data[calls[i].to] = "live"
    BY DEF UserDataAlive
  <2>1. calls \in Seq(Call) /\ i \in 1 .. Len(calls)
    BY SMTT(40) DEF IInv, CallsOK
  <2>2. InList(calls[i].to) /\ calls[i].to \in Connection
    <3>1. calls[i] \in Call
      BY <2>1, SMTT(40)
    <3>2. InList(calls[i].to)
      BY <2>1 DEF IInv, CallsOK
    <3> QED BY <3>1, <3>2 DEF Call
  <2> QED BY <2>2 DEF IInv, ListOK
<1> QED BY <1>1, Invariance, SetFactsHold, PTL

\* Each connection hears the messages in the order they were logged in, each once and without
\* a gap, the buffered ones before those logged while it is made (PushBackCallback and
\* StartLogging are two sections of m_cs, and buffering ends in the second).
THEOREM MessagesAreHeardInOrder == Spec => []HeardInOrder
BY Invariance, SetFactsHold, PTL DEF IInv, HeardOK

\* No message is lost: when no call is under way each was heard, is buffered, was discarded or
\* was logged while nobody listened, which is only at the end of the last destructor or after
\* btck_logging_disable.
THEOREM MessagesAreAccounted == Spec => []Accounted
<1>1. IInv => Accounted
  <2> SUFFICES ASSUME IInv PROVE Accounted
    OBVIOUS
  <2> DEFINE H == UNION {Range(heard[c]) : c \in Connection}
             B == {m.msg : m \in Range(m_msgs_before_open)}
  <2>1. BufferOK /\ ListOK /\ AccountOK /\ CallsOK
    BY DEF IInv
  <2>2. \A n : n \in H <=> \E c \in Connection : \E i \in 1 .. Len(heard[c]) : heard[c][i] = n
    <3>1. \A c \in Connection : heard[c] \in Seq(Nat)
      BY <2>1 DEF ListOK
    <3>2. \A c \in Connection : \A n : n \in Range(heard[c]) <=> \E i \in 1 .. Len(heard[c]) : heard[c][i] = n
      BY <3>1, SMTT(40) DEF Range
    <3>3. \A n : n \in H <=> \E c \in Connection : n \in Range(heard[c])
      OBVIOUS
    <3> HIDE DEF H
    <3> QED BY <3>2, <3>3
  <2>3. \A n : n \in B <=> \E i \in 1 .. Len(m_msgs_before_open) : m_msgs_before_open[i].msg = n
    <3>1. m_msgs_before_open \in Seq(Line)
      BY <2>1 DEF BufferOK
    <3>2. \A x : x \in Range(m_msgs_before_open)
                   <=> \E i \in 1 .. Len(m_msgs_before_open) : m_msgs_before_open[i] = x
      BY <3>1, SMTT(40) DEF Range
    <3> QED BY <3>2
  <2>4. B \subseteq 1 .. logged
    <3> SUFFICES ASSUME NEW n \in B PROVE n \in 1 .. logged
      OBVIOUS
    <3>1. PICK i \in 1 .. Len(m_msgs_before_open) : m_msgs_before_open[i].msg = n
      BY <2>3
    <3>2. n = logged - Len(m_msgs_before_open) + i
      BY <2>1, <3>1 DEF BufferOK
    <3>3. logged \in Nat /\ Len(m_msgs_before_open) \in Nat /\ Len(m_msgs_before_open) <= logged
      BY <2>1, LoggingAssumption, SMTT(40) DEF BufferOK
    <3> HIDE DEF B
    <3> QED BY <3>2, <3>3, SMTT(40)
  <2>5. discarded \subseteq 1 .. logged
    <3>1. logged \in Nat /\ Len(m_msgs_before_open) \in Nat
          /\ discarded \subseteq 1 .. logged - Len(m_msgs_before_open)
      BY <2>1, LoggingAssumption, SMTT(40) DEF BufferOK
    <3> QED BY <3>1, SMTT(40)
  <2>6. H \subseteq 1 .. logged /\ missed \subseteq 1 .. logged
    BY <2>1, <2>2 DEF AccountOK
  <2> HIDE DEF H, B
  <2>7. ASSUME m_cs = NoThread, NEW n \in 1 .. logged PROVE n \in H \cup B \cup discarded \cup missed
    <3>1. calls = <<>>
      BY <2>1, <2>7 DEF CallsOK
    <3>2. Somewhere(n)
      BY <2>1 DEF AccountOK
    <3> QED BY <2>2, <2>3, <3>1, <3>2, SMTT(40) DEF Somewhere
  <2>8. m_cs = NoThread => 1 .. logged = H \cup B \cup discarded \cup missed
    BY <2>4, <2>5, <2>6, <2>7
  <2>9. (m_cs = NoThread => 1 .. logged = H \cup B \cup discarded \cup missed) /\ NobodyOK => Accounted
    BY DEF Accounted, NobodyOK, H, B
  <2>10. NobodyOK
    BY DEF IInv
  <2> QED BY <2>8, <2>9, <2>10
<1> QED BY <1>1, Invariance, SetFactsHold, PTL
=============================================================================
