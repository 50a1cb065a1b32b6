----------------------------- MODULE ProxyProofs -----------------------------
(***************************************************************************)
(* What a client of route gets, for any size of the body, any buffer of    *)
(* ReverseProxy, any paths and header values.                              *)
(***************************************************************************)
EXTENDS Proxy, SequenceTheorems, TLAPS

\* The units of a body, numbered.
Numbers == [i \in 1..MaxSize |-> i]

\* The numbers of the units count to the largest body.
LEMMA NumbersType == Numbers \in Seq(1..MaxSize) /\ Len(Numbers) = MaxSize
<1>1. MaxSize \in Nat
  BY ProxyAssumption
<1>. QED
  BY <1>1, IsASeq DEF Numbers

\* The first k units are a sequence of that length, and each is its number.
LEMMA FirstUnits ==
    ASSUME NEW k \in 0..MaxSize
    PROVE  /\ Units(1, k) \in Seq(1..MaxSize) /\ Len(Units(1, k)) = k
           /\ \A i \in 1..k : Units(1, k)[i] = i
<1>1. MaxSize \in Nat /\ k \in Int /\ \A i \in 1..k : Numbers[i] \in 1..MaxSize
  BY ProxyAssumption DEF Numbers
<1>2. /\ SubSeq(Numbers, 1, k) \in Seq(1..MaxSize)
      /\ Len(SubSeq(Numbers, 1, k)) = IF 1 <= k THEN k - 1 + 1 ELSE 0
      /\ \A i \in 1..(k - 1 + 1) : SubSeq(Numbers, 1, k)[i] = Numbers[1 + i - 1]
  BY <1>1, SubSeqProperties
<1>. QED
  BY <1>1, <1>2 DEF Units, Numbers

\* Copying on from where the last Read ended.
LEMMA AdjacentUnits ==
    ASSUME NEW k \in 0..MaxSize, NEW n \in k..MaxSize
    PROVE  Units(1, k) \o Units(k + 1, n) = Units(1, n)
<1>1. 1 \in 1..(Len(Numbers) + 1) /\ k \in (1 - 1)..Len(Numbers) /\ n \in k..Len(Numbers)
  BY NumbersType, ProxyAssumption
<1>2. SubSeq(Numbers, 1, k) \o SubSeq(Numbers, k + 1, n) = SubSeq(Numbers, 1, n)
  BY <1>1, NumbersType, ConcatAdjacentSubSeq
<1>. QED
  BY <1>2 DEF Units, Numbers

\* What was read is a beginning of the body, and so is nothing.
LEMMA FirstUnitsArePrefix ==
    ASSUME NEW n \in 0..MaxSize, NEW k \in 0..n
    PROVE  IsPrefix(Units(1, k), Units(1, n)) /\ IsPrefix(<<>>, Units(1, n))
<1>1. MaxSize \in Nat /\ k \in 0..MaxSize
  BY ProxyAssumption
<1>2. /\ Len(Units(1, k)) = k /\ Len(Units(1, n)) = n
      /\ \A i \in 1..k : Units(1, k)[i] = i /\ Units(1, n)[i] = i
  BY <1>1, FirstUnits
<1>3. SubSeq(Units(1, k), 1, k) = SubSeq(Units(1, n), 1, k)
  <2>1. \A i \in 1..k : Units(1, k)[i] \in 1..MaxSize /\ Units(1, n)[i] \in 1..MaxSize
    BY <1>1, <1>2
  <2>2. /\ SubSeq(Units(1, k), 1, k) \in Seq(1..MaxSize)
        /\ Len(SubSeq(Units(1, k), 1, k)) = k
        /\ \A i \in 1..k : SubSeq(Units(1, k), 1, k)[i] = i
    BY <1>1, <1>2, <2>1, SubSeqProperties
  <2>3. /\ SubSeq(Units(1, n), 1, k) \in Seq(1..MaxSize)
        /\ Len(SubSeq(Units(1, n), 1, k)) = k
        /\ \A i \in 1..k : SubSeq(Units(1, n), 1, k)[i] = i
    BY <1>1, <1>2, <2>1, SubSeqProperties
  <2>. QED
    BY <2>2, <2>3, SeqEqual
<1>4. SubSeq(<<>>, 1, 0) = SubSeq(Units(1, n), 1, 0) /\ Len(<<>>) = 0
  BY SubSeqEmpty
<1>. QED
  BY <1>1, <1>2, <1>3, <1>4 DEF IsPrefix

-----------------------------------------------------------------------------
(* The invariant, step by step.                                            *)

\* An answer is no longer than a body can be.
LEMMA AnswerSize ==
    ASSUME TypeOK
    PROVE  /\ answer.size \in 0..MaxSize /\ answer.sent \in 0..answer.size
           /\ answer.bytes \in {"plain", "gzip"} /\ answer.declared \in BOOLEAN
           /\ offset \in 0..answer.sent
<1>1. answer \in Answers \/ answer = NoBody
  BY DEF TypeOK
<1>2. MaxSize \in Nat /\ offset \in 0..answer.sent
  BY ProxyAssumption DEF TypeOK
<1>3. CASE answer \in Answers
  BY <1>2, <1>3 DEF Answers
<1>4. CASE answer = NoBody
  BY <1>2, <1>4 DEF NoBody
<1>. QED
  BY <1>1, <1>3, <1>4

\* What the types need of a step once the target has answered.
LEMMA TypeStep ==
    ASSUME TypeOK, UNCHANGED <<request, target, answer>>,
           pc' \in Places, offset' \in 0..answer.sent, client' \in Received, err' \in BOOLEAN
    PROVE  TypeOK'
<1>1. Answers' = Answers
  BY DEF Answers
<1>. QED
  BY <1>1 DEF TypeOK

\* Before there is an answer the client has nothing.
LEMMA BeforeAnswer ==
    ASSUME ResponseInv, RouteFails \/ Direct \/ BadGateway
    PROVE  ResponseInv'
<1>1. UNCHANGED <<request, target, answer, offset>> /\ UsesGunzip' = UsesGunzip
  BY DEF RouteFails, Direct, BadGateway, UsesGunzip
<1>2. /\ pc \in {"route", "sent"} /\ client.status = "none" /\ client.body = <<>> /\ offset = 0
      /\ ~err /\ client.end = "open"
  BY DEF ResponseInv, RouteFails, Direct, BadGateway, Goto, TypeOK
<1>e. err \in BOOLEAN
  BY DEF ResponseInv, TypeOK
<1>3. /\ client' = client \/ client' = [client EXCEPT !.status = "502"]
      /\ err' \in BOOLEAN /\ (err' => pc' = "returned" /\ client' = client)
      /\ pc' \in {"sent", "served", "returned"} /\ (pc' = "sent" => client' = client)
  <2>1. CASE RouteFails
    BY <2>1 DEF RouteFails, Goto
  <2>2. CASE Direct \/ BadGateway
    BY <1>2, <1>e, <2>2 DEF Direct, BadGateway, Goto
  <2>. QED
    BY <2>1, <2>2
<1>4. TypeOK'
  <2>1. client' \in Received
    BY <1>3 DEF ResponseInv, TypeOK, Received
  <2>. QED
    BY <1>1, <1>3, <2>1, TypeStep DEF ResponseInv, TypeOK, Places
<1>5. client'.status # "target's" /\ client'.body = <<>> /\ client'.end = "open"
  BY <1>2, <1>3 DEF ResponseInv, TypeOK, Received
<1>6. BodyIsPrefix'
  BY <1>1, <1>2, <1>5 DEF ResponseInv, BodyIsPrefix, Units
<1>7. Untouched'
  BY <1>5 DEF Untouched
<1>. QED
  BY <1>1, <1>2, <1>3, <1>4, <1>5, <1>6, <1>7 DEF ResponseInv

\* The header.
LEMMA HeaderStep ==
    ASSUME ResponseInv, WriteHeader
    PROVE  ResponseInv'
<1>1. PICK a \in Answers : answer' = a /\ client' = SentHeader(a)
  BY DEF WriteHeader
<1>2. UNCHANGED <<request, target, outgoing, offset, err>> /\ UsesGunzip' = UsesGunzip
      /\ pc = "sent" /\ pc' = "copy"
  BY DEF WriteHeader, UsesGunzip, Goto
<1>3. client.body = <<>> /\ offset = 0 /\ ~err /\ client.end = "open" /\ UsesGunzip \in BOOLEAN
  BY <1>2 DEF ResponseInv, TypeOK, UsesGunzip
<1>4. /\ a.declared \in BOOLEAN /\ a.size \in 0..MaxSize /\ a.sent \in 0..a.size /\ MaxSize \in Nat
  BY ProxyAssumption DEF Answers
<1>5. /\ client' \in Received
      /\ client'.status = "target's" /\ client'.body = <<>> /\ client'.end = "open"
      /\ client'.declared = (a.declared /\ ~UsesGunzip)
  <2>1. (a.declared /\ ~UsesGunzip) \in BOOLEAN
    OBVIOUS
  <2>. QED
    BY <1>1, <1>3, <2>1 DEF ResponseInv, TypeOK, SentHeader, Received
<1>6. TypeOK'
  BY <1>1, <1>2, <1>3, <1>4, <1>5 DEF ResponseInv, TypeOK, Answers, Places
<1>7. Units(1, 0) = <<>>
  BY SubSeqEmpty DEF Units
<1>8. BodyIsPrefix'
  <2>1. IsPrefix(<<>>, Units(1, a.size))
    BY <1>4, FirstUnitsArePrefix
  <2>. QED
    BY <1>1, <1>5, <2>1 DEF BodyIsPrefix, Units
<1>9. Copied'
  BY <1>2, <1>3, <1>5, <1>7 DEF Copied, Units
<1>. QED
  BY <1>1, <1>2, <1>3, <1>5, <1>6, <1>8, <1>9 DEF ResponseInv

\* One Read and its Write: the client gets what was read, unless the writer
\* cannot gunzip it.
LEMMA CopyStep ==
    ASSUME ResponseInv, Copy
    PROVE  ResponseInv'
<1>1. PICK n \in 1..Buffer :
          /\ offset + n <= answer.sent
          /\ offset' = offset + n
          /\ client' = [client EXCEPT !.body = @ \o Write(offset + 1, offset + n).data]
          /\ pc' = IF Write(offset + 1, offset + n).ok THEN "copy" ELSE "panicked"
  BY DEF Copy
<1> DEFINE to == offset + n
<1>2. UNCHANGED <<request, target, outgoing, answer, err>> /\ UsesGunzip' = UsesGunzip /\ pc = "copy"
  BY DEF Copy, UsesGunzip
<1>3. /\ answer.size \in 0..MaxSize /\ answer.sent \in 0..answer.size /\ offset \in 0..answer.sent
      /\ answer.bytes \in {"plain", "gzip"} /\ n \in Nat /\ n > 0 /\ MaxSize \in Nat
  BY AnswerSize, ProxyAssumption DEF ResponseInv
<1>4. /\ to \in 1..answer.sent /\ to \in 0..MaxSize /\ offset \in 0..MaxSize /\ to \in offset..MaxSize
      /\ to \in 0..answer.size
  BY <1>1, <1>3
<1>5. /\ Copied /\ ~err /\ client.end = "open" /\ client.status = "target's"
      /\ (UsesGunzip => offset = 0)
  BY <1>1, <1>2, <1>3 DEF ResponseInv, TypeOK, Copied
<1>6. /\ client'.status = client.status /\ client'.end = client.end
      /\ client'.declared = client.declared
      /\ client'.body = client.body \o Write(offset + 1, to).data
  BY <1>1 DEF ResponseInv, TypeOK, Received
<1>7. CASE UsesGunzip => answer.bytes = "gzip" /\ offset + 1 = 1 /\ to = answer.size
  <2>1. Write(offset + 1, to) = [ok |-> TRUE, data |-> Units(offset + 1, to)]
    BY <1>7 DEF Write
  <2>a. Write(offset + 1, to).ok /\ Write(offset + 1, to).data = Units(offset + 1, to)
    BY <2>1
  <2>b. Units(1, offset) \o Units(offset + 1, to) = Units(1, to)
    BY <1>4, AdjacentUnits
  <2>2. client'.body = Units(1, to)
    BY <1>5, <1>6, <2>a, <2>b DEF Copied
  <2>3. client'.body \in Seq(1..MaxSize) /\ pc' = "copy"
    BY <1>1, <1>4, <2>a, <2>2, FirstUnits
  <2>4. TypeOK'
    <3>1. client' \in Received
      <4>1. client' = [client EXCEPT !.body = Units(1, to)]
        BY <1>1, <1>6, <2>2 DEF ResponseInv, TypeOK, Received
      <4>2. Units(1, to) \in Seq(1..MaxSize)
        BY <2>2, <2>3
      <4>. QED
        BY <4>1, <4>2 DEF ResponseInv, TypeOK, Received
    <3>. QED
      BY <1>1, <1>2, <1>4, <2>3, <3>1, TypeStep DEF ResponseInv, TypeOK, Places
  <2>5. BodyIsPrefix'
    <3>1. IsPrefix(Units(1, to), Units(1, answer.size))
      BY <1>3, <1>4, FirstUnitsArePrefix
    <3>. QED
      BY <1>2, <2>2, <3>1 DEF BodyIsPrefix, Units
  <2>6. Copied' /\ (UsesGunzip' => offset' = answer'.size)
    BY <1>1, <1>2, <1>5, <1>6, <1>7, <2>2 DEF Copied, Units
  <2>. QED
    BY <1>2, <1>5, <1>6, <2>3, <2>4, <2>5, <2>6 DEF ResponseInv
<1>8. CASE UsesGunzip /\ ~(answer.bytes = "gzip" /\ offset + 1 = 1 /\ to = answer.size)
  <2>1. Write(offset + 1, to) = [ok |-> FALSE, data |-> <<>>]
    BY <1>8 DEF Write
  <2>2. client.body = <<>>
    BY <1>5, <1>8, SubSeqEmpty DEF Copied, Units
  <2>3. client' = client /\ pc' = "panicked"
    BY <1>1, <2>1, <2>2 DEF ResponseInv, TypeOK, Received
  <2>4. TypeOK'
    <3>1. client \in Received /\ err \in BOOLEAN /\ TypeOK
      BY DEF ResponseInv, TypeOK
    <3>2. offset' \in 0..answer.sent
      BY <1>1, <1>4
    <3>. QED
      BY <1>2, <2>3, <3>1, <3>2, TypeStep DEF Places
  <2>6. BodyIsPrefix'
    <3>1. Units(1, answer.size)' = Units(1, answer.size)
      BY <1>2 DEF Units
    <3>. QED
      BY <2>3, <3>1 DEF ResponseInv, BodyIsPrefix
  <2>5. Unwritable'
    BY <1>2, <1>3, <1>4, <1>5, <1>8, <2>2, <2>3 DEF Unwritable
  <2>. QED
    BY <1>2, <1>5, <1>6, <2>3, <2>4, <2>5, <2>6 DEF ResponseInv
<1>. QED
  BY <1>7, <1>8

\* The body ends, or breaks off; ReverseProxy and route end.
LEMMA EndStep ==
    ASSUME ResponseInv, CopyEnds \/ Recover \/ Return
    PROVE  ResponseInv'
<1>1. /\ UNCHANGED <<request, target, outgoing, answer, offset, client, err>>
      /\ UsesGunzip' = UsesGunzip /\ pc' \in {"served", "panicked", "returned"}
      /\ pc \in {"copy", "panicked", "served"}
  BY DEF CopyEnds, Recover, Return, UsesGunzip, Goto
<1>2. ~err /\ client.end = "open"
  BY <1>1 DEF ResponseInv, TypeOK
<1>3. Untouched \/ (Copied /\ offset = answer.size) \/ BrokenOff \/ Unwritable
  BY <1>1, AnswerSize DEF ResponseInv, CopyEnds, Recover, Return, Goto, BrokenOff
<1>4. (Untouched \/ (Copied /\ offset = answer.size) \/ BrokenOff \/ Unwritable)'
  BY <1>1, <1>3 DEF Untouched, Copied, BrokenOff, Unwritable, Units
<1>5. TypeOK' /\ BodyIsPrefix'
  BY <1>1, TypeStep DEF ResponseInv, TypeOK, Places, BodyIsPrefix, Units
<1>. QED
  BY <1>1, <1>2, <1>4, <1>5 DEF ResponseInv

\* The end of the response.
LEMMA FinishStep ==
    ASSUME ResponseInv, Finish
    PROVE  ResponseInv'
<1>1. /\ UNCHANGED <<request, target, outgoing, answer, offset, err>>
      /\ UsesGunzip' = UsesGunzip /\ pc = "returned" /\ pc' = "finished"
  BY DEF Finish, UsesGunzip, Goto
<1> DEFINE end == IF client.declared /\ Len(client.body) < answer.size THEN "aborted" ELSE "complete"
           status == IF err THEN "caller's" ELSE client.status
<1>2. client' = [client EXCEPT !.status = status, !.end = end]
  BY DEF Finish
<1>3. /\ client'.body = client.body /\ client'.declared = client.declared
      /\ client'.status = status /\ client'.end = end
  BY <1>2 DEF ResponseInv, TypeOK, Received
<1>4. status \in {"none", "502", "target's", "caller's"} /\ end \in {"complete", "aborted"}
  BY DEF ResponseInv, TypeOK, Received
<1>5. TypeOK'
  <2>1. client' \in Received
    BY <1>2, <1>4 DEF ResponseInv, TypeOK, Received
  <2>. QED
    BY <1>1, <2>1, TypeStep DEF ResponseInv, TypeOK, Places
<1>6. BodyIsPrefix'
  BY <1>1, <1>3 DEF ResponseInv, BodyIsPrefix, Units
<1>7. status = "target's" => client.status = "target's" /\ ~err
  BY DEF ResponseInv
<1>8. (Untouched \/ (Copied /\ offset = answer.size) \/ BrokenOff \/ Unwritable)'
  <2>1. Untouched \/ (Copied /\ offset = answer.size) \/ BrokenOff \/ Unwritable
    BY <1>1 DEF ResponseInv
  <2>2. CASE err
    BY <1>1, <1>3, <2>1, <2>2 DEF ResponseInv, Untouched, Copied, BrokenOff, Unwritable
  <2>3. CASE ~err
    BY <1>1, <1>3, <2>1, <2>3 DEF Untouched, Copied, BrokenOff, Unwritable, Units
  <2>. QED
    BY <2>2, <2>3
<1>9. client'.end = "complete" /\ client'.declared => Len(client'.body) >= answer'.size
  <2>1. Len(client.body) \in Nat /\ answer.size \in Nat
    BY AnswerSize, ProxyAssumption, LenProperties DEF ResponseInv, TypeOK, Received
  <2>. QED
    BY <1>1, <1>3, <2>1
<1>. QED
  BY <1>1, <1>3, <1>5, <1>6, <1>7, <1>8, <1>9 DEF ResponseInv

\* Every step preserves the invariant.
LEMMA Inductive == ResponseInv /\ [Next]_vars => ResponseInv'
<1> SUFFICES ASSUME ResponseInv, [Next]_vars PROVE ResponseInv'
  OBVIOUS
<1>1. CASE UNCHANGED vars
  <2>1. TypeOK' /\ BodyIsPrefix'
    BY <1>1 DEF vars, ResponseInv, TypeOK, Answers, BodyIsPrefix, Units
  <2>2. /\ UsesGunzip' = UsesGunzip /\ Untouched' = Untouched /\ Copied' = Copied
        /\ BrokenOff' = BrokenOff /\ Unwritable' = Unwritable
    BY <1>1 DEF vars, UsesGunzip, Untouched, Copied, BrokenOff, Unwritable, Units
  <2>. QED
    BY <1>1, <2>1, <2>2 DEF vars, ResponseInv
<1>2. CASE Next
  BY <1>2, BeforeAnswer, HeaderStep, CopyStep, EndStep, FinishStep DEF Next
<1>. QED
  BY <1>1, <1>2

\* In the beginning nothing has been sent.
LEMMA InitInv == Init => ResponseInv
<1> SUFFICES ASSUME Init PROVE ResponseInv
  OBVIOUS
<1>1. MaxSize \in Nat /\ IsPrefix(<<>>, Units(1, 0))
  BY ProxyAssumption, FirstUnitsArePrefix
<1>2. TypeOK
  <2>1. client \in Received
    BY <1>1 DEF Init, Received
  <2>2. answer \in Answers \cup {NoBody} /\ err \in BOOLEAN
    BY DEF Init
  <2>3. offset \in 0..answer.sent
    BY DEF Init, NoBody
  <2>. QED
    BY <2>1, <2>2, <2>3 DEF Init, TypeOK, Places
<1>. QED
  BY <1>1, <1>2 DEF Init, ResponseInv, BodyIsPrefix, NoBody

-----------------------------------------------------------------------------
(* Paths and headers.                                                      *)

Slash == <<"/">>

\* What paths are made of. (The provers do not know that "/" is a string.)
Chars == STRING \cup {"/"}

\* A slash is a path of length one.
LEMMA OneSlash == Slash \in Seq(Chars) /\ Len(Slash) = 1 /\ Slash[1] = "/" /\ Slash = <<"/">>
<1>1. <<"/">> \in Seq(Chars)
  BY DEF Chars
<1>2. Len(<<"/">>) = 1 /\ <<"/">>[1] = "/"
  OBVIOUS
<1>. QED
  BY <1>1, <1>2, Zenon DEF Slash

\* A path that begins with a slash is that and the rest.
LEMMA SlashFirst ==
    ASSUME NEW b \in Seq(Chars), IsPrefix(Slash, b)
    PROVE  /\ Len(b) \in Nat \ {0} /\ b[1] = "/"
           /\ Tail(b) \in Seq(Chars) /\ b = Slash \o Tail(b)
<1>1. Len(b) \in Nat /\ Len(b) >= 1
  BY OneSlash, LenProperties DEF IsPrefix
<1>2. b[1] = "/"
  <2>1. SubSeq(Slash, 1, 1) = SubSeq(b, 1, 1)
    BY OneSlash DEF IsPrefix
  <2>2. b[1] \in Chars /\ Slash[1] \in Chars
    BY <1>1, OneSlash, ElementOfSeq
  <2>3. \A i \in 1..1 : Slash[i] \in Chars /\ b[i] \in Chars
    BY <2>2
  <2>4. SubSeq(Slash, 1, 1)[1] = Slash[1] /\ SubSeq(b, 1, 1)[1] = b[1]
    BY <2>3, SubSeqProperties
  <2>. QED
    BY <2>1, <2>4, OneSlash
<1>3. b # <<>> /\ Tail(b) \in Seq(Chars)
  BY <1>1, EmptySeq, HeadTailProperties
<1>4. SubSeq(b, 1, Len(b)) = <<b[1]>> \o SubSeq(b, 1 + 1, Len(b))
  <2>1. 1 \in 1..Len(b) /\ Len(b) \in 1..Len(b)
    BY <1>1
  <2>. QED
    BY <2>1, SubSeqRecursiveFirst
<1>5. SubSeq(b, 1, Len(b)) = b /\ Tail(b) = SubSeq(b, 2, Len(b))
  BY <1>3, SubSeqFull, TailIsSubSeq
<1>6. 1 + 1 = 2
  OBVIOUS
<1>7. b = <<b[1]>> \o Tail(b)
  BY <1>4, <1>5, <1>6, Zenon
<1>. QED
  BY <1>1, <1>2, <1>3, <1>7, OneSlash

\* A path that ends with a slash is the rest and that.
LEMMA SlashLast ==
    ASSUME NEW a \in Seq(Chars), IsSuffix(Slash, a)
    PROVE  Front(a) \in Seq(Chars) /\ a = Front(a) \o Slash
<1>1. Len(a) \in Nat /\ \A i \in 1..Len(a) : a[i] \in Chars
  BY LenProperties, ElementOfSeq
<1>2. Reverse(a) \in Seq(Chars) /\ Len(Reverse(a)) = Len(a)
      /\ \A i \in 1..Len(a) : Reverse(a)[i] = a[(Len(a) - i) + 1]
  <2> DEFINE e(i) == a[(Len(a) - i) + 1]
  <2>1. \A i \in 1..Len(a) : e(i) \in Chars
    BY <1>1
  <2>2. [i \in 1..Len(a) |-> e(i)] \in Seq(Chars)
    <3> HIDE DEF e
    <3>. QED
      BY <1>1, <2>1, IsASeq
  <2>3. Reverse(a) = [i \in 1..Len(a) |-> e(i)]
    BY Zenon DEF Reverse
  <2>4. Reverse(a) \in Seq(Chars) /\ DOMAIN Reverse(a) = 1..Len(a)
    BY <2>2, <2>3
  <2>5. Len(Reverse(a)) = Len(a)
    BY <1>1, <2>4, LenProperties
  <2>. QED
    BY <2>3, <2>4, <2>5
<1>3. Reverse(Slash) = Slash
  <2>1. Reverse(Slash) = [i \in 1..1 |-> Slash[(1 - i) + 1]]
    BY OneSlash DEF Reverse
  <2>2. \A i \in 1..1 : Slash[(1 - i) + 1] = "/"
    BY OneSlash
  <2>3. Reverse(Slash) = [i \in 1..1 |-> "/"]
    BY <2>1, <2>2
  <2>4. <<"/">> = [i \in 1..1 |-> "/"]
    OBVIOUS
  <2>. QED
    BY <2>3, <2>4, OneSlash
<1>4. Len(a) \in Nat \ {0} /\ a[Len(a)] = "/"
  <2>1. IsPrefix(Slash, Reverse(a))
    BY <1>3 DEF IsSuffix
  <2>2. Len(Reverse(a)) \in Nat \ {0} /\ Reverse(a)[1] = "/"
    BY <1>2, <2>1, SlashFirst
  <2>. QED
    BY <1>1, <1>2, <2>2
<1>5. SubSeq(a, 1, Len(a)) = SubSeq(a, 1, Len(a) - 1) \o <<a[Len(a)]>>
  <2>1. 1 \in 1..Len(a) /\ Len(a) \in 1..Len(a)
    BY <1>4
  <2>. QED
    BY <2>1, SubSeqRecursiveSecond
<1>6. SubSeq(a, 1, Len(a)) = a
  BY SubSeqFull
<1>7. Front(a) \in Seq(Chars)
  <2>1. \A i \in 1..(Len(a) - 1) : a[i] \in Chars
    BY <1>1
  <2>2. 1 \in Int /\ Len(a) - 1 \in Int
    BY <1>1
  <2>. QED
    BY <2>1, <2>2, SubSeqProperties DEF Front
<1>. QED
  BY <1>4, <1>5, <1>6, <1>7, OneSlash DEF Front

\* singleJoiningSlash puts exactly one slash between any two paths.
LEMMA JoiningSlash ==
    ASSUME NEW a \in Seq(Chars), NEW b \in Seq(Chars)
    PROVE  SingleJoiningSlash(a, b) = WithoutSlash(a) \o WithSlash(b)
<1>1. CASE ~IsSuffix(Slash, a) /\ IsPrefix(Slash, b)
  BY <1>1, OneSlash DEF SingleJoiningSlash, WithoutSlash, WithSlash
<1>2. CASE ~IsSuffix(Slash, a) /\ ~IsPrefix(Slash, b)
  <2>1. SingleJoiningSlash(a, b) = (a \o Slash) \o b /\ WithoutSlash(a) = a /\ WithSlash(b) = Slash \o b
    BY <1>2, OneSlash DEF SingleJoiningSlash, WithoutSlash, WithSlash
  <2>2. (a \o Slash) \o b = a \o (Slash \o b)
    BY OneSlash, ConcatAssociative
  <2>. QED
    BY <2>1, <2>2
<1>3. CASE IsSuffix(Slash, a) /\ IsPrefix(Slash, b)
  <2>1. SingleJoiningSlash(a, b) = a \o Tail(b) /\ WithoutSlash(a) = Front(a) /\ WithSlash(b) = b
    BY <1>3, OneSlash DEF SingleJoiningSlash, WithoutSlash, WithSlash
  <2>2. /\ Front(a) \in Seq(Chars) /\ a = Front(a) \o Slash
        /\ Tail(b) \in Seq(Chars) /\ b = Slash \o Tail(b)
    BY <1>3, SlashFirst, SlashLast
  <2>3. (Front(a) \o Slash) \o Tail(b) = Front(a) \o (Slash \o Tail(b))
    BY <2>2, OneSlash, ConcatAssociative
  <2>. QED
    BY <2>1, <2>2, <2>3, Zenon
<1>4. CASE IsSuffix(Slash, a) /\ ~IsPrefix(Slash, b)
  <2>1. SingleJoiningSlash(a, b) = a \o b /\ WithoutSlash(a) = Front(a) /\ WithSlash(b) = Slash \o b
    BY <1>4, OneSlash DEF SingleJoiningSlash, WithoutSlash, WithSlash
  <2>2. Front(a) \in Seq(Chars) /\ a = Front(a) \o Slash
    BY <1>4, SlashLast
  <2>3. (Front(a) \o Slash) \o b = Front(a) \o (Slash \o b)
    BY <2>2, OneSlash, ConcatAssociative
  <2>. QED
    BY <2>1, <2>2, <2>3, Zenon
<1>. QED
  BY <1>1, <1>2, <1>3, <1>4

\* Once it is sent, the request goes where the director sent it.
PassedOn == pc # "route" /\ ~err => outgoing = Directed

\* Every step keeps that.
LEMMA PassingOn == ResponseInv /\ PassedOn /\ [Next]_vars => PassedOn'
<1> SUFFICES ASSUME ResponseInv, PassedOn, [Next]_vars PROVE PassedOn'
  OBVIOUS
<1> USE DEF PassedOn
<1>0. UNCHANGED <<request, target>> => Directed' = Directed
  BY DEF Directed
<1>1. CASE RouteFails
  BY <1>0, <1>1 DEF RouteFails
<1>2. CASE Direct
  BY <1>0, <1>2 DEF Direct
<1>3. CASE BadGateway
  BY <1>0, <1>3 DEF BadGateway, Goto
<1>4. CASE WriteHeader
  BY <1>0, <1>4 DEF WriteHeader, Goto
<1>5. CASE Copy
  BY <1>0, <1>5 DEF Copy
<1>6. CASE CopyEnds \/ Recover \/ Return
  BY <1>0, <1>6 DEF CopyEnds, Recover, Return, Goto
<1>7. CASE Finish
  BY <1>0, <1>7 DEF Finish, Goto
<1>8. CASE UNCHANGED vars
  BY <1>0, <1>8 DEF vars
<1>. QED
  BY <1>1, <1>2, <1>3, <1>4, <1>5, <1>6, <1>7, <1>8 DEF Next

-----------------------------------------------------------------------------
(* The theorems.                                                           *)

\* In every state the client has what ResponseInv says: a beginning of the
\* body, and at the end one of four outcomes.
THEOREM Invariance == Spec => []ResponseInv
BY InitInv, Inductive, PTL DEF Spec

\* A client that takes a truncated body for a whole one has met a target that
\* broke off without a declared length, or the gunzip writer.
THEOREM TruncationsExplained == Spec => []TruncationsAreKnown
<1>1. ResponseInv => TruncationsAreKnown
  <2> SUFFICES ASSUME ResponseInv, Truncated
               PROVE  \/ answer.sent < answer.size /\ (UsesGunzip \/ ~answer.declared)
                      \/ UsesGunzip /\ answer.bytes = "plain"
                      \/ UsesGunzip /\ answer.bytes = "gzip" /\ answer.size > 1
    BY DEF TruncationsAreKnown
  <2>1. /\ answer.size \in 0..MaxSize /\ answer.sent \in 0..answer.size /\ offset \in 0..answer.sent
        /\ answer.bytes \in {"plain", "gzip"} /\ MaxSize \in Nat
    BY AnswerSize, ProxyAssumption DEF ResponseInv
  <2>2. client.status = "target's" /\ client.end = "complete" /\ Len(client.body) < answer.size
    BY DEF Truncated
  <2>3. pc = "finished" /\ ~client.declared
    BY <2>1, <2>2, LenProperties DEF ResponseInv, TypeOK, Received
  <2>4. UsesGunzip \/ ~answer.declared
    BY <2>2, <2>3 DEF ResponseInv
  <2>5. ~(Copied /\ offset = answer.size)
    BY <2>1, <2>2, FirstUnits DEF Copied
  <2>6. BrokenOff \/ Unwritable
    BY <2>2, <2>3, <2>5 DEF ResponseInv, Untouched
  <2>. QED
    BY <2>1, <2>4, <2>6 DEF BrokenOff, Unwritable
<1>. QED
  BY <1>1, Invariance, PTL

\* A response is answered once: by the target, by ReverseProxy, or by the
\* caller of a route that returned an error.
THEOREM NoSecondAnswer == Spec => AnsweredOnce
<1>1. ResponseInv /\ [Next]_vars => (client'.status # client.status => client.status = "none")
  <2> SUFFICES ASSUME ResponseInv, [Next]_vars, client'.status # client.status
               PROVE  client.status = "none"
    OBVIOUS
  <2>1. CASE BadGateway \/ WriteHeader
    BY <2>1 DEF ResponseInv, BadGateway, WriteHeader, Goto
  <2>2. CASE Copy
    BY <2>2 DEF Copy, ResponseInv, TypeOK, Received
  <2>3. CASE Finish
    BY <2>3 DEF Finish, Goto, ResponseInv, TypeOK, Received
  <2>. QED
    BY <2>1, <2>2, <2>3 DEF Next, vars, RouteFails, Direct, CopyEnds, Recover, Return
<1>. QED
  BY <1>1, Invariance, PTL DEF Spec, AnsweredOnce

\* The target's path and the client's are joined by one slash, whatever the
\* two are.
THEOREM JoinedPaths == Spec => []JoinedBySlash
<1>1. Init => PassedOn
  BY DEF Init, PassedOn
<1>2. ResponseInv /\ PassedOn => JoinedBySlash
  <2> SUFFICES ASSUME ResponseInv, PassedOn,
                      pc # "route", ~err, target.path = <<"unset">>
               PROVE  outgoing.path = WithoutSlash(target.url.path) \o WithSlash(request.path)
    BY DEF JoinedBySlash, PassedOn
  <2>1. target.url.path \in Seq(Chars) /\ request.path \in Seq(Chars)
    <3>1. target.url.path \in Paths /\ request.path \in Paths
      BY DEF ResponseInv, TypeOK, Targets, ClientRequests
    <3>2. \A p \in Paths : p \in Seq(STRING)
      BY ProxyAssumption
    <3>3. STRING \subseteq Chars
      BY DEF Chars
    <3>. QED
      BY <3>1, <3>2, <3>3, SeqMonotonic
  <2>2. outgoing.path = SingleJoiningSlash(target.url.path, request.path)
    BY DEF PassedOn, Directed
  <2>. QED
    BY <2>1, <2>2, JoiningSlash
<1>. QED
  BY <1>1, <1>2, PassingOn, Invariance, PTL DEF Spec
=============================================================================
