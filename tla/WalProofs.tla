------------------------------ MODULE WalProofs ------------------------------
(***************************************************************************)
(* The write-ahead log file, for every record size, every sequence of      *)
(* entries and every sequence of crashes, failed appends and power losses. *)
(***************************************************************************)
EXTENDS WalFile, FiniteSetTheorems, TLAPS

(* What the process has written, the BufWriter's part included.            *)
Stream == file \o buffer

RecordOf == [entry : Nat, type : RecordType, head : BOOLEAN, want : Nat, data : Seq(Nat \X Nat)]

(* The record r is, as far as its bytes are there, the fragment of its     *)
(* entry that starts behind byte o; ls are the lengths of the entries.     *)
Bytes(i, o, n) == [b \in 1 .. n |-> <<i, o + b>>]
StartsAt(ls, r, o) ==
    /\ r.entry \in DOMAIN ls /\ o \in Nat /\ o < ls[r.entry]
    /\ r.type = TypeAt(ls[r.entry], o) /\ r.want = Chunk(ls[r.entry], o)
    /\ Len(r.data) <= r.want /\ r.data = Bytes(r.entry, o, Len(r.data))

(* A fragment that does not begin its entry stands directly behind the     *)
(* whole fragment before it; one that does, behind older entries.          *)
Continues(ls, q, r, o) ==
    q.entry = r.entry /\ Whole(q) /\ o >= MaxRecord /\ StartsAt(ls, q, o - MaxRecord)
Placed(ls, s, k, o) ==
    \/ o = 0 /\ (k > 1 => s[k - 1].entry < s[k].entry)
    \/ o # 0 /\ k > 1 /\ Continues(ls, s[k - 1], s[k], o)
Chained(ls, s) == \A k \in DOMAIN s : \E o \in Nat : StartsAt(ls, s[k], o) /\ Placed(ls, s, k, o)

(* The reader: the entries returned so far are older than the record it    *)
(* reads next, and the bytes in progress are the start of the entry of the *)
(* record it has just read.                                                *)
Returned(ids) ==
    /\ \A k \in DOMAIN entries : entries[k] = Entry(ids[k])
    /\ \A j, k \in DOMAIN entries : j < k => ids[j] < ids[k]
    /\ \A k \in DOMAIN entries :
          position > 1 /\ (IF expecting THEN ids[k] < file[position - 1].entry
                                        ELSE ids[k] <= file[position - 1].entry)
InProgress ==
    expecting => /\ position > 1
                 /\ \E o \in Nat :
                       /\ StartsAt(lens, file[position - 1], o) /\ Whole(file[position - 1])
                       /\ o + MaxRecord < lens[file[position - 1].entry]
                       /\ assembled = Bytes(file[position - 1].entry, 0, o + MaxRecord)

WalInv ==
    /\ WTypeOK
    /\ file \in Seq(RecordOf) /\ buffer \in Seq(RecordOf) /\ entries \in Seq(Seq(Nat \X Nat))
    /\ Chained(lens, Stream)
    /\ state # "up" => buffer = <<>>
    /\ state = "recovering" => position <= Len(file) + 1 /\ InProgress
    /\ state \in {"recovering", "recovered"} =>
          \E ids \in [DOMAIN entries -> DOMAIN lens] : Returned(ids)
-----------------------------------------------------------------------------
(* Cutting an entry into records.                                          *)
LEMMA Multiples ==
    ASSUME NEW m \in Nat \ {0}, NEW x \in Nat
    PROVE  x \div m \in Nat /\ (x \div m) * m <= x
OBVIOUS

LEMMA Monotone ==
    ASSUME NEW m \in Nat, NEW a \in Nat, NEW b \in Nat, a <= b PROVE a * m <= b * m
OBVIOUS

LEMMA Distributes ==
    ASSUME NEW m \in Nat, NEW a \in Nat PROVE (a + 1) * m = a * m + m /\ a * m \in Nat
OBVIOUS

LEMMA SameSum ==
    ASSUME NEW n \in Nat, NEW o \in Nat, NEW a \in 1 .. n, NEW b \in 1 .. n, o + a = o + b PROVE a = b
OBVIOUS

LEMMA WithinUpTo == ASSUME NEW m \in Nat, NEW n \in Nat, m <= n PROVE \A k \in 1 .. m : k \in 1 .. n
OBVIOUS

LEMMA Constants == MaxRecord \in Nat /\ MaxRecord >= 1 /\ Lens \subseteq Nat \ {0}
BY WalAssumption

(* Every fragment starts inside its entry.                                 *)
LEMMA Inside ==
    ASSUME NEW len \in Nat \ {0}, NEW k \in 1 .. (len + MaxRecord - 1) \div MaxRecord
    PROVE  (k - 1) * MaxRecord \in Nat /\ (k - 1) * MaxRecord < len
<1> DEFINE N == (len + MaxRecord - 1) \div MaxRecord
<1>1. N \in Nat /\ N * MaxRecord <= len + MaxRecord - 1
  BY Constants, Multiples
<1>2. k - 1 \in Nat /\ k \in Nat /\ k <= N
  BY <1>1
<1> HIDE DEF N
<1>3. k * MaxRecord <= N * MaxRecord
  BY <1>1, <1>2, Constants, Monotone, Zenon
<1>4. k * MaxRecord = (k - 1) * MaxRecord + MaxRecord /\ (k - 1) * MaxRecord \in Nat
  <2>1. (k - 1) + 1 = k
    BY <1>2
  <2> QED BY <1>2, <2>1, Constants, Distributes, Zenon
<1>5. N * MaxRecord \in Nat /\ k * MaxRecord \in Nat
  BY <1>1, <1>2, Constants
<1> HIDE DEF N
<1> QED BY <1>1, <1>3, <1>4, <1>5, Constants

LEMMA Chunks ==
    ASSUME NEW len \in Nat, NEW o \in Nat, o < len
    PROVE  /\ Chunk(len, o) \in Nat /\ Chunk(len, o) >= 1 /\ o + Chunk(len, o) <= len
           /\ Chunk(len, o) <= MaxRecord
           /\ TypeAt(len, o) \in RecordType
BY Constants DEF Chunk, TypeAt, RecordType

LEMMA RecordFacts ==
    ASSUME NEW i \in Nat, NEW len \in Nat \ {0}, NEW d, d = Bytes(i, 0, len),
           NEW o \in Nat, o < len
    PROVE  /\ Record(i, d, o) \in RecordOf
           /\ Record(i, d, o).entry = i /\ Whole(Record(i, d, o))
           /\ Record(i, d, o).type = TypeAt(len, o) /\ Record(i, d, o).want = Chunk(len, o)
           /\ Len(Record(i, d, o).data) = Chunk(len, o)
           /\ Record(i, d, o).data = Bytes(i, o, Chunk(len, o))
<1> DEFINE c == Chunk(len, o)
           bytes == SubSeq(d, o + 1, o + c)
<1>1. c \in Nat /\ c >= 1 /\ o + c <= len /\ TypeAt(len, o) \in RecordType
  BY Chunks, Zenon
<1> HIDE DEF c
<1>2. d \in Seq(Nat \X Nat) /\ Len(d) = len
  BY DEF Bytes
<1>3. bytes \in Seq(Nat \X Nat) /\ Len(bytes) = c /\ \A b \in 1 .. c : bytes[b] = <<i, o + b>>
  <2>1. \A b \in 1 .. len : d[b] = <<i, b>>
    BY DEF Bytes
  <2>2. bytes \in Seq(Nat \X Nat) /\ Len(bytes) = c
    BY <1>1, <1>2
  <2>3. \A b \in 1 .. c : bytes[b] = d[o + b] /\ o + b \in 1 .. len
    BY <1>1, <1>2
  <2> QED BY <2>1, <2>2, <2>3, Zenon
<1>4. bytes = Bytes(i, o, c)
  BY <1>1, <1>3 DEF Bytes
<1>5. Record(i, d, o) = [entry |-> i, type |-> TypeAt(len, o), head |-> TRUE, want |-> c,
                         data |-> bytes]
  BY <1>2, <1>3, Zenon DEF Record, c
<1> HIDE DEF bytes
<1>6. /\ Record(i, d, o) \in RecordOf /\ Record(i, d, o).entry = i /\ Whole(Record(i, d, o))
      /\ Record(i, d, o).type = TypeAt(len, o) /\ Record(i, d, o).want = c
      /\ Record(i, d, o).data = bytes
  <2>1. Record(i, d, o) \in RecordOf
    <3>1. ASSUME NEW y \in RecordType, NEW x \in Seq(Nat \X Nat), NEW n \in Nat
          PROVE  [entry |-> i, type |-> y, head |-> TRUE, want |-> n, data |-> x] \in RecordOf
      BY Zenon DEF RecordOf
    <3> QED BY <1>1, <1>3, <1>5, <3>1, Zenon
  <2>2. /\ Record(i, d, o).entry = i /\ Record(i, d, o).head = TRUE
        /\ Record(i, d, o).type = TypeAt(len, o) /\ Record(i, d, o).want = c
        /\ Record(i, d, o).data = bytes
    BY <1>5
  <2>3. Whole(Record(i, d, o))
    BY <1>3, <2>2, Zenon DEF Whole
  <2> QED BY <2>1, <2>2, <2>3, Zenon
<1> QED BY <1>3, <1>4, <1>6, Zenon DEF c

LEMMA FragmentFacts ==
    ASSUME NEW i \in Nat, NEW len \in Nat \ {0}, NEW d, d = Bytes(i, 0, len)
    PROVE  /\ Fragments(i, d) \in Seq(RecordOf)
           /\ \A k \in 1 .. Len(Fragments(i, d)) :
                 /\ (k - 1) * MaxRecord \in Nat /\ (k - 1) * MaxRecord < len
                 /\ Fragments(i, d)[k] = Record(i, d, (k - 1) * MaxRecord)
<1> DEFINE N == (len + MaxRecord - 1) \div MaxRecord
<1>1. N \in Nat
  BY Constants, Multiples
<1>2. Len(d) = len
  BY DEF Bytes
<1>3. Fragments(i, d) = [k \in 1 .. N |-> Record(i, d, (k - 1) * MaxRecord)]
  BY <1>2, Zenon DEF Fragments
<1>4. \A k \in 1 .. N : /\ (k - 1) * MaxRecord \in Nat /\ (k - 1) * MaxRecord < len
                        /\ Record(i, d, (k - 1) * MaxRecord) \in RecordOf
  BY Inside, RecordFacts, Zenon
<1> HIDE DEF N
<1> QED BY <1>1, <1>3, <1>4

(***************************************************************************)
(* The chain of records.                                                   *)
(***************************************************************************)
LEMMA RecordStarts ==
    ASSUME NEW ls \in Seq(Nat \ {0}), NEW i \in DOMAIN ls, NEW d, d = Bytes(i, 0, ls[i]),
           NEW o \in Nat, o < ls[i]
    PROVE  StartsAt(ls, Record(i, d, o), o)
<1>1. i \in Nat /\ ls[i] \in Nat \ {0}
  OBVIOUS
<1>2. Chunk(ls[i], o) \in Nat
  BY <1>1, Chunks, Zenon
<1> QED BY <1>1, <1>2, RecordFacts DEF StartsAt

LEMMA FragmentStarts ==
    ASSUME NEW ls \in Seq(Nat \ {0}), NEW i \in DOMAIN ls, NEW F,
           F = Fragments(i, Bytes(i, 0, ls[i]))
    PROVE  /\ F \in Seq(RecordOf)
           /\ \A j \in 1 .. Len(F) : \A o : o = (j - 1) * MaxRecord =>
                 /\ o \in Nat /\ StartsAt(ls, F[j], o) /\ F[j].entry = i /\ Whole(F[j])
<1> DEFINE d == Bytes(i, 0, ls[i])
<1>1. i \in Nat /\ ls[i] \in Nat \ {0}
  OBVIOUS
<1>2. /\ F \in Seq(RecordOf)
      /\ \A j \in 1 .. Len(F) : /\ (j - 1) * MaxRecord \in Nat /\ (j - 1) * MaxRecord < ls[i]
                                /\ F[j] = Record(i, d, (j - 1) * MaxRecord)
  BY <1>1, FragmentFacts, ZenonT(40)
<1>3. ASSUME NEW o \in Nat, o < ls[i]
      PROVE  StartsAt(ls, Record(i, d, o), o) /\ Record(i, d, o).entry = i /\ Whole(Record(i, d, o))
  <2>1. StartsAt(ls, Record(i, d, o), o)
    BY <1>3, RecordStarts, Zenon
  <2>2. Record(i, d, o).entry = i /\ Whole(Record(i, d, o))
    BY <1>1, <1>3, RecordFacts
  <2> QED BY <2>1, <2>2, Zenon
<1> HIDE DEF d
<1> QED BY <1>2, <1>3, Zenon

(* New entries leave the records of the others as they are.                *)
LEMMA StartsMore ==
    ASSUME NEW ls, NEW ls2, NEW r, NEW o, StartsAt(ls, r, o),
           \A e \in DOMAIN ls : e \in DOMAIN ls2 /\ ls2[e] = ls[e]
    PROVE  StartsAt(ls2, r, o)
<1>1. r.entry \in DOMAIN ls2 /\ ls2[r.entry] = ls[r.entry]
  BY Zenon DEF StartsAt
<1> QED BY <1>1, Zenon DEF StartsAt

LEMMA Prefix ==
    ASSUME NEW S, NEW s \in Seq(S), NEW n \in 0 .. Len(s)
    PROVE  /\ SubSeq(s, 1, n) \in Seq(S) /\ Len(SubSeq(s, 1, n)) = n
           /\ \A k \in 1 .. n : SubSeq(s, 1, n)[k] = s[k]
OBVIOUS

LEMMA Concat ==
    ASSUME NEW S, NEW x \in Seq(S), NEW y \in Seq(S)
    PROVE  /\ x \o y \in Seq(S) /\ Len(x \o y) = Len(x) + Len(y)
           /\ \A k \in 1 .. Len(x) : (x \o y)[k] = x[k]
           /\ \A k \in 1 .. Len(y) : (x \o y)[Len(x) + k] = y[k]
OBVIOUS

LEMMA Appended ==
    ASSUME NEW S, NEW s \in Seq(S), NEW x \in S, NEW n \in Nat, Len(s) = n
    PROVE  /\ Append(s, x) \in Seq(S) /\ Len(Append(s, x)) = n + 1
           /\ \A k \in 1 .. n : Append(s, x)[k] = s[k]
OBVIOUS

(* Fragments of a new entry i behind the records of older ones.            *)
LEMMA ChainedAppend ==
    ASSUME NEW ls, NEW s \in Seq(RecordOf), Chained(ls, s),
           NEW ls2 \in Seq(Nat \ {0}), NEW i \in DOMAIN ls2,
           \A e \in DOMAIN ls : e \in DOMAIN ls2 /\ ls2[e] = ls[e] /\ e < i,
           NEW F, F = Fragments(i, Bytes(i, 0, ls2[i])),
           NEW n \in 0 .. Len(F)
    PROVE  SubSeq(F, 1, n) \in Seq(RecordOf) /\ Chained(ls2, s \o SubSeq(F, 1, n))
<1> DEFINE p == SubSeq(F, 1, n)
<1>4. /\ F \in Seq(RecordOf)
      /\ \A j \in 1 .. Len(F) : \A o : o = (j - 1) * MaxRecord =>
            /\ o \in Nat /\ StartsAt(ls2, F[j], o) /\ F[j].entry = i /\ Whole(F[j])
  BY FragmentStarts
<1>5. p \in Seq(RecordOf) /\ Len(p) = n /\ \A j \in 1 .. n : p[j] = F[j]
  BY <1>4, Prefix, Zenon
<1>2. n \in Nat /\ Len(F) \in Nat /\ n <= Len(F)
  BY <1>4
<1> HIDE DEF p
<1>6. Chained(ls2, s \o p)
  <2> SUFFICES ASSUME NEW k \in DOMAIN (s \o p)
               PROVE  \E o \in Nat : StartsAt(ls2, (s \o p)[k], o) /\ Placed(ls2, s \o p, k, o)
    BY Zenon DEF Chained
  <2>0. k \in Nat /\ k >= 1 /\ k <= Len(s) + Len(p) /\ Len(s) \in Nat
    BY <1>5
  <2>1. CASE k <= Len(s)
    <3>1. k \in DOMAIN s /\ (s \o p)[k] = s[k] /\ (k > 1 => (s \o p)[k - 1] = s[k - 1])
      BY <1>5, <2>1, SMTT(30)
    <3>2. PICK o \in Nat : StartsAt(ls, s[k], o) /\ Placed(ls, s, k, o)
      BY <3>1, Zenon DEF Chained
    <3>3. \A r, x : StartsAt(ls, r, x) => StartsAt(ls2, r, x)
      BY StartsMore, Zenon
    <3>4. StartsAt(ls2, (s \o p)[k], o) /\ Placed(ls2, s \o p, k, o)
      BY <3>1, <3>2, <3>3, Zenon DEF Placed, Continues
    <3> QED BY <3>4, Zenon
  <2>2. CASE k = Len(s) + 1
    <3>1. 1 \in 1 .. n /\ (s \o p)[k] = F[1] /\ 1 \in 1 .. Len(F)
      BY <1>2, <1>5, <2>2
    <3>2. (1 - 1) * MaxRecord = 0
      BY Constants
    <3>3. StartsAt(ls2, (s \o p)[k], 0)
      BY <1>4, <3>1, <3>2, Zenon
    <3>4. k > 1 => (s \o p)[k - 1].entry < (s \o p)[k].entry
      <4> SUFFICES ASSUME k > 1 PROVE (s \o p)[k - 1].entry < (s \o p)[k].entry
        BY Zenon
      <4>1. Len(s) \in DOMAIN s /\ (s \o p)[k - 1] = s[Len(s)]
        BY <1>5, <2>2
      <4>2. s[Len(s)].entry \in DOMAIN ls
        BY <4>1, Zenon DEF Chained, StartsAt
      <4> QED BY <1>4, <3>1, <4>1, <4>2, Zenon
    <3> QED BY <3>3, <3>4, Zenon DEF Placed
  <2>3. CASE k > Len(s) + 1
    <3> DEFINE j == k - Len(s)
    <3>1. /\ j \in 1 .. Len(F) /\ j - 1 \in 1 .. Len(F) /\ j - 2 \in Nat
          /\ (s \o p)[k] = F[j] /\ (s \o p)[k - 1] = F[j - 1] /\ k > 1
      <4>1. /\ j \in 1 .. n /\ j - 1 \in 1 .. n /\ j - 2 \in Nat /\ k > 1
            /\ (k - 1) - Len(s) = j - 1 /\ k - 1 \in 1 .. Len(s) + Len(p)
        BY <1>5, <2>0, <2>3
      <4>2. (s \o p)[k] = p[j] /\ (s \o p)[k - 1] = p[j - 1]
        BY <1>5, <2>0, <2>3, <4>1, SMTT(30)
      <4>3. p[j] = F[j] /\ p[j - 1] = F[j - 1]
        <5> HIDE DEF j
        <5> QED BY <1>5, <4>1, Zenon
      <4>4. j \in 1 .. Len(F) /\ j - 1 \in 1 .. Len(F)
        <5> HIDE DEF j
        <5> QED BY <1>2, <4>1, SMTT(30)
      <4> QED BY <4>1, <4>2, <4>3, <4>4, Zenon
    <3> HIDE DEF j
    <3>2. /\ (j - 1) * MaxRecord = (j - 2) * MaxRecord + MaxRecord
          /\ (j - 2) * MaxRecord \in Nat
      <4>1. (j - 2) + 1 = j - 1
        BY <3>1
      <4> QED BY <3>1, <4>1, Constants, Distributes, Zenon
    <3>3. (j - 1) - 1 = j - 2
      BY <3>1
    <3>4. /\ StartsAt(ls2, F[j], (j - 1) * MaxRecord) /\ StartsAt(ls2, F[j - 1], (j - 2) * MaxRecord)
          /\ F[j].entry = F[j - 1].entry /\ Whole(F[j - 1])
      BY <1>4, <3>1, <3>3, Zenon
    <3> DEFINE o == (j - 1) * MaxRecord
    <3>5. o \in Nat /\ o # 0 /\ o >= MaxRecord /\ o - MaxRecord = (j - 2) * MaxRecord
      BY <3>2, Constants, SMTT(30)
    <3>6. StartsAt(ls2, F[j], o)
      BY <3>4, Zenon
    <3> HIDE DEF o
    <3>7. Placed(ls2, s \o p, k, o)
      BY <3>1, <3>4, <3>5, Zenon DEF Placed, Continues
    <3> QED BY <3>1, <3>5, <3>6, <3>7, Zenon
  <2> QED BY <2>0, <2>1, <2>2, <2>3, SMTT(30)
<1> QED BY <1>5, <1>6, Zenon DEF p

LEMMA ChainedPrefix ==
    ASSUME NEW ls, NEW s \in Seq(RecordOf), Chained(ls, s), NEW n \in 0 .. Len(s)
    PROVE  SubSeq(s, 1, n) \in Seq(RecordOf) /\ Chained(ls, SubSeq(s, 1, n))
<1> DEFINE p == SubSeq(s, 1, n)
<1>1. p \in Seq(RecordOf) /\ Len(p) = n /\ \A k \in 1 .. n : p[k] = s[k]
  BY Prefix, Zenon
<1> HIDE DEF p
<1>2. ASSUME NEW k \in DOMAIN p PROVE \E o \in Nat : StartsAt(ls, p[k], o) /\ Placed(ls, p, k, o)
  <2>1. k \in DOMAIN s /\ p[k] = s[k] /\ (k > 1 => p[k - 1] = s[k - 1])
    BY <1>1, <1>2
  <2>2. PICK o \in Nat : StartsAt(ls, s[k], o) /\ Placed(ls, s, k, o)
    BY <2>1, Zenon DEF Chained
  <2>3. StartsAt(ls, p[k], o) /\ Placed(ls, p, k, o)
    BY <2>1, <2>2, Zenon DEF Placed
  <2> QED BY <2>3, Zenon
<1> QED BY <1>1, <1>2, Zenon DEF Chained, p

(* A torn record is a shorter piece of the same fragment.                  *)
LEMMA TornStarts ==
    ASSUME NEW ls, NEW q \in RecordOf, NEW r \in Torn(q)
    PROVE  /\ r \in RecordOf /\ r.entry = q.entry /\ Len(r.data) <= Len(q.data)
           /\ \A o : StartsAt(ls, q, o) => StartsAt(ls, r, o)
<1>0. q.data \in Seq(Nat \X Nat) /\ q.want \in Nat
  BY Zenon DEF RecordOf
<1>1. CASE r = [q EXCEPT !.head = FALSE, !.data = <<>>]
  <2>1. r \in RecordOf
    <3>1. <<>> \in Seq(Nat \X Nat)
      OBVIOUS
    <3> QED BY <1>1, <3>1, Zenon DEF RecordOf
  <2>2. r.entry = q.entry /\ r.type = q.type /\ r.want = q.want /\ r.data = <<>>
    BY <1>1, Zenon DEF RecordOf
  <2>3. \A o : Bytes(q.entry, o, 0) = <<>>
    BY DEF Bytes
  <2> QED BY <1>0, <2>1, <2>2, <2>3 DEF StartsAt
<1>2. CASE \E b \in 0 .. Len(q.data) - 1 : r = [q EXCEPT !.data = SubSeq(q.data, 1, b)]
  <2>1. PICK b \in 0 .. Len(q.data) - 1 : r = [q EXCEPT !.data = SubSeq(q.data, 1, b)]
    BY <1>2, Zenon
  <2>2. SubSeq(q.data, 1, b) \in Seq(Nat \X Nat) /\ Len(SubSeq(q.data, 1, b)) = b
    BY <1>0, SMTT(30)
  <2>3. r \in RecordOf
    BY <2>1, <2>2, Zenon DEF RecordOf
  <2>4. r.entry = q.entry /\ r.type = q.type /\ r.want = q.want /\ r.data = SubSeq(q.data, 1, b)
    BY <2>1, Zenon DEF RecordOf
  <2>5. ASSUME NEW o, o \in Nat, q.data = Bytes(q.entry, o, Len(q.data))
        PROVE  SubSeq(q.data, 1, b) = Bytes(q.entry, o, b)
    <3>1. \A x \in 1 .. b : SubSeq(q.data, 1, b)[x] = <<q.entry, o + x>>
      <4>1. \A x \in 1 .. Len(q.data) : q.data[x] = <<q.entry, o + x>>
        BY <1>0, <2>5, Zenon DEF Bytes
      <4>2. \A x \in 1 .. b : SubSeq(q.data, 1, b)[x] = q.data[x]
        BY <1>0, Prefix
      <4>3. \A x \in 1 .. b : x \in 1 .. Len(q.data)
        BY <1>0, SMTT(30)
      <4> QED BY <4>1, <4>2, <4>3, Zenon
    <3> QED BY <2>2, <3>1 DEF Bytes
  <2>6. ASSUME NEW o, StartsAt(ls, q, o) PROVE StartsAt(ls, r, o)
    <3>1. SubSeq(q.data, 1, b) = Bytes(q.entry, o, b)
      BY <2>5, <2>6, Zenon DEF StartsAt
    <3>2. Len(r.data) = b /\ b <= q.want
      BY <1>0, <2>2, <2>4, <2>6 DEF StartsAt
    <3> QED BY <2>4, <2>6, <3>1, <3>2, Zenon DEF StartsAt
  <2> QED BY <1>0, <2>2, <2>3, <2>4, <2>6
<1> QED BY <1>1, <1>2, Zenon DEF Torn

LEMMA ChainedTorn ==
    ASSUME NEW ls, NEW s \in Seq(RecordOf), Chained(ls, s), NEW n \in 0 .. Len(s) - 1,
           NEW r \in Torn(s[n + 1])
    PROVE  /\ Append(SubSeq(s, 1, n), r) \in Seq(RecordOf)
           /\ Chained(ls, Append(SubSeq(s, 1, n), r))
<1> DEFINE p == Append(SubSeq(s, 1, n), r)
<1>0. n + 1 \in DOMAIN s /\ s[n + 1] \in RecordOf
  OBVIOUS
<1>1. r \in RecordOf /\ r.entry = s[n + 1].entry /\ \A o : StartsAt(ls, s[n + 1], o) => StartsAt(ls, r, o)
  BY <1>0, TornStarts, Zenon
<1>2. p \in Seq(RecordOf) /\ Len(p) = n + 1 /\ p[n + 1] = r /\ \A k \in 1 .. n : p[k] = s[k]
  BY <1>1
<1> HIDE DEF p
<1>3. ASSUME NEW k \in DOMAIN p PROVE \E o \in Nat : StartsAt(ls, p[k], o) /\ Placed(ls, p, k, o)
  <2>1. /\ k \in DOMAIN s /\ (k > 1 => p[k - 1] = s[k - 1]) /\ p[k].entry = s[k].entry
        /\ \A o : StartsAt(ls, s[k], o) => StartsAt(ls, p[k], o)
    BY <1>0, <1>1, <1>2, <1>3
  <2>2. PICK o \in Nat : StartsAt(ls, s[k], o) /\ Placed(ls, s, k, o)
    BY <2>1, Zenon DEF Chained
  <2>3. StartsAt(ls, p[k], o) /\ Placed(ls, p, k, o)
    BY <2>1, <2>2, Zenon DEF Placed, Continues
  <2> QED BY <2>3, Zenon
<1> QED BY <1>2, <1>3, Zenon DEF Chained, p

(***************************************************************************)
(* The steps of the writer.                                                *)
(***************************************************************************)
LEMMA GiveFacts ==
    ASSUME WalInv, NEW len \in Lens, Give(len)
    PROVE  /\ state = "up" /\ lens \in Seq(Nat \ {0}) /\ lens' \in Seq(Nat \ {0})
           /\ lens' \in Seq(Lens) /\ Len(lens') \in DOMAIN lens' /\ Len(lens') = Len(lens) + 1
           /\ \A e \in DOMAIN lens : e \in DOMAIN lens' /\ lens'[e] = lens[e] /\ e < Len(lens')
           /\ Data(Len(lens')) = Bytes(Len(lens'), 0, lens'[Len(lens')])
<1>1. lens \in Seq(Lens) /\ lens \in Seq(Nat \ {0}) /\ len \in Nat \ {0}
  <2>1. lens \in Seq(Lens)
    BY Zenon DEF WalInv, WTypeOK
  <2>2. ASSUME NEW S, NEW T, S \subseteq T, NEW s \in Seq(S) PROVE s \in Seq(T)
    BY <2>2
  <2> QED BY <2>1, <2>2, Constants, Zenon
<1>2. lens' = Append(lens, len) /\ state = "up"
  BY Zenon DEF Give
<1>3. /\ lens' \in Seq(Nat \ {0}) /\ lens' \in Seq(Lens)
      /\ Len(lens') \in DOMAIN lens' /\ Len(lens') = Len(lens) + 1
      /\ \A e \in DOMAIN lens : e \in DOMAIN lens' /\ lens'[e] = lens[e] /\ e < Len(lens')
  BY <1>1, <1>2
<1>4. Data(Len(lens')) = Bytes(Len(lens'), 0, lens'[Len(lens')])
  <2>1. \A b \in 1 .. lens'[Len(lens')] : 0 + b = b
    BY <1>3
  <2> QED BY <2>1, Zenon DEF Data, Bytes
<1> QED BY <1>1, <1>2, <1>3, <1>4, Zenon

(* A record of the chain is one of an entry given to append.               *)
LEMMA ChainTypes ==
    ASSUME NEW ls, NEW s \in Seq(RecordOf), Chained(ls, s)
    PROVE  \A k \in DOMAIN s : /\ s[k].type \in RecordType /\ s[k].head \in BOOLEAN
                               /\ s[k].entry \in DOMAIN ls /\ Len(s[k].data) <= s[k].want
<1>1. \A k \in DOMAIN s : s[k] \in RecordOf
  OBVIOUS
<1>2. \A k \in DOMAIN s : s[k].entry \in DOMAIN ls /\ Len(s[k].data) <= s[k].want
  BY Zenon DEF Chained, StartsAt
<1> QED BY <1>1, <1>2, Zenon DEF RecordOf

(* What is in the file or in the buffer is in the stream.                  *)
LEMMA StreamTypes ==
    ASSUME NEW ls, NEW f \in Seq(RecordOf), NEW b \in Seq(RecordOf), Chained(ls, f \o b)
    PROVE  \A s \in {f, b} : \A k \in DOMAIN s :
               /\ s[k].type \in RecordType /\ s[k].head \in BOOLEAN
               /\ s[k].entry \in DOMAIN ls /\ Len(s[k].data) <= s[k].want
<1>1. f \o b \in Seq(RecordOf)
  OBVIOUS
<1>2. \A k \in DOMAIN f : k \in DOMAIN (f \o b) /\ (f \o b)[k] = f[k]
  OBVIOUS
<1>3. \A k \in DOMAIN b : Len(f) + k \in DOMAIN (f \o b) /\ (f \o b)[Len(f) + k] = b[k]
  OBVIOUS
<1>4. \A k \in DOMAIN (f \o b) :
          /\ (f \o b)[k].type \in RecordType /\ (f \o b)[k].head \in BOOLEAN
          /\ (f \o b)[k].entry \in DOMAIN ls /\ Len((f \o b)[k].data) <= (f \o b)[k].want
  BY <1>1, ChainTypes, Zenon
<1>5. ASSUME NEW k \in DOMAIN f
      PROVE  /\ f[k].type \in RecordType /\ f[k].head \in BOOLEAN
             /\ f[k].entry \in DOMAIN ls /\ Len(f[k].data) <= f[k].want
  BY <1>2, <1>4, <1>5, Zenon
<1>6. ASSUME NEW k \in DOMAIN b
      PROVE  /\ b[k].type \in RecordType /\ b[k].head \in BOOLEAN
             /\ b[k].entry \in DOMAIN ls /\ Len(b[k].data) <= b[k].want
  BY <1>3, <1>4, <1>6, Zenon
<1> QED BY <1>5, <1>6, Zenon

(* An append, complete or not, writes fragments of one new entry.          *)
LEMMA AppendShape ==
    ASSUME WalInv, AppendEntry \/ AppendFails
    PROVE  \E len \in Lens :
             /\ Give(len)
             /\ \E n \in 0 .. Len(Fragments(Len(lens'), Data(Len(lens')))) :
                   /\ buffer' = buffer \o SubSeq(Fragments(Len(lens'), Data(Len(lens'))), 1, n)
                   /\ \/ added' = added
                      \/ /\ added' = added \cup {Len(lens')}
                         /\ n = Len(Fragments(Len(lens'), Data(Len(lens'))))
             /\ errors' \in {errors, errors + 1}
             /\ UNCHANGED <<state, file, durable, synced, reader, stops>>
<1>1. CASE AppendEntry
  <2>1. PICK len \in Lens :
          /\ Give(len)
          /\ buffer' = buffer \o Fragments(Len(lens'), Data(Len(lens')))
          /\ added' = added \cup {Len(lens')}
          /\ UNCHANGED <<state, file, durable, synced, errors, reader, stops>>
    BY <1>1, Zenon DEF AppendEntry
  <2>2. LET F == Fragments(Len(lens'), Data(Len(lens')))
        IN  Len(F) \in 0 .. Len(F) /\ SubSeq(F, 1, Len(F)) = F
    <3>1. Len(lens') \in Nat /\ lens'[Len(lens')] \in Nat \ {0}
      BY <2>1, GiveFacts
    <3>2. Fragments(Len(lens'), Data(Len(lens'))) \in Seq(RecordOf)
      BY <2>1, <3>1, GiveFacts, FragmentFacts, Zenon
    <3> QED BY <3>2
  <2> QED BY <2>1, <2>2, Zenon
<1>2. CASE AppendFails
  <2>1. PICK len \in Lens :
          /\ Give(len) /\ errors' = errors + 1
          /\ \E n \in 0 .. Len(Fragments(Len(lens'), Data(Len(lens')))) - 1 :
                buffer' = buffer \o SubSeq(Fragments(Len(lens'), Data(Len(lens'))), 1, n)
          /\ UNCHANGED <<state, file, durable, added, synced, reader, stops>>
    BY <1>2, Zenon DEF AppendFails
  <2>2. Len(Fragments(Len(lens'), Data(Len(lens')))) \in Nat
    <3>1. Len(lens') \in Nat /\ lens'[Len(lens')] \in Nat \ {0}
      BY <2>1, GiveFacts
    <3>2. Fragments(Len(lens'), Data(Len(lens'))) \in Seq(RecordOf)
      BY <2>1, <3>1, GiveFacts, FragmentFacts, Zenon
    <3> QED BY <3>2
  <2>3. \E n \in 0 .. Len(Fragments(Len(lens'), Data(Len(lens')))) :
           buffer' = buffer \o SubSeq(Fragments(Len(lens'), Data(Len(lens'))), 1, n)
    <3> DEFINE F == Fragments(Len(lens'), Data(Len(lens')))
    <3>1. \A n \in 0 .. Len(F) - 1 : n \in 0 .. Len(F)
      <4> HIDE DEF F
      <4> QED BY <2>2 DEF F
    <3> QED BY <2>1, <3>1, Zenon
  <2> QED BY <2>1, <2>3, Zenon
<1> QED BY <1>1, <1>2, Zenon

LEMMA AppendStep ==
    ASSUME WalInv, AppendEntry \/ AppendFails PROVE WalInv'
<1>1. PICK len \in Lens :
        /\ Give(len)
        /\ \E n \in 0 .. Len(Fragments(Len(lens'), Data(Len(lens')))) :
              buffer' = buffer \o SubSeq(Fragments(Len(lens'), Data(Len(lens'))), 1, n)
        /\ added' \subseteq added \cup {Len(lens')}
        /\ errors' \in {errors, errors + 1}
        /\ UNCHANGED <<state, file, durable, synced, reader, stops>>
  BY AppendShape, Zenon
<1>2. /\ state = "up" /\ lens \in Seq(Nat \ {0}) /\ lens' \in Seq(Nat \ {0})
      /\ lens' \in Seq(Lens) /\ Len(lens') \in DOMAIN lens' /\ Len(lens') = Len(lens) + 1
      /\ \A e \in DOMAIN lens : e \in DOMAIN lens' /\ lens'[e] = lens[e] /\ e < Len(lens')
      /\ Data(Len(lens')) = Bytes(Len(lens'), 0, lens'[Len(lens')])
  BY <1>1, GiveFacts, Zenon
<1>3. PICK n \in 0 .. Len(Fragments(Len(lens'), Data(Len(lens')))) :
        buffer' = buffer \o SubSeq(Fragments(Len(lens'), Data(Len(lens'))), 1, n)
  BY <1>1, Zenon
<1>4. /\ file \in Seq(RecordOf) /\ buffer \in Seq(RecordOf) /\ Chained(lens, file \o buffer)
      /\ file \o buffer \in Seq(RecordOf)
  BY DEF WalInv, Stream
<1> DEFINE p == SubSeq(Fragments(Len(lens'), Data(Len(lens'))), 1, n)
<1>5. p \in Seq(RecordOf) /\ Chained(lens', (file \o buffer) \o p)
  BY <1>2, <1>3, <1>4, ChainedAppend, Zenon
<1> HIDE DEF p
<1>6. (file \o buffer) \o p = file \o (buffer \o p) /\ buffer \o p \in Seq(RecordOf)
  BY <1>4, <1>5, SMTT(30)
<1>7. buffer' \in Seq(RecordOf) /\ Chained(lens', file \o buffer') /\ file' = file
  BY <1>1, <1>3, <1>5, <1>6, Zenon DEF p
<1>8. WTypeOK'
  <2>1. \A s \in {buffer', file'} : \A k \in DOMAIN s :
           /\ s[k].type \in RecordType /\ s[k].head \in BOOLEAN
           /\ s[k].entry \in DOMAIN lens' /\ Len(s[k].data) <= s[k].want
    BY <1>4, <1>7, StreamTypes, ZenonT(40)
  <2>2. synced' \cup added' \subseteq DOMAIN lens'
    BY <1>1, <1>2, Zenon DEF WalInv, WTypeOK
  <2>3. /\ UNCHANGED <<state, durable, position, expecting, stops>> /\ file' = file
        /\ errors' \in {errors, errors + 1}
    BY <1>1, Zenon DEF reader
  <2>4. errors' \in Nat
    BY <2>3 DEF WalInv, WTypeOK
  <2> QED BY <1>2, <2>1, <2>2, <2>3, <2>4, Zenon DEF WalInv, WTypeOK
<1> QED BY <1>1, <1>2, <1>4, <1>7, <1>8, Zenon DEF WalInv, Stream, reader

(* An append that tears a record cuts the stream with the new entry short. *)
LEMMA TearsShape ==
    ASSUME WalInv, AppendTears
    PROVE  \E len \in Lens :
             /\ Give(len)
             /\ \E F : /\ F = Fragments(Len(lens'), Bytes(Len(lens'), 0, lens'[Len(lens')]))
                      /\ F \in Seq(RecordOf) /\ Len(F) \in 0 .. Len(F) /\ SubSeq(F, 1, Len(F)) = F
                      /\ \E n \in Len(Stream) .. Len(Stream \o F) - 1 :
                            \E r \in Torn((Stream \o F)[n + 1]) : file' = Append(SubSeq(Stream \o F, 1, n), r)
             /\ buffer' = <<>> /\ errors' = errors + 1
             /\ UNCHANGED <<state, durable, added, synced, reader, stops>>
<1>1. PICK len \in Lens :
        /\ Give(len) /\ errors' = errors + 1
        /\ \E n \in Len(Stream) .. Len(Stream \o Fragments(Len(lens'), Data(Len(lens')))) - 1 :
              \E r \in Torn((Stream \o Fragments(Len(lens'), Data(Len(lens'))))[n + 1]) :
                 file' = Append(SubSeq(Stream \o Fragments(Len(lens'), Data(Len(lens'))), 1, n), r)
        /\ buffer' = <<>>
        /\ UNCHANGED <<state, durable, added, synced, reader, stops>>
  BY Zenon DEF AppendTears, Stream
<1>2. /\ Data(Len(lens')) = Bytes(Len(lens'), 0, lens'[Len(lens')])
      /\ Len(lens') \in Nat /\ lens'[Len(lens')] \in Nat \ {0}
  BY <1>1, GiveFacts
<1> DEFINE F == Fragments(Len(lens'), Data(Len(lens')))
<1>3. F \in Seq(RecordOf)
  BY <1>2, FragmentFacts, Zenon
<1>4. Len(F) \in 0 .. Len(F) /\ SubSeq(F, 1, Len(F)) = F
  BY <1>3
<1> QED BY <1>1, <1>2, <1>3, <1>4, Zenon

(* What was written stays, up to the record torn.                          *)
LEMMA StreamStays ==
    ASSUME NEW s \in Seq(RecordOf), NEW F \in Seq(RecordOf), NEW r \in RecordOf,
           NEW n \in Len(s) .. Len(s \o F) - 1
    PROVE  /\ n \in 0 .. Len(s \o F) - 1 /\ n + 1 \in DOMAIN (s \o F)
           /\ Append(SubSeq(s \o F, 1, n), r) \in Seq(RecordOf)
           /\ Len(Append(SubSeq(s \o F, 1, n), r)) = n + 1 /\ n \in Nat /\ Len(s) <= n
           /\ \A k \in 1 .. Len(s) : Append(SubSeq(s \o F, 1, n), r)[k] = s[k]
<1> DEFINE t == s \o F
<1>1. t \in Seq(RecordOf) /\ Len(t) = Len(s) + Len(F) /\ \A k \in 1 .. Len(s) : t[k] = s[k]
  BY Concat, Zenon
<1>2. n \in Len(s) .. Len(t) - 1
  BY Zenon
<1> HIDE DEF t
<1>3. /\ n \in 0 .. Len(t) - 1 /\ n + 1 \in DOMAIN t /\ n \in 0 .. Len(t) /\ n \in Nat /\ Len(s) <= n
      /\ \A k \in 1 .. Len(s) : k \in 1 .. n
  BY <1>1, <1>2
<1>4. /\ SubSeq(t, 1, n) \in Seq(RecordOf) /\ Len(SubSeq(t, 1, n)) = n
      /\ \A k \in 1 .. n : SubSeq(t, 1, n)[k] = t[k]
  BY <1>1, <1>3, Prefix, Zenon
<1>5. /\ Append(SubSeq(t, 1, n), r) \in Seq(RecordOf) /\ Len(Append(SubSeq(t, 1, n), r)) = n + 1
      /\ \A k \in 1 .. n : Append(SubSeq(t, 1, n), r)[k] = SubSeq(t, 1, n)[k]
  BY <1>3, <1>4, Appended, Zenon
<1>6. \A k \in 1 .. Len(s) : Append(SubSeq(t, 1, n), r)[k] = s[k]
  BY <1>1, <1>3, <1>4, <1>5, Zenon
<1> QED BY <1>3, <1>5, <1>6, Zenon DEF t

LEMMA TearsStep == ASSUME WalInv, AppendTears PROVE WalInv'
<1>1. PICK len \in Lens :
        /\ Give(len)
        /\ \E F : /\ F = Fragments(Len(lens'), Bytes(Len(lens'), 0, lens'[Len(lens')]))
                 /\ F \in Seq(RecordOf) /\ Len(F) \in 0 .. Len(F) /\ SubSeq(F, 1, Len(F)) = F
                 /\ \E n \in Len(Stream) .. Len(Stream \o F) - 1 :
                       \E r \in Torn((Stream \o F)[n + 1]) : file' = Append(SubSeq(Stream \o F, 1, n), r)
        /\ buffer' = <<>> /\ errors' = errors + 1
        /\ UNCHANGED <<state, durable, added, synced, reader, stops>>
  BY TearsShape, Zenon
<1>2. /\ state = "up" /\ lens' \in Seq(Nat \ {0}) /\ lens' \in Seq(Lens) /\ Len(lens') \in DOMAIN lens'
      /\ \A e \in DOMAIN lens : e \in DOMAIN lens' /\ lens'[e] = lens[e] /\ e < Len(lens')
  BY <1>1, GiveFacts, Zenon
<1>3. PICK F : /\ F = Fragments(Len(lens'), Bytes(Len(lens'), 0, lens'[Len(lens')]))
               /\ F \in Seq(RecordOf) /\ Len(F) \in 0 .. Len(F) /\ SubSeq(F, 1, Len(F)) = F
               /\ \E n \in Len(Stream) .. Len(Stream \o F) - 1 :
                     \E r \in Torn((Stream \o F)[n + 1]) : file' = Append(SubSeq(Stream \o F, 1, n), r)
  BY <1>1, Zenon
<1>f. PICK n \in Len(Stream) .. Len(Stream \o F) - 1 :
        \E r \in Torn((Stream \o F)[n + 1]) : file' = Append(SubSeq(Stream \o F, 1, n), r)
  BY <1>3, Zenon
<1>4. PICK r \in Torn((Stream \o F)[n + 1]) : file' = Append(SubSeq(Stream \o F, 1, n), r)
  BY <1>f, Zenon
<1>5. /\ file \in Seq(RecordOf) /\ buffer \in Seq(RecordOf) /\ Chained(lens, Stream)
      /\ Stream = file \o buffer /\ durable \in 0 .. Len(file) /\ errors \in Nat
      /\ entries \in Seq(Seq(Nat \X Nat)) /\ Len(file) \in Nat
  BY DEF WalInv, WTypeOK, Stream
<1>6. Stream \in Seq(RecordOf) /\ Stream \o F \in Seq(RecordOf)
  BY <1>3, <1>5
<1>7. Chained(lens', Stream \o F)
  BY <1>2, <1>3, <1>5, <1>6, ChainedAppend, Zenon
<1>8. n \in 0 .. Len(Stream \o F) - 1 /\ n + 1 \in DOMAIN (Stream \o F)
  <2>1. Len(Stream) \in Nat /\ Len(Stream \o F) \in Nat
    BY <1>6
  <2> QED BY <1>6, <2>1
<1>9. file' \in Seq(RecordOf) /\ Chained(lens', file')
  BY <1>4, <1>6, <1>7, <1>8, ChainedTorn, Zenon
<1>10. r \in RecordOf
  <2>1. (Stream \o F)[n + 1] \in RecordOf
    BY <1>6, <1>8
  <2> QED BY <2>1, TornStarts, Zenon
<1>11. Len(file') \in Nat /\ Len(file) <= Len(file')
  <2>0. Len(Append(SubSeq(Stream \o F, 1, n), r)) = n + 1 /\ n \in Nat /\ Len(Stream) <= n
    <3>1. F \in Seq(RecordOf)
      BY <1>3, Zenon
    <3> QED BY <3>1, <1>6, <1>10, StreamStays, Zenon
  <2>1. Len(file') = n + 1 /\ n \in Nat /\ Len(Stream) <= n
    BY <1>4, <2>0, Zenon
  <2>2. Len(Stream) = Len(file) + Len(buffer) /\ Len(buffer) \in Nat
    BY <1>5
  <2> QED BY <1>5, <2>1, <2>2
<1>12. durable' \in 0 .. Len(file') /\ errors' \in Nat
  BY <1>1, <1>5, <1>11
<1>13. buffer' \in Seq(RecordOf) /\ file' \o buffer' = file'
  BY <1>1, <1>9
<1>14. \A s \in {buffer', file'} : \A k \in DOMAIN s :
         /\ s[k].type \in RecordType /\ s[k].head \in BOOLEAN
         /\ s[k].entry \in DOMAIN lens' /\ Len(s[k].data) <= s[k].want
  <2>1. Chained(lens', file' \o buffer')
    BY <1>9, <1>13, Zenon
  <2> QED BY <1>9, <1>13, <2>1, StreamTypes, ZenonT(40)
<1>15. WTypeOK'
  <2>1. synced' \cup added' \subseteq DOMAIN lens'
    BY <1>1, <1>2, Zenon DEF WalInv, WTypeOK
  <2>2. UNCHANGED <<state, position, expecting, stops>>
    BY <1>1, Zenon DEF reader
  <2> QED BY <1>2, <1>12, <1>14, <2>1, <2>2, Zenon DEF WalInv, WTypeOK
<1> QED BY <1>1, <1>2, <1>5, <1>9, <1>13, <1>15, Zenon DEF WalInv, Stream, reader

(* The types, from the chain and from what a step of the writer leaves.    *)
LEMMA WriterTypes ==
    ASSUME WTypeOK, file' \in Seq(RecordOf), buffer' \in Seq(RecordOf),
           Chained(lens, file' \o buffer'), state' \in {"up", "down"}, durable' \in 0 .. Len(file'),
           added' \subseteq DOMAIN lens, synced' \subseteq DOMAIN lens, stops' \in Nat,
           UNCHANGED <<lens, errors, reader>>
    PROVE  WTypeOK'
<1>1. \A s \in {buffer', file'} : \A k \in DOMAIN s :
         /\ s[k].type \in RecordType /\ s[k].head \in BOOLEAN
         /\ s[k].entry \in DOMAIN lens' /\ Len(s[k].data) <= s[k].want
  BY StreamTypes, Zenon
<1>2. state' \in {"up", "down", "recovering", "recovered", "failed"}
  BY Zenon
<1>3. lens' = lens /\ errors' = errors /\ position' = position /\ expecting' = expecting
  BY Zenon DEF reader
<1>4. synced' \cup added' \subseteq DOMAIN lens'
  BY <1>3, Zenon
<1> QED BY <1>1, <1>2, <1>3, <1>4, Zenon DEF WTypeOK

(* The writer's other steps and the end of the process keep the stream, or *)
(* cut it.                                                                 *)
LEMMA WriterStep ==
    ASSUME WalInv, SpillRecord \/ Sync \/ DropWriter \/ Crash PROVE WalInv'
<1>0. /\ file \in Seq(RecordOf) /\ buffer \in Seq(RecordOf) /\ Chained(lens, file \o buffer)
      /\ entries \in Seq(Seq(Nat \X Nat)) /\ WTypeOK /\ durable \in 0 .. Len(file) /\ stops \in Nat
      /\ added \subseteq DOMAIN lens /\ synced \subseteq DOMAIN lens
      /\ file \o buffer \in Seq(RecordOf) /\ Len(file) \in Nat
      /\ state # "up" => buffer = <<>>
  BY DEF WalInv, Stream, WTypeOK
<1>1. CASE SpillRecord
  <2>1. /\ file' = Append(file, Head(buffer)) /\ buffer' = Tail(buffer) /\ buffer # <<>>
        /\ state = "up" /\ UNCHANGED <<state, durable, lens, added, synced, errors, reader, stops>>
    BY <1>1, Zenon DEF SpillRecord
  <2>2. /\ file' \in Seq(RecordOf) /\ buffer' \in Seq(RecordOf) /\ Len(file') = Len(file) + 1
        /\ file' \o buffer' = file \o buffer
    BY <1>0, <2>1, SMTT(30)
  <2>3. durable' \in 0 .. Len(file')
    BY <1>0, <2>1, <2>2
  <2>4. WTypeOK'
    BY <1>0, <2>1, <2>2, <2>3, WriterTypes, Zenon
  <2> QED BY <1>0, <2>1, <2>2, <2>4, Zenon DEF WalInv, Stream, reader
<1>2. CASE Sync \/ DropWriter
  <2>1. /\ file' = file \o buffer /\ buffer' = <<>> /\ state' \in {"up", "down"}
        /\ added' \subseteq added /\ synced' \subseteq synced \cup added
        /\ durable' \in {durable, Len(file')} /\ stops' \in {stops, stops + 1}
        /\ UNCHANGED <<lens, errors, reader>>
    BY <1>2, Zenon DEF Sync, DropWriter, Stop
  <2>2. /\ file' \in Seq(RecordOf) /\ buffer' \in Seq(RecordOf)
        /\ Len(file') = Len(file) + Len(buffer) /\ file' \o buffer' = file \o buffer
    BY <1>0, <2>1
  <2>3. durable' \in 0 .. Len(file') /\ stops' \in Nat
    BY <1>0, <2>1, <2>2
  <2>4. WTypeOK'
    BY <1>0, <2>1, <2>2, <2>3, WriterTypes, Zenon
  <2> QED BY <1>0, <2>1, <2>2, <2>4, Zenon DEF WalInv, Stream, reader
<1>3. CASE Crash
  <2>1. /\ file' = file /\ buffer' = <<>> /\ state' = "down" /\ added' = {}
        /\ stops' = stops + 1 /\ UNCHANGED <<durable, lens, synced, errors, reader>>
    BY <1>3, Zenon DEF Crash, Stop
  <2>2. file' \o buffer' = SubSeq(file \o buffer, 1, Len(file)) /\ buffer' \in Seq(RecordOf)
    BY <1>0, <2>1
  <2>3. Chained(lens, file' \o buffer')
    <3>1. Len(file) \in 0 .. Len(file \o buffer)
      BY <1>0
    <3> QED BY <1>0, <2>2, <3>1, ChainedPrefix, Zenon
  <2>4. WTypeOK'
    BY <1>0, <2>1, <2>2, <2>3, WriterTypes
  <2> QED BY <1>0, <2>1, <2>2, <2>3, <2>4, Zenon DEF WalInv, Stream, reader
<1> QED BY <1>1, <1>2, <1>3, Zenon

LEMMA PowerStep == ASSUME WalInv, PowerLoss PROVE WalInv'
<1>0. /\ file \in Seq(RecordOf) /\ buffer \in Seq(RecordOf) /\ Chained(lens, file \o buffer)
      /\ entries \in Seq(Seq(Nat \X Nat)) /\ WTypeOK /\ durable \in 0 .. Len(file) /\ stops \in Nat
      /\ synced \subseteq DOMAIN lens
      /\ file \o buffer \in Seq(RecordOf) /\ Len(file) \in Nat
  BY DEF WalInv, Stream, WTypeOK
<1>1. /\ buffer' = <<>> /\ state' = "down" /\ added' = {} /\ stops' = stops + 1
      /\ UNCHANGED <<durable, lens, synced, errors, reader>>
  BY Zenon DEF PowerLoss, Stop
<1>2. PICK n \in durable .. Len(file) - 1 :
          \/ file' = SubSeq(file, 1, n)
          \/ \E r \in Torn(file[n + 1]) : file' = Append(SubSeq(file, 1, n), r)
  BY Zenon DEF PowerLoss
<1>3. Chained(lens, file)
  <2>1. SubSeq(file \o buffer, 1, Len(file)) = file /\ Len(file) \in 0 .. Len(file \o buffer)
    BY <1>0
  <2> QED BY <1>0, <2>1, ChainedPrefix, Zenon
<1>4. n \in 0 .. Len(file) /\ n \in 0 .. Len(file) - 1 /\ durable <= n /\ n \in Nat
  BY <1>0
<1>5. file' \in Seq(RecordOf) /\ Chained(lens, file') /\ Len(file') \in Nat /\ n <= Len(file')
  <2>1. CASE file' = SubSeq(file, 1, n)
    <3>1. file' \in Seq(RecordOf) /\ Chained(lens, file')
      BY <1>0, <1>3, <1>4, <2>1, ChainedPrefix, Zenon
    <3>2. Len(file') = n
      BY <1>0, <1>4, <2>1, Prefix, Zenon
    <3> QED BY <1>4, <3>1, <3>2
  <2>2. CASE \E r \in Torn(file[n + 1]) : file' = Append(SubSeq(file, 1, n), r)
    <3>1. PICK r \in Torn(file[n + 1]) : file' = Append(SubSeq(file, 1, n), r)
      BY <2>2, Zenon
    <3>2. file' \in Seq(RecordOf) /\ Chained(lens, file')
      BY <1>0, <1>3, <1>4, <3>1, ChainedTorn, Zenon
    <3>3. SubSeq(file, 1, n) \in Seq(RecordOf) /\ Len(SubSeq(file, 1, n)) = n
      BY <1>0, <1>4, Prefix, Zenon
    <3>4. Len(file') = n + 1
      BY <3>1, <3>3
    <3> QED BY <1>4, <3>2, <3>4
  <2> QED BY <1>2, <2>1, <2>2, Zenon
<1>6. file' \o buffer' = file' /\ buffer' \in Seq(RecordOf)
  BY <1>1, <1>5
<1>7. durable' \in 0 .. Len(file') /\ stops' \in Nat
  BY <1>0, <1>1, <1>4, <1>5
<1>8. WTypeOK'
  BY <1>0, <1>1, <1>5, <1>6, <1>7, WriterTypes, Zenon
<1> QED BY <1>0, <1>1, <1>5, <1>6, <1>8, Zenon DEF WalInv, Stream, reader

(***************************************************************************)
(* The steps of the reader.                                                *)
(***************************************************************************)
LEMMA EntryBytes == ASSUME NEW i, lens[i] \in Nat PROVE Entry(i) = Bytes(i, 0, lens[i])
<1>1. \A b \in 1 .. lens[i] : 0 + b = b
  OBVIOUS
<1> QED BY <1>1, Zenon DEF Entry, Bytes

LEMMA SameSeq ==
    ASSUME NEW S, NEW x \in Seq(S), NEW z \in Seq(S), Len(x) = Len(z),
           \A b \in 1 .. Len(x) : x[b] = z[b]
    PROVE  x = z
OBVIOUS

LEMMA BytesJoin ==
    ASSUME NEW i \in Nat, NEW o \in Nat, NEW n \in Nat
    PROVE  /\ Bytes(i, 0, o) \o Bytes(i, o, n) = Bytes(i, 0, o + n)
           /\ Bytes(i, 0, o) \in Seq(Nat \X Nat)
<1> DEFINE x == Bytes(i, 0, o)
           y == Bytes(i, o, n)
           z == Bytes(i, 0, o + n)
<1>1. x \in Seq(Nat \X Nat) /\ Len(x) = o /\ \A b \in 1 .. o : x[b] = <<i, b>>
  BY DEF Bytes
<1>2. y \in Seq(Nat \X Nat) /\ Len(y) = n /\ \A b \in 1 .. n : y[b] = <<i, o + b>>
  BY DEF Bytes
<1>3. z \in Seq(Nat \X Nat) /\ Len(z) = o + n /\ \A b \in 1 .. o + n : z[b] = <<i, b>>
  BY DEF Bytes
<1> HIDE DEF x, y, z
<1>4. /\ x \o y \in Seq(Nat \X Nat) /\ Len(x \o y) = o + n
      /\ \A b \in 1 .. o : (x \o y)[b] = x[b]
      /\ \A b \in 1 .. n : (x \o y)[o + b] = y[b]
  <2>1. x \in Seq(Nat \X Nat) /\ y \in Seq(Nat \X Nat) /\ Len(x) = o /\ Len(y) = n
    BY <1>1, <1>2, Zenon
  <2>2. ASSUME NEW S, x \in Seq(S), y \in Seq(S)
        PROVE  /\ x \o y \in Seq(S) /\ Len(x \o y) = Len(x) + Len(y)
               /\ \A b \in 1 .. Len(x) : (x \o y)[b] = x[b]
               /\ \A b \in 1 .. Len(y) : (x \o y)[Len(x) + b] = y[b]
    BY <2>2
  <2> QED BY <2>1, <2>2, Zenon
<1>5. ASSUME NEW b \in 1 .. o + n PROVE (x \o y)[b] = z[b]
  <2>1. CASE b \in 1 .. o
    BY <1>1, <1>3, <1>4, <2>1, Zenon
  <2>2. CASE b \notin 1 .. o
    <3>1. PICK c \in 1 .. n : b = o + c
      <4>1. b - o \in 1 .. n /\ b = o + (b - o)
        BY <2>2
      <4> QED BY <4>1, Zenon
    <3>2. (x \o y)[b] = <<i, b>>
      BY <1>2, <1>4, <3>1, Zenon
    <3> QED BY <1>3, <3>2, Zenon
  <2> QED BY <2>1, <2>2, Zenon
<1>6. x \o y = z
  BY <1>3, <1>4, <1>5, SameSeq, Zenon
<1> QED BY <1>1, <1>6, Zenon DEF x, y, z

(* The offset of a whole record can be read off its bytes.                 *)
LEMMA OneOffset ==
    ASSUME NEW ls \in Seq(Nat \ {0}), NEW r \in RecordOf, Whole(r), NEW o, NEW p,
           StartsAt(ls, r, o), StartsAt(ls, r, p)
    PROVE  o = p
<1>1. ls[r.entry] \in Nat /\ o \in Nat /\ p \in Nat /\ o < ls[r.entry]
  BY DEF StartsAt
<1>2. Len(r.data) >= 1 /\ Len(r.data) \in Nat
  BY <1>1, Chunks, Zenon DEF StartsAt, Whole
<1>3. r.data[1] = <<r.entry, o + 1>> /\ r.data[1] = <<r.entry, p + 1>>
  <2>1. 1 \in 1 .. Len(r.data)
    BY <1>2
  <2>2. Bytes(r.entry, o, Len(r.data))[1] = <<r.entry, o + 1>>
    BY <2>1, Zenon DEF Bytes
  <2>3. Bytes(r.entry, p, Len(r.data))[1] = <<r.entry, p + 1>>
    BY <2>1, Zenon DEF Bytes
  <2> QED BY <2>2, <2>3, Zenon DEF StartsAt
<1> QED BY <1>1, <1>3

(* The context of a step of the reader.                                    *)
Reading ==
    /\ WalInv /\ state = "recovering" /\ position \in DOMAIN file /\ Whole(file[position])
    /\ UNCHANGED <<writer, stops>>

LEMMA ReadingFacts ==
    ASSUME Reading
    PROVE  /\ lens \in Seq(Nat \ {0}) /\ file \in Seq(RecordOf) /\ position \in Nat /\ position >= 1
           /\ Chained(lens, file) /\ entries \in Seq(Seq(Nat \X Nat))
           /\ file[position] \in RecordOf /\ file[position].entry \in DOMAIN lens
           /\ position > 1 => position - 1 \in DOMAIN file /\ file[position - 1] \in RecordOf
<1>1. /\ file \in Seq(RecordOf) /\ buffer = <<>> /\ Chained(lens, file \o buffer)
      /\ lens \in Seq(Lens) /\ position \in DOMAIN file /\ entries \in Seq(Seq(Nat \X Nat))
  BY Zenon DEF Reading, WalInv, WTypeOK, Stream
<1>2. file \o buffer = file
  BY <1>1
<1>3. lens \in Seq(Nat \ {0})
  <2>1. ASSUME NEW S, NEW T, S \subseteq T, NEW s \in Seq(S) PROVE s \in Seq(T)
    BY <2>1
  <2> QED BY <1>1, <2>1, Constants, Zenon
<1>4. /\ position \in Nat /\ position >= 1 /\ file[position] \in RecordOf
      /\ position > 1 => position - 1 \in DOMAIN file /\ file[position - 1] \in RecordOf
  BY <1>1
<1>5. file[position].entry \in DOMAIN lens
  BY <1>1, <1>2, Zenon DEF Chained, StartsAt
<1> QED BY <1>1, <1>2, <1>3, <1>4, <1>5, Zenon

(* A step of the reader that goes on keeps the types.                      *)
LEMMA ReaderTypes ==
    ASSUME Reading, state' = state, position' = position + 1, expecting' \in BOOLEAN,
           entries' \in Seq(Seq(Nat \X Nat)), InProgress',
           \E ids \in [DOMAIN entries' -> DOMAIN lens] : Returned(ids)'
    PROVE  WalInv'
<1>1. /\ UNCHANGED <<buffer, file, durable, lens, added, synced, errors, stops>>
      /\ WalInv /\ WTypeOK /\ state = "recovering"
  BY Zenon DEF Reading, writer, WalInv
<1>2. position' \in Nat \ {0} /\ position' <= Len(file') + 1
  BY <1>1, ReadingFacts, SMTT(30) DEF Reading
<1>3. WTypeOK'
  BY <1>1, <1>2, Zenon DEF WTypeOK
<1>4. Chained(lens', Stream')
  BY <1>1, Zenon DEF WalInv, Stream
<1> QED BY <1>1, <1>2, <1>3, <1>4, Zenon DEF WalInv

(* An entry is returned.                                                   *)
LEMMA AcceptKeeps ==
    ASSUME Reading, NEW e, e = file[position].entry, Accept(Entry(e)),
           NEW ids \in [DOMAIN entries -> DOMAIN lens], Returned(ids),
           \A k \in DOMAIN entries : ids[k] < e
    PROVE  WalInv'
<1>1. /\ entries' = Append(entries, Entry(e)) /\ expecting' = FALSE /\ position' = position + 1
      /\ UNCHANGED <<state, file, lens>>
  BY Zenon DEF Accept, Reading, writer
<1>2. /\ entries \in Seq(Seq(Nat \X Nat)) /\ e \in DOMAIN lens /\ e \in Nat /\ position \in Nat
      /\ position >= 1 /\ lens[e] \in Nat
  BY ReadingFacts
<1>3. Entry(e) \in Seq(Nat \X Nat)
  <2>1. Entry(e) = Bytes(e, 0, lens[e])
    BY <1>2, EntryBytes, Zenon
  <2>2. Bytes(e, 0, lens[e]) \in Seq(Nat \X Nat)
    BY <1>2, BytesJoin, Zenon
  <2> QED BY <2>1, <2>2, Zenon
<1>4. /\ entries' \in Seq(Seq(Nat \X Nat)) /\ DOMAIN entries' = 1 .. Len(entries) + 1
      /\ DOMAIN entries = 1 .. Len(entries) /\ Len(entries) \in Nat
      /\ entries'[Len(entries) + 1] = Entry(e)
      /\ \A k \in DOMAIN entries : entries'[k] = entries[k]
  BY <1>1, <1>2, <1>3
<1>a. \A k \in DOMAIN entries : ids[k] \in DOMAIN lens /\ ids[k] \in Nat
  BY ReadingFacts, SMTT(30)
<1>5. PICK new \in [DOMAIN entries' -> DOMAIN lens] :
        new[Len(entries) + 1] = e /\ \A k \in DOMAIN entries : new[k] = ids[k]
  <2> DEFINE f == [k \in DOMAIN entries' |-> IF k = Len(entries) + 1 THEN e ELSE ids[k]]
  <2>1. f \in [DOMAIN entries' -> DOMAIN lens]
    BY <1>2, <1>4, <1>a
  <2>2. f[Len(entries) + 1] = e /\ \A k \in DOMAIN entries : f[k] = ids[k]
    BY <1>4
  <2> QED BY <2>1, <2>2, Zenon
<1>6. \A i : Entry(i)' = Entry(i)
  BY <1>1, Zenon DEF Entry
<1>b. \A k \in DOMAIN entries' : k \in DOMAIN entries \/ k = Len(entries) + 1
  BY <1>4
<1>7. \A k \in DOMAIN entries' : entries'[k] = Entry(new[k])
  BY <1>4, <1>5, <1>b, Zenon DEF Returned
<1>8. ASSUME NEW j \in DOMAIN entries', NEW k \in DOMAIN entries', j < k PROVE new[j] < new[k]
  <2>1. j \in DOMAIN entries
    BY <1>4, <1>8
  <2>2. CASE k \in DOMAIN entries
    BY <1>5, <1>8, <2>1, <2>2, Zenon DEF Returned
  <2>3. CASE k = Len(entries) + 1
    BY <1>5, <2>1, <2>3, Zenon
  <2> QED BY <1>b, <2>2, <2>3, Zenon
<1>9. \A k \in DOMAIN entries' : position' > 1 /\ new[k] <= file'[position' - 1].entry
  <2>1. position' > 1 /\ position' - 1 = position
    <3>1. position' = position + 1
      BY <1>1, Zenon
    <3> QED BY <1>2, <3>1
  <2>2. \A k \in DOMAIN entries' : new[k] <= e
    <3>1. e <= e /\ \A k \in DOMAIN entries : ids[k] <= e
      BY <1>2, <1>a, SMTT(30)
    <3> QED BY <1>5, <1>b, <3>1, Zenon
  <2> QED BY <1>1, <2>1, <2>2, Zenon
<1>10. Returned(new)'
  BY <1>1, <1>6, <1>7, <1>8, <1>9, Zenon DEF Returned
<1>11. InProgress'
  BY <1>1, Zenon DEF InProgress
<1> QED BY <1>1, <1>4, <1>5, <1>10, <1>11, ReaderTypes, Zenon

(* The entry in progress grows.                                            *)
LEMMA CollectKeeps ==
    ASSUME Reading, NEW e, e = file[position].entry, NEW o \in Nat,
           StartsAt(lens, file[position], o), o + MaxRecord < lens[e],
           Collect(Bytes(e, 0, o + MaxRecord)),
           NEW ids \in [DOMAIN entries -> DOMAIN lens], Returned(ids),
           \A k \in DOMAIN entries : ids[k] < e
    PROVE  WalInv'
<1>1. /\ entries' = entries /\ expecting' = TRUE /\ position' = position + 1
      /\ assembled' = Bytes(e, 0, o + MaxRecord) /\ UNCHANGED <<state, file, lens>>
  BY Zenon DEF Collect, Reading, writer
<1>2. position' > 1 /\ position' - 1 = position /\ entries \in Seq(Seq(Nat \X Nat))
  <2>1. position \in Nat /\ position >= 1 /\ entries \in Seq(Seq(Nat \X Nat))
    BY ReadingFacts, Zenon
  <2>2. position' = position + 1
    BY <1>1, Zenon
  <2> QED BY <2>1, <2>2
<1>3. \A i : Entry(i)' = Entry(i)
  BY <1>1, Zenon DEF Entry
<1>4. Returned(ids)'
  BY <1>1, <1>2, <1>3, Zenon DEF Returned
<1>5. Whole(file[position])
  BY Zenon DEF Reading
<1>6. InProgress'
  BY <1>1, <1>2, <1>5, Zenon DEF InProgress
<1> QED BY <1>1, <1>2, <1>4, <1>6, ReaderTypes, Zenon

(* What the type of a record says of its place in the entry.               *)
LEMMA TypeCases ==
    ASSUME NEW len \in Nat, NEW o \in Nat, o < len, o = 0 \/ o >= MaxRecord
    PROVE  /\ TypeAt(len, o) = "Full" => o = 0 /\ o + Chunk(len, o) = len
           /\ TypeAt(len, o) = "First" => o = 0 /\ Chunk(len, o) = MaxRecord /\ o + MaxRecord < len
           /\ TypeAt(len, o) = "Middle" => o # 0 /\ Chunk(len, o) = MaxRecord /\ o + MaxRecord < len
           /\ TypeAt(len, o) = "Last" => o # 0 /\ o + Chunk(len, o) = len
BY Constants DEF TypeAt, Chunk

(* read_next has one outcome for every record and state of the reader.     *)
LEMMA AssembleCases ==
    ASSUME NEW r, r.type \in RecordType, expecting \in BOOLEAN, Assemble(r)
    PROVE  \/ Finish("recovered")
           \/ r.type = "Full" /\ ~expecting /\ Accept(r.data)
           \/ r.type = "First" /\ ~expecting /\ Collect(r.data)
           \/ r.type = "Middle" /\ expecting /\ Collect(assembled \o r.data)
           \/ r.type = "Last" /\ expecting /\ Accept(assembled \o r.data)
<1>1. r.type \in {"Full", "First", "Middle", "Last"}
  BY Zenon DEF RecordType
<1>2. CASE (r.type \in {"Full", "First"}) = expecting
  BY <1>2, Zenon DEF Assemble
<1>3. CASE (r.type \in {"Full", "First"}) # expecting
  <2>1. CASE expecting = TRUE
    BY <1>1, <1>3, <2>1, Zenon DEF Assemble
  <2>2. CASE expecting = FALSE
    <3>1. r.type = "Full" \/ r.type = "First"
      BY <1>3, <2>2
    <3>2. CASE r.type = "Full"
      BY <1>3, <2>2, <3>2, Zenon DEF Assemble
    <3>3. CASE r.type = "First"
      BY <1>3, <2>2, <3>3, Zenon DEF Assemble
    <3> QED BY <3>1, <3>2, <3>3, Zenon
  <2> QED BY <2>1, <2>2, Zenon
<1> QED BY <1>2, <1>3, Zenon

(* Where the record that is read stands, and what the reader holds before. *)
LEMMA ReadingPlace ==
    ASSUME Reading, NEW e, e = file[position].entry
    PROVE  \E o \in Nat :
             /\ StartsAt(lens, file[position], o) /\ o < lens[e] /\ lens[e] \in Nat /\ e \in Nat
             /\ o = 0 \/ o >= MaxRecord
             /\ file[position].type = TypeAt(lens[e], o)
             /\ file[position].data = Bytes(e, o, Chunk(lens[e], o))
             /\ expecting /\ o # 0 => assembled = Bytes(e, 0, o)
             /\ \E ids \in [DOMAIN entries -> DOMAIN lens] :
                   /\ Returned(ids)
                   /\ (o = 0) # expecting => \A k \in DOMAIN entries : ids[k] < e
<1>1. /\ lens \in Seq(Nat \ {0}) /\ file \in Seq(RecordOf) /\ position \in Nat /\ position >= 1
      /\ Chained(lens, file) /\ file[position] \in RecordOf /\ e \in DOMAIN lens
      /\ position \in DOMAIN file /\ expecting \in BOOLEAN /\ Whole(file[position])
  BY ReadingFacts, Zenon DEF Reading, WalInv, WTypeOK
<1>2. PICK o \in Nat : StartsAt(lens, file[position], o) /\ Placed(lens, file, position, o)
  BY <1>1, Zenon DEF Chained
<1>3. lens[e] \in Nat /\ e \in Nat /\ o < lens[e] /\ (o = 0 \/ o >= MaxRecord)
  BY <1>1, <1>2 DEF StartsAt, Placed, Continues
<1>4. /\ file[position].type = TypeAt(lens[e], o)
      /\ file[position].data = Bytes(e, o, Chunk(lens[e], o))
  BY <1>1, <1>2, Zenon DEF StartsAt, Whole
<1>5. PICK ids \in [DOMAIN entries -> DOMAIN lens] : Returned(ids)
  BY Zenon DEF Reading, WalInv
<1>6. ASSUME expecting = TRUE, o # 0 PROVE assembled = Bytes(e, 0, o) /\ \A k \in DOMAIN entries : ids[k] < e
  <2> DEFINE q == file[position - 1]
  <2>1. /\ position > 1 /\ q \in RecordOf
        /\ q.entry = e /\ Whole(q) /\ o >= MaxRecord /\ StartsAt(lens, q, o - MaxRecord)
    BY <1>1, <1>2, <1>6, ReadingFacts, Zenon DEF Placed, Continues
  <2>2. PICK p \in Nat : /\ StartsAt(lens, q, p) /\ p + MaxRecord < lens[q.entry]
                         /\ assembled = Bytes(q.entry, 0, p + MaxRecord)
    BY <1>6, Zenon DEF Reading, WalInv, InProgress
  <2>3. \A k \in DOMAIN entries : ids[k] < q.entry
    BY <1>5, <1>6, Zenon DEF Returned
  <2> HIDE DEF q
  <2>4. p = o - MaxRecord
    BY <1>1, <2>1, <2>2, OneOffset, Zenon
  <2>5. p + MaxRecord = o
    BY <2>1, <2>4, Constants
  <2> QED BY <2>1, <2>2, <2>3, <2>5, Zenon
<1>7. ASSUME expecting = FALSE, o = 0 PROVE \A k \in DOMAIN entries : ids[k] < e
  <2>1. position > 1 => file[position - 1].entry < e /\ file[position - 1].entry \in Nat
    BY <1>1, <1>2, <1>7, ReadingFacts, Zenon DEF Placed, RecordOf
  <2>2. \A k \in DOMAIN entries : ids[k] \in Nat
    BY <1>1
  <2>3. \A k \in DOMAIN entries : position > 1 /\ ids[k] <= file[position - 1].entry
    BY <1>5, <1>7, Zenon DEF Returned
  <2> QED BY <1>3, <2>1, <2>2, <2>3
<1>8. (o = 0) # expecting => \A k \in DOMAIN entries : ids[k] < e
  BY <1>1, <1>6, <1>7, Zenon
<1> QED BY <1>1, <1>2, <1>3, <1>4, <1>5, <1>6, <1>8, Zenon

(* read_next goes on: it returns the entry of the record it reads when the *)
(* record is the last of the entry, and collects the bytes otherwise.      *)
LEMMA AssembleShape ==
    ASSUME Reading, NEW e, e = file[position].entry,
           Assemble(file[position]), ~Finish("recovered")
    PROVE  \E o \in Nat, ids \in [DOMAIN entries -> DOMAIN lens] :
             /\ StartsAt(lens, file[position], o)
             /\ Returned(ids) /\ \A k \in DOMAIN entries : ids[k] < e
             /\ \/ Accept(Entry(e)) /\ o + Chunk(lens[e], o) = lens[e]
                \/ Collect(Bytes(e, 0, o + MaxRecord)) /\ o + MaxRecord < lens[e]
<1> DEFINE r == file[position]
           len == lens[e]
<1>0. r.type \in RecordType /\ expecting \in BOOLEAN
  BY ReadingFacts, Zenon DEF Reading, WalInv, WTypeOK, RecordOf
<1>1. PICK o \in Nat :
        /\ StartsAt(lens, r, o) /\ o < len /\ len \in Nat /\ e \in Nat
        /\ o = 0 \/ o >= MaxRecord
        /\ r.type = TypeAt(len, o)
        /\ r.data = Bytes(e, o, Chunk(len, o))
        /\ expecting /\ o # 0 => assembled = Bytes(e, 0, o)
        /\ \E ids \in [DOMAIN entries -> DOMAIN lens] :
              Returned(ids) /\ ((o = 0) # expecting => \A k \in DOMAIN entries : ids[k] < e)
  BY ReadingPlace, Zenon
<1>2. PICK ids \in [DOMAIN entries -> DOMAIN lens] :
        Returned(ids) /\ ((o = 0) # expecting => \A k \in DOMAIN entries : ids[k] < e)
  BY <1>1, Zenon
<1>3. Chunk(len, o) \in Nat
  BY <1>1, Chunks, Zenon
<1>4. Entry(e) = Bytes(e, 0, len)
  BY <1>1, EntryBytes, Zenon
<1>5. \/ r.type = "Full" /\ ~expecting /\ Accept(r.data)
      \/ r.type = "First" /\ ~expecting /\ Collect(r.data)
      \/ r.type = "Middle" /\ expecting /\ Collect(assembled \o r.data)
      \/ r.type = "Last" /\ expecting /\ Accept(assembled \o r.data)
  BY <1>0, AssembleCases, Zenon
<1> HIDE DEF r, len
<1>a. Bytes(e, 0, o) \o Bytes(e, o, Chunk(len, o)) = Bytes(e, 0, o + Chunk(len, o))
  BY <1>1, <1>3, BytesJoin, Zenon
<1>7. CASE r.type = "Full" /\ ~expecting /\ Accept(r.data)
  <2>1. o = 0 /\ o + Chunk(len, o) = len
    BY <1>1, <1>7, TypeCases, Zenon
  <2>2. Chunk(len, o) = len
    BY <1>3, <2>1
  <2>3. Accept(Entry(e)) /\ \A k \in DOMAIN entries : ids[k] < e
    BY <1>1, <1>2, <1>4, <1>7, <2>1, <2>2, Zenon
  <2> QED BY <1>1, <1>2, <2>1, <2>3, Zenon DEF r, len
<1>8. CASE r.type = "First" /\ ~expecting /\ Collect(r.data)
  <2>1. o = 0 /\ Chunk(len, o) = MaxRecord /\ o + MaxRecord < len
    BY <1>1, <1>8, TypeCases, Zenon
  <2>2. o + MaxRecord = MaxRecord
    BY <2>1, Constants
  <2>3. Collect(Bytes(e, 0, o + MaxRecord)) /\ \A k \in DOMAIN entries : ids[k] < e
    BY <1>1, <1>2, <1>8, <2>1, <2>2, Zenon
  <2> QED BY <1>1, <1>2, <2>1, <2>3, Zenon DEF r, len
<1>9. CASE r.type = "Middle" /\ expecting /\ Collect(assembled \o r.data)
  <2>1. o # 0 /\ Chunk(len, o) = MaxRecord /\ o + MaxRecord < len
    BY <1>1, <1>9, TypeCases, Zenon
  <2>2. assembled \o r.data = Bytes(e, 0, o + MaxRecord)
    BY <1>1, <1>9, <1>a, <2>1, Zenon
  <2>3. Collect(Bytes(e, 0, o + MaxRecord)) /\ \A k \in DOMAIN entries : ids[k] < e
    BY <1>2, <1>9, <2>1, <2>2, Zenon
  <2> QED BY <1>1, <1>2, <2>1, <2>3, Zenon DEF r, len
<1>10. CASE r.type = "Last" /\ expecting /\ Accept(assembled \o r.data)
  <2>1. o # 0 /\ o + Chunk(len, o) = len
    BY <1>1, <1>10, TypeCases, Zenon
  <2>2. assembled \o r.data = Bytes(e, 0, o + Chunk(len, o))
    BY <1>1, <1>10, <1>a, <2>1, Zenon
  <2>3. Accept(Entry(e)) /\ \A k \in DOMAIN entries : ids[k] < e
    BY <1>2, <1>4, <1>10, <2>1, <2>2, Zenon
  <2> QED BY <1>1, <1>2, <2>1, <2>3, Zenon DEF r, len
<1> QED BY <1>5, <1>7, <1>8, <1>9, <1>10, Zenon

(* A whole record: read_next goes on with the entry it belongs to.         *)
LEMMA AssembleStep == ASSUME Reading, Assemble(file[position]), ~Finish("recovered") PROVE WalInv'
<1> DEFINE e == file[position].entry
<1>1. PICK o \in Nat, ids \in [DOMAIN entries -> DOMAIN lens] :
        /\ StartsAt(lens, file[position], o)
        /\ Returned(ids) /\ \A k \in DOMAIN entries : ids[k] < e
        /\ \/ Accept(Entry(e)) /\ o + Chunk(lens[e], o) = lens[e]
           \/ Collect(Bytes(e, 0, o + MaxRecord)) /\ o + MaxRecord < lens[e]
  BY AssembleShape, Zenon
<1> QED BY <1>1, AcceptKeeps, CollectKeeps, Zenon

(* Every other step of the reader keeps what was read.                     *)
LEMMA ReaderRests ==
    ASSUME WalInv, UNCHANGED <<writer, reader, stops>>, state # "up" \/ state' = state,
           \/ state' = state
           \/ state = "recovering" /\ state' \in {"recovered", "failed"}
           \/ state = "recovered" /\ state' = "up"
    PROVE  WalInv'
<1>1. /\ UNCHANGED <<buffer, file, durable, lens, added, synced, errors, stops>>
      /\ UNCHANGED <<position, assembled, expecting, entries>>
  BY Zenon DEF writer, reader
<1>2. state' \in {"up", "down", "recovering", "recovered", "failed"}
  BY Zenon DEF WalInv, WTypeOK
<1>3. WTypeOK'
  BY <1>1, <1>2, Zenon DEF WalInv, WTypeOK
<1>4. \A ids : Returned(ids) => Returned(ids)'
  BY <1>1, Zenon DEF Returned, Entry
<1>5. state' = "recovering" => position' <= Len(file') + 1 /\ InProgress'
  BY <1>1, Zenon DEF WalInv, InProgress
<1>6. state' \in {"recovering", "recovered"} =>
          \E ids \in [DOMAIN entries' -> DOMAIN lens'] : Returned(ids)'
  BY <1>1, <1>4, Zenon DEF WalInv
<1>7. Chained(lens', Stream') /\ (state' # "up" => buffer' = <<>>)
  BY <1>1, Zenon DEF WalInv, Stream
<1> QED BY <1>1, <1>3, <1>5, <1>6, <1>7, Zenon DEF WalInv

LEMMA ReaderStep == ASSUME WalInv, Recover \/ ReadRecord \/ Reopen \/ WRest \/ UNCHANGED wvars PROVE WalInv'
<1>1. CASE Recover
  <2>1. /\ state' = "recovering" /\ position' = 1 /\ expecting' = FALSE /\ entries' = <<>>
        /\ UNCHANGED <<buffer, file, durable, lens, added, synced, errors, stops>> /\ state = "down"
    BY <1>1, Zenon DEF Recover, writer
  <2>2. /\ state' \in {"up", "down", "recovering", "recovered", "failed"}
        /\ position' \in Nat \ {0} /\ expecting' \in BOOLEAN
    <3>1. 1 \in Nat \ {0} /\ FALSE \in BOOLEAN
      OBVIOUS
    <3> QED BY <2>1, <3>1, Zenon
  <2>3. WTypeOK'
    BY <2>1, <2>2, Zenon DEF WalInv, WTypeOK
  <2>4. DOMAIN entries' = {} /\ entries' \in Seq(Seq(Nat \X Nat))
    BY <2>1
  <2>5. \E ids \in [DOMAIN entries' -> DOMAIN lens'] : Returned(ids)'
    <3>1. [k \in DOMAIN entries' |-> 1] \in [DOMAIN entries' -> DOMAIN lens']
      BY <2>4, Zenon
    <3>2. \A ids : Returned(ids)'
      BY <2>4, Zenon DEF Returned
    <3> QED BY <3>1, <3>2, Zenon
  <2>6. position' <= Len(file') + 1 /\ InProgress'
    BY <2>1 DEF WalInv, InProgress
  <2>7. Chained(lens', Stream') /\ (state' # "up" => buffer' = <<>>)
    BY <2>1, Zenon DEF WalInv, Stream
  <2> QED BY <2>1, <2>3, <2>4, <2>5, <2>6, <2>7, Zenon DEF WalInv
<1>2. CASE ReadRecord
  <2>1. state = "recovering" /\ UNCHANGED <<writer, stops>>
    BY <1>2, Zenon DEF ReadRecord
  <2>2. ASSUME NEW outcome \in {"recovered", "failed"}, Finish(outcome) PROVE WalInv'
    BY <2>1, <2>2, ReaderRests, Zenon DEF Finish
  <2>3. CASE position > Len(file)
    BY <1>2, <2>2, <2>3, Zenon DEF ReadRecord
  <2>4. CASE ~(position > Len(file)) /\ ~Whole(file[position])
    <3>1. Misread(file[position]) \subseteq {"recovered", "failed"}
      <4>1. position \in DOMAIN file
        BY <2>4 DEF WalInv, WTypeOK
      <4>2. file[position].head \in BOOLEAN
        BY <4>1, Zenon DEF WalInv, WTypeOK
      <4> QED BY <4>2, Zenon DEF Misread
    <3>2. \E outcome \in Misread(file[position]) : Finish(outcome)
      BY <1>2, <2>4, Zenon DEF ReadRecord
    <3> QED BY <2>2, <3>1, <3>2, Zenon
  <2>5. CASE ~(position > Len(file)) /\ Whole(file[position])
    <3>1. position \in DOMAIN file
      BY <2>5 DEF WalInv, WTypeOK
    <3>2. Reading
      BY <2>1, <2>5, <3>1, Zenon DEF Reading
    <3>3. Assemble(file[position])
      BY <1>2, <2>5, Zenon DEF ReadRecord
    <3> QED BY <2>2, <3>2, <3>3, AssembleStep, Zenon
  <2> QED BY <2>3, <2>4, <2>5, Zenon
<1>3. CASE Reopen
  BY <1>3, ReaderRests, Zenon DEF Reopen
<1>4. CASE WRest \/ UNCHANGED wvars
  BY <1>4, ReaderRests, Zenon DEF WRest, wvars
<1> QED BY <1>1, <1>2, <1>3, <1>4, Zenon
-----------------------------------------------------------------------------
LEMMA WalStart == WInit => WalInv
<1> SUFFICES ASSUME WInit PROVE WalInv
  BY Zenon
<1>1. /\ buffer = <<>> /\ file = <<>> /\ lens = <<>> /\ entries = <<>> /\ state = "up"
      /\ durable = 0 /\ added = {} /\ synced = {} /\ position = 1 /\ expecting = FALSE
      /\ stops = 0 /\ errors = 0
  BY Zenon DEF WInit
<1>2. /\ file \in Seq(RecordOf) /\ buffer \in Seq(RecordOf) /\ entries \in Seq(Seq(Nat \X Nat))
      /\ file \o buffer = <<>> /\ Len(file) = 0 /\ lens \in Seq(Lens)
      /\ DOMAIN file = {} /\ DOMAIN buffer = {}
  BY <1>1
<1>3. Chained(lens, Stream)
  BY <1>2 DEF Chained, Stream
<1>4. WTypeOK
  <2>1. /\ 0 \in 0 .. 0 /\ 0 \in Nat /\ 1 \in Nat \ {0} /\ FALSE \in BOOLEAN
        /\ {} \cup {} \subseteq DOMAIN lens
    OBVIOUS
  <2>2. \A s \in {buffer, file} : DOMAIN s = {}
    BY <1>2, Zenon
  <2> QED BY <1>1, <1>2, <2>1, <2>2, Zenon DEF WTypeOK
<1> QED BY <1>1, <1>2, <1>3, <1>4, Zenon DEF WalInv

(* What the writer, the reader and every stop of the process keep true.    *)
LEMMA WalInvariant == WSpec => []WalInv
<1>1. ASSUME WalInv, [WNext]_wvars PROVE WalInv'
  <2>1. CASE AppendEntry \/ AppendFails
    BY <1>1, <2>1, AppendStep, Zenon
  <2>5. CASE AppendTears
    BY <1>1, <2>5, TearsStep, Zenon
  <2>2. CASE SpillRecord \/ Sync \/ DropWriter \/ Crash
    BY <1>1, <2>2, WriterStep, Zenon
  <2>3. CASE PowerLoss
    BY <1>1, <2>3, PowerStep, Zenon
  <2>4. CASE Recover \/ ReadRecord \/ Reopen \/ WRest \/ UNCHANGED wvars
    BY <1>1, <2>4, ReaderStep, Zenon
  <2> QED BY <1>1, <2>1, <2>2, <2>3, <2>4, <2>5, Zenon DEF WNext
<1> QED BY WalStart, <1>1, PTL DEF WSpec

(* Whatever is appended and wherever the process stops, the file and the   *)
(* buffer hold records of the entries given to append, none longer than    *)
(* its header says (WALWriter::append, wal/writer.rs:37).                  *)
THEOREM WalTypes == WSpec => []WTypeOK
<1>1. WalInv => WTypeOK
  BY Zenon DEF WalInv
<1> QED BY WalInvariant, <1>1, PTL

(* For every record size, every sequence of entries, and every sequence of *)
(* failed appends, crashes and power losses, WALReader::read_next returns  *)
(* entries that were given to append, byte for byte, each once and in      *)
(* order; fragments of two entries are never joined (wal/reader.rs:30).    *)
THEOREM RecoveryIsWhole == WSpec => []RecoveredWhole
<1>1. WalInv => RecoveredWhole
  BY Zenon DEF WalInv, RecoveredWhole, Returned
<1> QED BY WalInvariant, <1>1, PTL

(***************************************************************************)
(* What was synced is recovered.                                           *)
(***************************************************************************)

(* The record r ends its entry.                                            *)
Final(ls, r) == Whole(r) /\ \E o \in Nat : StartsAt(ls, r, o) /\ o + r.want = ls[r.entry]

(* Entries stand in the order of the appends, and the records of one in    *)
(* the order of their bytes.  Without its header a record has no bytes.    *)
Ordered(s) == \A j, k \in DOMAIN s : j < k => s[j].entry <= s[k].entry
Apart(s) ==
    \A j, k \in DOMAIN s : j < k /\ s[j].entry = s[k].entry =>
        \A b \in DOMAIN s[j].data, c \in DOMAIN s[k].data : s[j].data[b][2] < s[k].data[c][2]
Headless(s) == \A k \in DOMAIN s : ~s[k].head => Len(s[k].data) = 0
Sorted(s) == Ordered(s) /\ Apart(s) /\ Headless(s)

(* Appended entries are written to their end, synced ones durably so.  The *)
(* reader has returned every entry whose end it has passed, and it stops   *)
(* early only at an entry cut short.                                       *)
Written == \A i \in added : \E k \in DOMAIN Stream : Stream[k].entry = i /\ Final(lens, Stream[k])
Kept == \A i \in synced : \E k \in 1 .. durable : file[k].entry = i /\ Final(lens, file[k])
Passed ==
    /\ \A k \in DOMAIN file : k < position /\ Final(lens, file[k]) => file[k].entry \in Recovered
    /\ state = "recovering" /\ ~expecting /\ position > 1 => Final(lens, file[position - 1])
    /\ state = "recovered" =>
          position > Len(file) \/ \E j \in CutShort : j <= file[position].entry

SyncInv ==
    /\ Sorted(Stream) /\ Written /\ Kept
    /\ state \in {"recovering", "recovered"} => Passed

LEMMA FinalMore ==
    ASSUME NEW ls, NEW ls2, NEW r, Final(ls, r), \A e \in DOMAIN ls : e \in DOMAIN ls2 /\ ls2[e] = ls[e]
    PROVE  Final(ls2, r)
<1>1. PICK o \in Nat : StartsAt(ls, r, o) /\ o + r.want = ls[r.entry]
  BY Zenon DEF Final
<1>2. StartsAt(ls2, r, o)
  BY <1>1, StartsMore, Zenon
<1>3. ls2[r.entry] = ls[r.entry]
  BY <1>1, Zenon DEF StartsAt
<1> QED BY <1>1, <1>2, <1>3, Zenon DEF Final

(* The fragments of an entry reach its end.                                *)
LEMMA Reaches ==
    ASSUME NEW m \in Nat \ {0}, NEW x \in Nat PROVE x < (x \div m) * m + m
OBVIOUS

LEMMA LastFragment ==
    ASSUME NEW ls \in Seq(Nat \ {0}), NEW i \in DOMAIN ls, NEW F,
           F = Fragments(i, Bytes(i, 0, ls[i]))
    PROVE  Len(F) \in Nat /\ Len(F) >= 1 /\ Final(ls, F[Len(F)])
<1> DEFINE len == ls[i]
           N == (len + MaxRecord - 1) \div MaxRecord
           o == (N - 1) * MaxRecord
<1>0. len \in Nat \ {0}
  OBVIOUS
<1>1. N \in Nat /\ len + MaxRecord - 1 < N * MaxRecord + MaxRecord
  <2>1. len + MaxRecord - 1 \in Nat /\ MaxRecord \in Nat \ {0}
    BY <1>0, Constants
  <2> HIDE DEF len
  <2>2. N \in Nat
    BY <2>1, Multiples, Zenon
  <2>3. len + MaxRecord - 1 < N * MaxRecord + MaxRecord
    BY <2>1, Reaches, Zenon
  <2> QED BY <2>2, <2>3, Zenon
<1>2. Len(F) = N
  <2>1. Len(Bytes(i, 0, len)) = len
    BY <1>0 DEF Bytes
  <2>2. F = [k \in 1 .. N |-> Record(i, Bytes(i, 0, len), (k - 1) * MaxRecord)]
    BY <2>1, Zenon DEF Fragments
  <2> HIDE DEF N
  <2> QED BY <1>1, <2>2
<1> HIDE DEF N
<1>3. N * MaxRecord \in Nat /\ len <= N * MaxRecord
  BY <1>0, <1>1, Constants
<1>4. N >= 1
  <2>1. CASE N = 0
    <3>1. N * MaxRecord = 0
      BY <2>1, Constants
    <3> QED BY <1>0, <1>3, <3>1
  <2> QED BY <1>1, <2>1
<1>5. o \in Nat /\ N * MaxRecord = o + MaxRecord
  <2>1. N - 1 \in Nat /\ (N - 1) + 1 = N
    BY <1>1, <1>4
  <2>2. ((N - 1) + 1) * MaxRecord = (N - 1) * MaxRecord + MaxRecord /\ (N - 1) * MaxRecord \in Nat
    BY <2>1, Constants, Distributes, Zenon
  <2> QED BY <2>1, <2>2, Zenon
<1>6. N \in 1 .. Len(F)
  BY <1>1, <1>2, <1>4
<1>7. StartsAt(ls, F[N], o) /\ F[N].entry = i /\ Whole(F[N])
  <2>1. \A j \in 1 .. Len(F) : \A x : x = (j - 1) * MaxRecord =>
            x \in Nat /\ StartsAt(ls, F[j], x) /\ F[j].entry = i /\ Whole(F[j])
    BY FragmentStarts
  <2> QED BY <1>6, <2>1, Zenon
<1> HIDE DEF o
<1>8. F[N].want = Chunk(len, o) /\ o < len
  BY <1>7, Zenon DEF StartsAt
<1> HIDE DEF len
<1>9. o + Chunk(len, o) = len
  BY <1>0, <1>3, <1>5, <1>8, Constants DEF Chunk
<1> QED BY <1>1, <1>2, <1>4, <1>5, <1>7, <1>8, <1>9, Zenon DEF Final, len

(* The bytes of a record, by their places in the entry.                    *)
LEMMA RecordBytes ==
    ASSUME NEW ls \in Seq(Nat \ {0}), NEW r \in RecordOf, NEW o, StartsAt(ls, r, o)
    PROVE  /\ o \in Nat /\ Len(r.data) \in Nat /\ r.want \in Nat /\ ls[r.entry] \in Nat
           /\ r.entry \in DOMAIN ls /\ r.entry \in Nat
           /\ r.want >= 1 /\ r.want <= MaxRecord /\ o + r.want <= ls[r.entry]
           /\ Len(r.data) <= r.want
           /\ DOMAIN r.data = 1 .. Len(r.data)
           /\ \A b \in 1 .. Len(r.data) : r.data[b][2] = o + b
<1>1. /\ o \in Nat /\ r.entry \in DOMAIN ls /\ o < ls[r.entry] /\ r.want = Chunk(ls[r.entry], o)
      /\ Len(r.data) <= r.want /\ r.data = Bytes(r.entry, o, Len(r.data))
  BY Zenon DEF StartsAt
<1>2. r.data \in Seq(Nat \X Nat) /\ r.want \in Nat /\ r.entry \in Nat
  BY Zenon DEF RecordOf
<1>3. Len(r.data) \in Nat /\ DOMAIN r.data = 1 .. Len(r.data)
  BY <1>2
<1>4. ls[r.entry] \in Nat
  BY <1>1
<1>5. r.want >= 1 /\ r.want <= MaxRecord /\ o + r.want <= ls[r.entry]
  BY <1>1, <1>4, Chunks, Zenon
<1>6. ASSUME NEW e, NEW n \in Nat, NEW b \in 1 .. n PROVE Bytes(e, o, n)[b][2] = o + b
  BY Zenon DEF Bytes
<1>7. ASSUME NEW b \in 1 .. Len(r.data) PROVE r.data[b][2] = o + b
  <2>1. Bytes(r.entry, o, Len(r.data))[b][2] = o + b
    BY <1>3, <1>6, Zenon
  <2> DEFINE n == Len(r.data)
  <2>2. r.data = Bytes(r.entry, o, n) /\ Bytes(r.entry, o, n)[b][2] = o + b
    BY <1>1, <2>1, Zenon
  <2> HIDE DEF n
  <2> QED BY <2>2, Zenon
<1> QED BY <1>1, <1>2, <1>3, <1>4, <1>5, <1>7, Zenon

(* The fragments of an entry are in order.                                 *)
LEMMA RecordsApart ==
    ASSUME NEW ls \in Seq(Nat \ {0}), NEW q \in RecordOf, NEW r \in RecordOf, NEW x, NEW y,
           StartsAt(ls, q, x), StartsAt(ls, r, y), x + MaxRecord <= y,
           NEW b \in DOMAIN q.data, NEW c \in DOMAIN r.data
    PROVE  q.data[b][2] < r.data[c][2]
<1>1. /\ x \in Nat /\ Len(q.data) \in Nat /\ q.want \in Nat /\ q.want <= MaxRecord
      /\ Len(q.data) <= q.want /\ DOMAIN q.data = 1 .. Len(q.data)
      /\ \A a \in 1 .. Len(q.data) : q.data[a][2] = x + a
  BY RecordBytes, Zenon
<1>2. /\ y \in Nat /\ Len(r.data) \in Nat /\ DOMAIN r.data = 1 .. Len(r.data)
      /\ \A a \in 1 .. Len(r.data) : r.data[a][2] = y + a
  BY RecordBytes, ZenonT(40)
<1>3. b \in 1 .. Len(q.data) /\ c \in 1 .. Len(r.data)
  BY <1>1, <1>2, Zenon
<1>4. q.data[b][2] = x + b /\ r.data[c][2] = y + c
  BY <1>1, <1>2, <1>3, Zenon
<1> DEFINE m == Len(q.data)
           n == Len(r.data)
<1>5. /\ m \in Nat /\ n \in Nat /\ b \in 1 .. m /\ c \in 1 .. n /\ m <= MaxRecord
  BY <1>1, <1>2, <1>3, Constants
<1> HIDE DEF m, n
<1>6. x + b < y + c
  BY <1>1, <1>2, <1>5, Constants
<1> QED BY <1>4, <1>6, Zenon

LEMMA FragmentOffsets ==
    ASSUME NEW j \in Nat \ {0}, NEW k \in Nat \ {0}, j < k
    PROVE  (j - 1) * MaxRecord + MaxRecord <= (k - 1) * MaxRecord
<1>1. j - 1 \in Nat /\ k - 1 \in Nat /\ (j - 1) + 1 <= k - 1 /\ (j - 1) + 1 \in Nat
  OBVIOUS
<1>2. ((j - 1) + 1) * MaxRecord = (j - 1) * MaxRecord + MaxRecord
  BY <1>1, Constants, Distributes, Zenon
<1>3. ((j - 1) + 1) * MaxRecord <= (k - 1) * MaxRecord
  BY <1>1, Constants, Monotone, Zenon
<1> QED BY <1>2, <1>3, Zenon

LEMMA SortedAppend ==
    ASSUME NEW s \in Seq(RecordOf), Sorted(s),
           NEW ls \in Seq(Nat \ {0}), NEW i \in DOMAIN ls,
           \A k \in DOMAIN s : s[k].entry < i,
           NEW F, F = Fragments(i, Bytes(i, 0, ls[i])), NEW n \in 0 .. Len(F)
    PROVE  Sorted(s \o SubSeq(F, 1, n))
<1> DEFINE p == SubSeq(F, 1, n)
           t == s \o p
<1>1. /\ F \in Seq(RecordOf)
      /\ \A j \in 1 .. Len(F) : \A o : o = (j - 1) * MaxRecord =>
            /\ o \in Nat /\ StartsAt(ls, F[j], o) /\ F[j].entry = i /\ Whole(F[j])
  BY FragmentStarts, SMTT(30)
<1>2. \A j \in 1 .. Len(F) : F[j].entry = i /\ F[j].head /\ StartsAt(ls, F[j], (j - 1) * MaxRecord)
  BY <1>1, Zenon DEF Whole
<1>3. p \in Seq(RecordOf) /\ Len(p) = n /\ \A j \in 1 .. n : p[j] = F[j]
  BY <1>1, Prefix, Zenon
<1>4. n \in Nat /\ Len(F) \in Nat /\ n <= Len(F) /\ Len(s) \in Nat /\ i \in Nat
  BY <1>1
<1> HIDE DEF p
<1>5. /\ t \in Seq(RecordOf) /\ Len(t) = Len(s) + n
      /\ \A k \in 1 .. Len(s) : t[k] = s[k]
      /\ \A k \in 1 .. n : t[Len(s) + k] = p[k]
  <2>1. s \in Seq(RecordOf) /\ p \in Seq(RecordOf) /\ Len(p) = n
    BY <1>3, Zenon
  <2>2. /\ t \in Seq(RecordOf) /\ Len(t) = Len(s) + Len(p)
        /\ \A k \in 1 .. Len(s) : t[k] = s[k]
        /\ \A k \in 1 .. Len(p) : t[Len(s) + k] = p[k]
    <3>1. ASSUME NEW y \in Seq(RecordOf)
          PROVE  /\ s \o y \in Seq(RecordOf) /\ Len(s \o y) = Len(s) + Len(y)
                 /\ \A k \in 1 .. Len(s) : (s \o y)[k] = s[k]
                 /\ \A k \in 1 .. Len(y) : (s \o y)[Len(s) + k] = y[k]
      BY Concat
    <3> QED BY <2>1, <3>1, Zenon
  <2> HIDE DEF t
  <2> QED BY <2>1, <2>2, Zenon
<1>a. ASSUME NEW k \in DOMAIN s PROVE s[k].entry \in Nat
  <2>1. s[k] \in RecordOf
    OBVIOUS
  <2> QED BY <2>1, Zenon DEF RecordOf
<1> HIDE DEF t
<1>6. \A k \in DOMAIN t : k \in Nat /\ k >= 1 /\ k <= Len(s) + n
  BY <1>4, <1>5
<1>7. ASSUME NEW k \in DOMAIN t, k <= Len(s) PROVE k \in DOMAIN s /\ t[k] = s[k]
  BY <1>4, <1>5, <1>6, <1>7
<1>8. ASSUME NEW k \in DOMAIN t, ~(k <= Len(s))
      PROVE  k - Len(s) \in 1 .. Len(F) /\ t[k] = F[k - Len(s)]
  <2>1. k - Len(s) \in 1 .. n /\ Len(s) + (k - Len(s)) = k /\ k - Len(s) \in 1 .. Len(F)
    BY <1>4, <1>6, <1>8
  <2>2. t[Len(s) + (k - Len(s))] = p[k - Len(s)]
    BY <1>5, <2>1, Zenon
  <2>3. p[k - Len(s)] = F[k - Len(s)]
    BY <1>3, <2>1, Zenon
  <2> QED BY <2>1, <2>2, <2>3, Zenon
<1>9. Ordered(t)
  <2> SUFFICES ASSUME NEW j \in DOMAIN t, NEW k \in DOMAIN t, j < k PROVE t[j].entry <= t[k].entry
    BY Zenon DEF Ordered
  <2>1. CASE k <= Len(s)
    <3>1. j <= Len(s)
      BY <1>4, <1>6, <2>1
    <3> QED BY <1>7, <2>1, <3>1, Zenon DEF Sorted, Ordered
  <2>2. CASE j <= Len(s) /\ ~(k <= Len(s))
    <3>1. t[j].entry < i /\ t[j].entry \in Nat
      BY <1>7, <1>a, <2>2, Zenon
    <3>2. t[k].entry = i
      BY <1>2, <1>8, <2>2, Zenon
    <3> QED BY <1>4, <3>1, <3>2
  <2>3. CASE ~(j <= Len(s)) /\ ~(k <= Len(s))
    <3>1. t[j].entry = i /\ t[k].entry = i
      BY <1>2, <1>8, <2>3, Zenon
    <3> QED BY <1>4, <3>1
  <2>4. j <= Len(s) \/ ~(k <= Len(s))
    BY <1>4, <1>6
  <2> QED BY <2>1, <2>2, <2>3, <2>4, Zenon
<1>10. Apart(t)
  <2> SUFFICES ASSUME NEW j \in DOMAIN t, NEW k \in DOMAIN t, j < k, t[j].entry = t[k].entry,
                      NEW b \in DOMAIN t[j].data, NEW c \in DOMAIN t[k].data
               PROVE  t[j].data[b][2] < t[k].data[c][2]
    BY Zenon DEF Apart
  <2>1. CASE k <= Len(s)
    <3>1. j <= Len(s)
      BY <1>4, <1>6, <2>1
    <3>2. j \in DOMAIN s /\ t[j] = s[j] /\ k \in DOMAIN s /\ t[k] = s[k]
      BY <1>7, <2>1, <3>1, Zenon
    <3> QED BY <3>2, Zenon DEF Sorted, Apart
  <2>2. CASE j <= Len(s) /\ ~(k <= Len(s))
    <3>1. t[j].entry < i /\ t[j].entry \in Nat
      BY <1>7, <1>a, <2>2, Zenon
    <3>2. t[k].entry = i
      BY <1>2, <1>8, <2>2, Zenon
    <3> QED BY <1>4, <3>1, <3>2
  <2>3. CASE ~(j <= Len(s)) /\ ~(k <= Len(s))
    <3>1. /\ j - Len(s) \in 1 .. Len(F) /\ t[j] = F[j - Len(s)]
          /\ k - Len(s) \in 1 .. Len(F) /\ t[k] = F[k - Len(s)]
      BY <1>8, <2>3, Zenon
    <3>2. /\ j - Len(s) < k - Len(s) /\ j - Len(s) \in Nat \ {0} /\ k - Len(s) \in Nat \ {0}
          /\ F[j - Len(s)] \in RecordOf /\ F[k - Len(s)] \in RecordOf
      <4>1. j \in Nat /\ k \in Nat
        BY <1>6, Zenon
      <4>2. \A h \in 1 .. Len(F) : F[h] \in RecordOf /\ h \in Nat \ {0}
        BY <1>1
      <4>3. j - Len(s) < k - Len(s)
        BY <1>4, <4>1
      <4> QED BY <3>1, <4>2, <4>3, Zenon
    <3>3. (j - Len(s) - 1) * MaxRecord + MaxRecord <= (k - Len(s) - 1) * MaxRecord
      BY <3>2, FragmentOffsets, Zenon
    <3>4. /\ StartsAt(ls, t[j], (j - Len(s) - 1) * MaxRecord) /\ t[j] \in RecordOf
          /\ StartsAt(ls, t[k], (k - Len(s) - 1) * MaxRecord) /\ t[k] \in RecordOf
      BY <1>2, <3>1, <3>2, Zenon
    <3> QED BY <3>3, <3>4, RecordsApart, Zenon
  <2>4. j <= Len(s) \/ ~(k <= Len(s))
    BY <1>4, <1>6
  <2> QED BY <2>1, <2>2, <2>3, <2>4, Zenon
<1>11. Headless(t)
  BY <1>2, <1>7, <1>8, ZenonT(40) DEF Sorted, Headless
<1> QED BY <1>9, <1>10, <1>11, Zenon DEF Sorted, t, p

LEMMA SortedPart ==
    ASSUME NEW s \in Seq(RecordOf), Sorted(s), NEW p \in Seq(RecordOf), Len(p) <= Len(s),
           \A k \in DOMAIN p : /\ p[k].entry = s[k].entry
                               /\ p[k].head = s[k].head \/ Len(p[k].data) = 0
                               /\ Len(p[k].data) <= Len(s[k].data)
                               /\ DOMAIN p[k].data \subseteq DOMAIN s[k].data
                               /\ \A b \in DOMAIN p[k].data : p[k].data[b] = s[k].data[b]
    PROVE  Sorted(p)
<1>1. DOMAIN p \subseteq DOMAIN s
  OBVIOUS
<1>2. Ordered(p)
  BY <1>1, Zenon DEF Sorted, Ordered
<1>3. Apart(p)
  <2> SUFFICES ASSUME NEW j \in DOMAIN p, NEW k \in DOMAIN p, j < k, p[j].entry = p[k].entry,
                      NEW b \in DOMAIN p[j].data, NEW c \in DOMAIN p[k].data
               PROVE  p[j].data[b][2] < p[k].data[c][2]
    BY Zenon DEF Apart
  <2>1. /\ j \in DOMAIN s /\ k \in DOMAIN s /\ s[j].entry = s[k].entry
        /\ b \in DOMAIN s[j].data /\ c \in DOMAIN s[k].data
        /\ p[j].data[b] = s[j].data[b] /\ p[k].data[c] = s[k].data[c]
    BY <1>1, Zenon
  <2>2. s[j].data[b][2] < s[k].data[c][2]
    BY <2>1, Zenon DEF Sorted, Apart
  <2> QED BY <2>1, <2>2, Zenon
<1>4. Headless(p)
  <2> SUFFICES ASSUME NEW k \in DOMAIN p, ~p[k].head PROVE Len(p[k].data) = 0
    BY Zenon DEF Headless
  <2>1. CASE p[k].head = s[k].head
    <3>1. Len(s[k].data) = 0 /\ Len(p[k].data) <= Len(s[k].data)
      BY <1>1, <2>1, Zenon DEF Sorted, Headless
    <3>2. p[k] \in RecordOf
      OBVIOUS
    <3>3. Len(p[k].data) \in Nat
      BY <3>2 DEF RecordOf
    <3> QED BY <3>1, <3>3
  <2> QED BY <2>1, Zenon
<1> QED BY <1>2, <1>3, <1>4, Zenon DEF Sorted

LEMMA SortedPrefix ==
    ASSUME NEW s \in Seq(RecordOf), Sorted(s), NEW n \in 0 .. Len(s)
    PROVE  Sorted(SubSeq(s, 1, n))
<1> DEFINE p == SubSeq(s, 1, n)
<1>1. p \in Seq(RecordOf) /\ Len(p) = n /\ \A k \in 1 .. n : p[k] = s[k]
  BY Prefix, Zenon
<1>2. Len(s) \in Nat /\ n \in Nat /\ n <= Len(s)
  OBVIOUS
<1> HIDE DEF p
<1>3. Len(p) <= Len(s) /\ \A k \in DOMAIN p : p[k] = s[k] /\ Len(p[k].data) <= Len(s[k].data)
  <2>1. Len(p) <= Len(s) /\ \A k \in DOMAIN p : p[k] = s[k] /\ k \in DOMAIN s /\ p[k] \in RecordOf
    BY <1>1, <1>2
  <2>2. \A r \in RecordOf : Len(r.data) <= Len(r.data)
    BY DEF RecordOf
  <2> QED BY <2>1, <2>2, Zenon
<1>4. Sorted(p)
  BY <1>1, <1>3, SortedPart, Zenon
<1> QED BY <1>4, Zenon DEF p

LEMMA TornBytes ==
    ASSUME NEW q \in RecordOf, NEW r \in Torn(q)
    PROVE  /\ r.head = q.head \/ Len(r.data) = 0
           /\ DOMAIN r.data \subseteq DOMAIN q.data
           /\ \A b \in DOMAIN r.data : r.data[b] = q.data[b]
<1>0. q.data \in Seq(Nat \X Nat)
  BY Zenon DEF RecordOf
<1>1. CASE r = [q EXCEPT !.head = FALSE, !.data = <<>>]
  <2>1. r.data = <<>>
    BY <1>1, Zenon DEF RecordOf
  <2>2. Len(r.data) = 0 /\ DOMAIN r.data = {}
    BY <2>1
  <2> QED BY <2>2, Zenon
<1>2. ASSUME NEW b \in 0 .. Len(q.data) - 1, r = [q EXCEPT !.data = SubSeq(q.data, 1, b)]
      PROVE  /\ r.head = q.head
             /\ DOMAIN r.data \subseteq DOMAIN q.data
             /\ \A c \in DOMAIN r.data : r.data[c] = q.data[c]
  <2>1. r.data = SubSeq(q.data, 1, b) /\ r.head = q.head
    BY <1>2, Zenon DEF RecordOf
  <2>2. ASSUME NEW S, NEW d \in Seq(S), NEW c \in 0 .. Len(d) - 1
        PROVE  /\ DOMAIN SubSeq(d, 1, c) \subseteq DOMAIN d
               /\ \A k \in DOMAIN SubSeq(d, 1, c) : SubSeq(d, 1, c)[k] = d[k]
    OBVIOUS
  <2> QED BY <1>0, <2>1, <2>2, SMTT(30)
<1> QED BY <1>1, <1>2, Zenon DEF Torn

LEMMA SortedTorn ==
    ASSUME NEW s \in Seq(RecordOf), Sorted(s), NEW n \in 0 .. Len(s) - 1, NEW r \in Torn(s[n + 1])
    PROVE  Sorted(Append(SubSeq(s, 1, n), r))
<1> DEFINE p == Append(SubSeq(s, 1, n), r)
<1>0. n + 1 \in DOMAIN s /\ s[n + 1] \in RecordOf /\ n \in Nat /\ Len(s) \in Nat
  OBVIOUS
<1>1. r \in RecordOf /\ r.entry = s[n + 1].entry /\ Len(r.data) <= Len(s[n + 1].data)
  BY <1>0, TornStarts, Zenon
<1>2. /\ r.head = s[n + 1].head \/ Len(r.data) = 0
      /\ DOMAIN r.data \subseteq DOMAIN s[n + 1].data
      /\ \A b \in DOMAIN r.data : r.data[b] = s[n + 1].data[b]
  BY <1>0, TornBytes, Zenon
<1>3. p \in Seq(RecordOf) /\ Len(p) = n + 1 /\ p[n + 1] = r /\ \A k \in 1 .. n : p[k] = s[k]
  BY <1>1
<1> HIDE DEF p
<1>4. Len(p) <= Len(s) /\ \A k \in DOMAIN p : k = n + 1 \/ k \in 1 .. n
  BY <1>0, <1>3
<1>5. \A k \in DOMAIN p : /\ p[k].entry = s[k].entry
                          /\ p[k].head = s[k].head \/ Len(p[k].data) = 0
                          /\ Len(p[k].data) <= Len(s[k].data)
                          /\ DOMAIN p[k].data \subseteq DOMAIN s[k].data
                          /\ \A b \in DOMAIN p[k].data : p[k].data[b] = s[k].data[b]
  <2>1. \A k \in 1 .. n : Len(s[k].data) <= Len(s[k].data)
    <3>1. \A k \in 1 .. n : s[k] \in RecordOf
      BY <1>0
    <3>2. \A q \in RecordOf : Len(q.data) <= Len(q.data)
      BY DEF RecordOf
    <3> QED BY <3>1, <3>2, Zenon
  <2> QED BY <1>1, <1>2, <1>3, <1>4, <2>1, Zenon
<1>6. Sorted(p)
  BY <1>3, <1>4, <1>5, SortedPart, Zenon
<1> QED BY <1>6, Zenon DEF p

(***************************************************************************)
(* An entry of which a byte is missing is cut short.                       *)
(***************************************************************************)
BytesIn(s, e) == UNION {{k} \X (1 .. Len(s[k].data)) : k \in {j \in DOMAIN s : s[j].entry = e}}

LEMMA Missing ==
    ASSUME NEW ls \in Seq(Nat \ {0}), NEW s \in Seq(RecordOf), Chained(ls, s), Apart(s),
           NEW e \in DOMAIN ls, NEW m \in 1 .. ls[e],
           \A k \in DOMAIN s : s[k].entry = e => \A b \in DOMAIN s[k].data : s[k].data[b][2] # m
    PROVE  Cardinality(BytesIn(s, e)) < ls[e]
<1> DEFINE P == BytesIn(s, e)
           T == (1 .. ls[e]) \ {m}
           f == [x \in P |-> s[x[1]].data[x[2]][2]]
<1>0. ls[e] \in Nat
  OBVIOUS
<1>1. ASSUME NEW x \in P
      PROVE  /\ x[1] \in DOMAIN s /\ s[x[1]].entry = e /\ x[2] \in 1 .. Len(s[x[1]].data)
             /\ x = <<x[1], x[2]>>
  BY SMTT(30) DEF BytesIn
<1>2. ASSUME NEW k \in DOMAIN s, s[k].entry = e
      PROVE  \E o \in Nat : /\ Len(s[k].data) \in Nat /\ o + Len(s[k].data) <= ls[e]
                            /\ DOMAIN s[k].data = 1 .. Len(s[k].data)
                            /\ \A b \in 1 .. Len(s[k].data) : s[k].data[b][2] = o + b
  <2>1. s[k] \in RecordOf
    OBVIOUS
  <2>2. PICK o \in Nat : StartsAt(ls, s[k], o)
    BY Zenon DEF Chained
  <2>3. /\ Len(s[k].data) \in Nat /\ s[k].want \in Nat
        /\ o + s[k].want <= ls[s[k].entry] /\ Len(s[k].data) <= s[k].want
        /\ DOMAIN s[k].data = 1 .. Len(s[k].data)
        /\ \A b \in 1 .. Len(s[k].data) : s[k].data[b][2] = o + b
    BY <2>1, <2>2, RecordBytes, SMTT(30)
  <2>4. o + Len(s[k].data) <= ls[e]
    BY <1>0, <1>2, <2>3, SMTT(30)
  <2> QED BY <2>3, <2>4, Zenon
<1>3. ASSUME NEW x \in P PROVE s[x[1]].data[x[2]][2] \in T /\ x[2] \in DOMAIN s[x[1]].data
  <2>1. x[1] \in DOMAIN s /\ s[x[1]].entry = e /\ x[2] \in 1 .. Len(s[x[1]].data)
    BY <1>1, Zenon
  <2> DEFINE n == Len(s[x[1]].data)
             v == s[x[1]].data[x[2]][2]
  <2>2. PICK o \in Nat : /\ n \in Nat /\ o + n <= ls[e] /\ DOMAIN s[x[1]].data = 1 .. n
                         /\ \A b \in 1 .. n : s[x[1]].data[b][2] = o + b
    BY <1>2, <2>1, Zenon
  <2>3. v = o + x[2] /\ x[2] \in 1 .. n /\ x[2] \in DOMAIN s[x[1]].data
    BY <2>1, <2>2, Zenon
  <2>4. v # m
    BY <2>1, <2>3, Zenon
  <2> HIDE DEF n, v
  <2>5. v \in 1 .. ls[e]
    <3>1. \A l, k \in Nat : o + k <= l => \A y \in 1 .. k : o + y \in 1 .. l
      OBVIOUS
    <3> QED BY <1>0, <2>2, <2>3, <3>1, Zenon
  <2>6. v \in T
    BY <2>4, <2>5, Zenon
  <2> QED BY <2>3, <2>6, Zenon DEF v
<1>4. ASSUME NEW x \in P, NEW y \in P, x[1] < y[1]
      PROVE  s[x[1]].data[x[2]][2] # s[y[1]].data[y[2]][2]
  <2>1. /\ x[1] \in DOMAIN s /\ y[1] \in DOMAIN s /\ s[x[1]].entry = s[y[1]].entry
        /\ x[2] \in DOMAIN s[x[1]].data /\ y[2] \in DOMAIN s[y[1]].data
    BY <1>1, <1>3, Zenon
  <2> DEFINE v == s[x[1]].data[x[2]][2]
             w == s[y[1]].data[y[2]][2]
  <2>2. v < w
    BY <1>4, <2>1, Zenon DEF Apart
  <2>3. v \in T /\ w \in T
    BY <1>3, Zenon
  <2> HIDE DEF v, w
  <2>4. v # w
    BY <1>0, <2>2, <2>3
  <2> QED BY <2>4, Zenon DEF v, w
<1>5. ASSUME NEW x \in P, NEW y \in P, s[x[1]].data[x[2]][2] = s[y[1]].data[y[2]][2]
      PROVE  x = y
  <2>1. x[1] \in Nat /\ y[1] \in Nat
    BY <1>1
  <2>2. x[1] = y[1]
    <3>1. ~(x[1] < y[1]) /\ ~(y[1] < x[1])
      BY <1>4, <1>5, Zenon
    <3> QED BY <2>1, <3>1
  <2> DEFINE n == Len(s[x[1]].data)
  <2>3. PICK o \in Nat : n \in Nat /\ \A b \in 1 .. n : s[x[1]].data[b][2] = o + b
    BY <1>1, <1>2, Zenon
  <2>4. x[2] \in 1 .. n /\ y[2] \in 1 .. n
    BY <1>1, <2>2, Zenon
  <2>5. o + x[2] = o + y[2]
    BY <1>5, <2>2, <2>3, <2>4, Zenon
  <2>6. x[2] = y[2]
    <3>1. PICK a, b : a = x[2] /\ b = y[2]
      BY Zenon
    <3>2. a \in 1 .. n /\ b \in 1 .. n /\ o + a = o + b /\ n \in Nat
      BY <2>3, <2>4, <2>5, <3>1, Zenon
    <3> QED BY <3>1, <3>2, SameSum, Zenon
  <2>7. x = <<x[1], x[2]>> /\ y = <<y[1], y[2]>>
    BY <1>1, Zenon
  <2> QED BY <2>2, <2>6, <2>7, Zenon
<1> HIDE DEF P
<1>6. f \in Injection(P, T)
  BY <1>3, <1>5, Zenon DEF Injection, IsInjective
<1>7. IsFiniteSet(1 .. ls[e]) /\ Cardinality(1 .. ls[e]) = ls[e]
  <2>1. ls[e] >= 1 /\ 1 \in Int /\ ls[e] \in Int
    BY <1>0
  <2>2. /\ IsFiniteSet(1 .. ls[e])
        /\ Cardinality(1 .. ls[e]) = IF 1 > ls[e] THEN 0 ELSE ls[e] - 1 + 1
    BY <2>1, FS_Interval, Zenon
  <2> QED BY <1>0, <2>1, <2>2, SMTT(30)
<1>8. IsFiniteSet(T) /\ Cardinality(T) = ls[e] - 1
  <2>1. /\ IsFiniteSet(T)
        /\ Cardinality(T) = IF m \in 1 .. ls[e] THEN Cardinality(1 .. ls[e]) - 1
                                                ELSE Cardinality(1 .. ls[e])
    BY <1>7, FS_RemoveElement, Zenon
  <2> QED BY <1>7, <2>1, Zenon
<1> HIDE DEF T, f
<1>9. IsFiniteSet(P) /\ Cardinality(P) <= Cardinality(T)
  BY <1>6, <1>8, FS_Injection, Zenon
<1>10. Cardinality(P) \in Nat
  BY <1>9, FS_CardinalityType, Zenon
<1>11. Cardinality(P) < ls[e]
  BY <1>0, <1>8, <1>9, <1>10, SMTT(30)
<1> QED BY <1>11, Zenon DEF P

(* Up to a whole record, no byte of the entry lies behind the record's.    *)
LEMMA BytesBefore ==
    ASSUME NEW ls \in Seq(Nat \ {0}), NEW s \in Seq(RecordOf), Chained(ls, s), Apart(s),
           NEW h \in DOMAIN s, Whole(s[h]), NEW p \in Nat, StartsAt(ls, s[h], p),
           NEW k \in DOMAIN s, k <= h, s[k].entry = s[h].entry, NEW b \in DOMAIN s[k].data
    PROVE  s[k].data[b][2] \in Nat /\ s[k].data[b][2] <= p + MaxRecord
<1> DEFINE n == Len(s[h].data)
           v == s[k].data[b][2]
<1>0. s[h] \in RecordOf /\ s[k] \in RecordOf /\ k \in Nat /\ h \in Nat
  OBVIOUS
<1>1. /\ n \in Nat /\ n = s[h].want /\ n >= 1 /\ n <= MaxRecord /\ DOMAIN s[h].data = 1 .. n
      /\ \A c \in 1 .. n : s[h].data[c][2] = p + c
  <2>1. /\ n \in Nat /\ s[h].want >= 1 /\ s[h].want <= MaxRecord /\ DOMAIN s[h].data = 1 .. n
        /\ \A c \in 1 .. n : s[h].data[c][2] = p + c
    BY <1>0, RecordBytes, ZenonT(40)
  <2>2. n = s[h].want
    BY Zenon DEF Whole
  <2> QED BY <2>1, <2>2, Zenon
<1>2. v \in Nat
  <2>1. PICK o \in Nat : StartsAt(ls, s[k], o)
    BY Zenon DEF Chained
  <2>2. /\ Len(s[k].data) \in Nat /\ DOMAIN s[k].data = 1 .. Len(s[k].data)
        /\ \A c \in 1 .. Len(s[k].data) : s[k].data[c][2] = o + c
    BY <1>0, <2>1, RecordBytes, ZenonT(40)
  <2>3. v = o + b /\ b \in 1 .. Len(s[k].data)
    BY <2>2, Zenon
  <2>4. b \in Nat
    BY <2>2, <2>3
  <2> HIDE DEF v
  <2> QED BY <2>3, <2>4
<1>3. CASE k = h
  <2>1. b \in 1 .. n /\ v = p + b
    BY <1>1, <1>3, Zenon
  <2> HIDE DEF n, v
  <2>2. v <= p + MaxRecord
    BY <1>1, <2>1, Constants, SMTT(30)
  <2> QED BY <1>2, <2>2, Zenon DEF v
<1>4. CASE k < h
  <2>1. 1 \in 1 .. n
    <3> HIDE DEF n
    <3> QED BY <1>1
  <2>2. v < s[h].data[1][2]
    BY <1>1, <1>4, <2>1, Zenon DEF Apart
  <2>3. s[h].data[1][2] = p + 1
    BY <1>1, <2>1, Zenon
  <2>4. v < p + 1
    BY <2>2, <2>3, Zenon
  <2> HIDE DEF v
  <2>5. v <= p + MaxRecord
    BY <1>2, <2>4, Constants
  <2> QED BY <1>2, <2>5, Zenon DEF v
<1> QED BY <1>0, <1>3, <1>4

(* Where an entry ends, whole or not, newer entries follow.                *)
LEMMA NewerBehind ==
    ASSUME NEW s \in Seq(RecordOf), Ordered(s), NEW h \in DOMAIN s,
           h + 1 \in DOMAIN s => s[h].entry < s[h + 1].entry,
           NEW k \in DOMAIN s, h < k
    PROVE  s[k].entry # s[h].entry
<1>1. h \in Nat /\ k \in Nat /\ h + 1 \in DOMAIN s /\ (h + 1 < k \/ k = h + 1)
  OBVIOUS
<1>2. s[h].entry \in Nat /\ s[h + 1].entry \in Nat /\ s[k].entry \in Nat
  <2>1. s[h] \in RecordOf /\ s[h + 1] \in RecordOf /\ s[k] \in RecordOf
    BY <1>1
  <2> QED BY <2>1, Zenon DEF RecordOf
<1>3. s[h].entry < s[h + 1].entry
  BY <1>1, Zenon
<1>4. h + 1 < k => s[h + 1].entry <= s[k].entry
  BY <1>1, Zenon DEF Ordered
<1> QED BY <1>1, <1>2, <1>3, <1>4, SMTT(30)

(* A torn record cuts its entry short.                                     *)
LEMMA TornCuts ==
    ASSUME NEW ls \in Seq(Nat \ {0}), NEW s \in Seq(RecordOf), Chained(ls, s), Sorted(s),
           NEW h \in DOMAIN s, ~Whole(s[h])
    PROVE  s[h].entry \in DOMAIN ls /\ Cardinality(BytesIn(s, s[h].entry)) < ls[s[h].entry]
<1> DEFINE r == s[h]
           e == s[h].entry
           n == Len(s[h].data)
<1>0. r \in RecordOf /\ h \in Nat /\ h >= 1
  OBVIOUS
<1>1. PICK o \in Nat : StartsAt(ls, r, o) /\ Placed(ls, s, h, o)
  BY Zenon DEF Chained
<1>2. /\ n \in Nat /\ r.want \in Nat /\ ls[e] \in Nat /\ e \in DOMAIN ls /\ e \in Nat
      /\ r.want >= 1 /\ o + r.want <= ls[e] /\ n <= r.want /\ DOMAIN r.data = 1 .. n
      /\ \A b \in 1 .. n : r.data[b][2] = o + b
  BY <1>0, <1>1, RecordBytes, ZenonT(40)
<1>3. n < r.want
  <2>1. CASE ~r.head
    <3>1. n = 0
      BY <2>1, Zenon DEF Sorted, Headless
    <3> HIDE DEF n
    <3> QED BY <1>2, <3>1
  <2>2. CASE r.head
    <3>1. n # r.want
      BY <2>2, Zenon DEF Whole
    <3> HIDE DEF n
    <3> QED BY <1>2, <3>1, SMTT(30)
  <2> QED BY <2>1, <2>2, Zenon
<1> DEFINE m == o + n + 1
<1>4. m \in 1 .. ls[e]
  <2> HIDE DEF n, r, e
  <2> QED BY <1>2, <1>3, SMTT(30)
<1>5. h + 1 \in DOMAIN s => s[h].entry < s[h + 1].entry
  <2> SUFFICES ASSUME h + 1 \in DOMAIN s PROVE s[h].entry < s[h + 1].entry
    BY Zenon
  <2>1. PICK x \in Nat : Placed(ls, s, h + 1, x)
    BY Zenon DEF Chained
  <2>2. (h + 1) - 1 = h /\ h + 1 > 1
    BY <1>0
  <2> QED BY <2>1, <2>2, Zenon DEF Placed, Continues
<1>6. ASSUME NEW k \in DOMAIN s, s[k].entry = e, NEW b \in DOMAIN s[k].data
      PROVE  s[k].data[b][2] # m
  <2>1. k \in Nat /\ (k = h \/ k < h \/ h < k)
    BY <1>0
  <2>2. CASE h < k
    BY <1>5, <1>6, <2>2, NewerBehind, Zenon DEF Sorted
  <2>3. CASE k = h
    <3>1. b \in 1 .. n /\ s[k].data[b][2] = o + b
      BY <1>2, <1>6, <2>3, Zenon
    <3> HIDE DEF n
    <3>2. o + b # m
      BY <1>2, <3>1, SMTT(30)
    <3> QED BY <3>1, <3>2, Zenon
  <2>4. CASE k < h
    <3>1. h - 1 \in DOMAIN s /\ k <= h - 1 /\ h > 1 /\ (k = h - 1 \/ k < h - 1)
      BY <1>0, <2>1, <2>4, SMTT(30)
    <3>2. CASE o = 0
      <4>1. s[h - 1].entry < e
        BY <1>1, <3>1, <3>2, Zenon DEF Placed
      <4>2. k < h - 1 => s[k].entry <= s[h - 1].entry
        BY <3>1, Zenon DEF Sorted, Ordered
      <4>3. s[h - 1].entry \in Nat
        <5>1. s[h - 1] \in RecordOf
          BY <3>1
        <5> QED BY <5>1, Zenon DEF RecordOf
      <4> HIDE DEF e
      <4> QED BY <1>2, <1>6, <3>1, <4>1, <4>2, <4>3, SMTT(30)
    <3>3. CASE o # 0
      <4>1. /\ s[h - 1].entry = e /\ Whole(s[h - 1]) /\ o >= MaxRecord
            /\ StartsAt(ls, s[h - 1], o - MaxRecord)
        BY <1>1, <3>3, Zenon DEF Placed, Continues
      <4>2. o - MaxRecord \in Nat /\ (o - MaxRecord) + MaxRecord = o
        BY <4>1, Constants
      <4>3. s[k].entry = s[h - 1].entry
        BY <1>6, <4>1, Zenon
      <4>4. s[k].data[b][2] \in Nat /\ s[k].data[b][2] <= (o - MaxRecord) + MaxRecord
        <5>1. Apart(s)
          BY Zenon DEF Sorted
        <5> QED BY <3>1, <4>1, <4>2, <4>3, <5>1, BytesBefore, Zenon
      <4> DEFINE v == s[k].data[b][2]
      <4>5. v \in Nat /\ v <= o
        BY <4>2, <4>4, Zenon
      <4> HIDE DEF n, v
      <4>6. v # m
        BY <1>2, <4>5
      <4> QED BY <4>6, Zenon DEF v
    <3> QED BY <3>2, <3>3, Zenon
  <2> QED BY <2>1, <2>2, <2>3, <2>4, Zenon
<1>7. Apart(s)
  BY Zenon DEF Sorted
<1> HIDE DEF m, r, n
<1>8. e \in DOMAIN ls /\ Cardinality(BytesIn(s, e)) < ls[e]
  <2> HIDE DEF e
  <2> QED BY <1>2, <1>4, <1>6, <1>7, Missing, Zenon
<1> QED BY <1>8, Zenon

(* An entry that ends without its last record is cut short.                *)
LEMMA UnfinishedCuts ==
    ASSUME NEW ls \in Seq(Nat \ {0}), NEW s \in Seq(RecordOf), Chained(ls, s), Sorted(s),
           NEW h \in DOMAIN s, Whole(s[h]), NEW p \in Nat, StartsAt(ls, s[h], p),
           p + MaxRecord < ls[s[h].entry],
           h + 1 \in DOMAIN s => s[h].entry < s[h + 1].entry
    PROVE  s[h].entry \in DOMAIN ls /\ Cardinality(BytesIn(s, s[h].entry)) < ls[s[h].entry]
<1> DEFINE e == s[h].entry
           m == p + MaxRecord + 1
<1>0. h \in Nat /\ Apart(s) /\ Ordered(s)
  BY DEF Sorted
<1>1. e \in DOMAIN ls /\ ls[e] \in Nat
  BY DEF StartsAt
<1>2. m \in 1 .. ls[e]
  <2>1. p + MaxRecord < ls[e]
    BY Zenon
  <2> HIDE DEF e
  <2> QED BY <1>1, <2>1, Constants, SMTT(30)
<1>3. ASSUME NEW k \in DOMAIN s, s[k].entry = e, NEW b \in DOMAIN s[k].data
      PROVE  s[k].data[b][2] # m
  <2>1. k \in Nat /\ (k <= h \/ h < k)
    BY <1>0
  <2>2. CASE h < k
    BY <1>0, <1>3, <2>2, NewerBehind, Zenon
  <2>3. CASE k <= h
    <3> DEFINE v == s[k].data[b][2]
    <3>1. v \in Nat /\ v <= p + MaxRecord
      BY <1>0, <1>3, <2>3, BytesBefore, Zenon
    <3> HIDE DEF v
    <3>2. v # m
      BY <3>1, Constants
    <3> QED BY <3>2, Zenon DEF v
  <2> QED BY <2>1, <2>2, <2>3, Zenon
<1> HIDE DEF m
<1>4. e \in DOMAIN ls /\ Cardinality(BytesIn(s, e)) < ls[e]
  <2> HIDE DEF e
  <2> QED BY <1>0, <1>1, <1>2, <1>3, Missing, Zenon
<1> QED BY <1>4, Zenon

LEMMA CutIs ==
    ASSUME NEW h \in DOMAIN file, file[h].entry \in DOMAIN lens,
           Cardinality(BytesIn(file, file[h].entry)) < lens[file[h].entry]
    PROVE  file[h].entry \in CutShort
<1>1. Present(file[h].entry) < lens[file[h].entry]
  BY Zenon DEF Present, BytesIn
<1> QED BY <1>1, Zenon DEF CutShort

(***************************************************************************)
(* The steps of the writer, and the stops.                                 *)
(***************************************************************************)
LEMMA LogFacts ==
    ASSUME WalInv
    PROVE  /\ file \in Seq(RecordOf) /\ buffer \in Seq(RecordOf) /\ Stream \in Seq(RecordOf)
           /\ lens \in Seq(Nat \ {0}) /\ Chained(lens, Stream) /\ Stream = file \o buffer
           /\ Len(file) \in Nat /\ Len(buffer) \in Nat /\ Len(Stream) = Len(file) + Len(buffer)
           /\ durable \in Nat /\ durable <= Len(file)
           /\ \A k \in 1 .. Len(file) : Stream[k] = file[k]
           /\ state # "up" => Stream = file
<1>1. /\ file \in Seq(RecordOf) /\ buffer \in Seq(RecordOf) /\ Chained(lens, Stream)
      /\ lens \in Seq(Lens) /\ durable \in 0 .. Len(file) /\ (state # "up" => buffer = <<>>)
      /\ Stream = file \o buffer
  BY Zenon DEF WalInv, WTypeOK, Stream
<1>2. /\ Stream \in Seq(RecordOf) /\ Len(Stream) = Len(file) + Len(buffer)
      /\ \A k \in 1 .. Len(file) : Stream[k] = file[k]
  BY <1>1, Concat, Zenon
<1>3. Len(file) \in Nat /\ Len(buffer) \in Nat /\ durable \in Nat /\ durable <= Len(file)
  BY <1>1
<1>4. lens \in Seq(Nat \ {0})
  <2>1. ASSUME NEW S, NEW T, S \subseteq T, NEW s \in Seq(S) PROVE s \in Seq(T)
    BY <2>1
  <2> QED BY <1>1, <2>1, Constants, Zenon
<1>5. state # "up" => Stream = file
  BY <1>1
<1> QED BY <1>1, <1>2, <1>3, <1>4, <1>5, Zenon

LEMMA KeptStays ==
    ASSUME Kept, synced' = synced, durable' = durable, \A k \in 1 .. durable : file'[k] = file[k],
           \A e \in DOMAIN lens : e \in DOMAIN lens' /\ lens'[e] = lens[e]
    PROVE  Kept'
<1> SUFFICES ASSUME NEW i \in synced'
             PROVE  \E k \in 1 .. durable' : file'[k].entry = i /\ Final(lens', file'[k])
  BY Zenon DEF Kept
<1>1. PICK k \in 1 .. durable : file[k].entry = i /\ Final(lens, file[k])
  BY Zenon DEF Kept
<1>2. Final(lens', file[k])
  BY <1>1, FinalMore, Zenon
<1> QED BY <1>1, <1>2, Zenon

LEMMA AppendSyncs ==
    ASSUME WalInv, SyncInv, AppendEntry \/ AppendFails PROVE SyncInv'
<1>1. PICK len \in Lens :
        /\ Give(len)
        /\ \E n \in 0 .. Len(Fragments(Len(lens'), Data(Len(lens')))) :
              /\ buffer' = buffer \o SubSeq(Fragments(Len(lens'), Data(Len(lens'))), 1, n)
              /\ \/ added' = added
                 \/ /\ added' = added \cup {Len(lens')}
                    /\ n = Len(Fragments(Len(lens'), Data(Len(lens'))))
        /\ UNCHANGED <<state, file, durable, synced>>
  BY AppendShape, Zenon
<1> DEFINE i == Len(lens')
           F == Fragments(i, Bytes(i, 0, lens'[i]))
<1>2. /\ state = "up" /\ lens' \in Seq(Nat \ {0}) /\ i \in DOMAIN lens'
      /\ \A e \in DOMAIN lens : e \in DOMAIN lens' /\ lens'[e] = lens[e] /\ e < i
      /\ Data(i) = Bytes(i, 0, lens'[i])
  BY <1>1, GiveFacts, Zenon
<1>3. PICK n \in 0 .. Len(F) :
        /\ buffer' = buffer \o SubSeq(F, 1, n)
        /\ added' = added \/ (added' = added \cup {i} /\ n = Len(F))
  BY <1>1, <1>2, Zenon
<1> DEFINE p == SubSeq(F, 1, n)
<1>4. /\ Len(F) \in Nat /\ Len(F) >= 1 /\ Final(lens', F[Len(F)]) /\ F \in Seq(RecordOf)
      /\ \A j \in 1 .. Len(F) : F[j].entry = i
  <2>1. Len(F) \in Nat /\ Len(F) >= 1 /\ Final(lens', F[Len(F)])
    BY <1>2, LastFragment, Zenon
  <2>2. /\ F \in Seq(RecordOf)
        /\ \A j \in 1 .. Len(F) : \A o : o = (j - 1) * MaxRecord =>
              /\ o \in Nat /\ StartsAt(lens', F[j], o) /\ F[j].entry = i /\ Whole(F[j])
    BY <1>2, FragmentStarts, Zenon
  <2> QED BY <2>1, <2>2, Zenon
<1>5. /\ file \in Seq(RecordOf) /\ buffer \in Seq(RecordOf) /\ Stream \in Seq(RecordOf)
      /\ Chained(lens, Stream) /\ Stream = file \o buffer
  BY LogFacts, Zenon
<1> HIDE DEF F
<1>6. p \in Seq(RecordOf) /\ Len(p) = n /\ \A j \in 1 .. n : p[j] = F[j]
  BY <1>4, Prefix, Zenon
<1>7. Stream' = Stream \o p
  <2>1. Stream' = file \o (buffer \o p)
    BY <1>1, <1>3, Zenon DEF Stream
  <2> HIDE DEF p
  <2> QED BY <1>5, <1>6, <2>1, SMTT(30)
<1>8. \A k \in DOMAIN Stream : Stream[k].entry < i
  BY <1>2, <1>5, Zenon DEF Chained, StartsAt
<1>9. Sorted(Stream')
  BY <1>2, <1>5, <1>7, <1>8, SortedAppend, ZenonT(40) DEF F, SyncInv
<1> HIDE DEF p, i
<1>10. /\ DOMAIN Stream' = 1 .. Len(Stream) + n /\ DOMAIN Stream = 1 .. Len(Stream)
       /\ Len(Stream) \in Nat /\ n \in Nat
       /\ \A k \in 1 .. Len(Stream) : Stream'[k] = Stream[k]
       /\ \A k \in 1 .. n : Stream'[Len(Stream) + k] = p[k]
  <2>1. /\ Stream' \in Seq(RecordOf) /\ Len(Stream') = Len(Stream) + Len(p)
        /\ \A k \in 1 .. Len(Stream) : Stream'[k] = Stream[k]
        /\ \A k \in 1 .. Len(p) : Stream'[Len(Stream) + k] = p[k]
    <3>1. Stream \in Seq(RecordOf) /\ p \in Seq(RecordOf)
      BY <1>5, <1>6, Zenon
    <3>2. /\ Stream \o p \in Seq(RecordOf) /\ Len(Stream \o p) = Len(Stream) + Len(p)
          /\ \A k \in 1 .. Len(Stream) : (Stream \o p)[k] = Stream[k]
          /\ \A k \in 1 .. Len(p) : (Stream \o p)[Len(Stream) + k] = p[k]
      BY <3>1, Concat, SMTT(30)
    <3> QED BY <1>7, <3>2, Zenon
  <2>2. Len(Stream) \in Nat /\ DOMAIN Stream = 1 .. Len(Stream) /\ DOMAIN Stream' = 1 .. Len(Stream')
    BY <1>5, <2>1
  <2> QED BY <1>4, <1>6, <2>1, <2>2, SMTT(30)
<1>11. ASSUME NEW j \in added'
       PROVE  \E k \in DOMAIN Stream' : Stream'[k].entry = j /\ Final(lens', Stream'[k])
  <2>1. CASE j \in added
    <3>1. PICK k \in DOMAIN Stream : Stream[k].entry = j /\ Final(lens, Stream[k])
      BY <2>1, Zenon DEF SyncInv, Written
    <3>2. k \in DOMAIN Stream' /\ Stream'[k] = Stream[k]
      BY <1>10
    <3>3. Final(lens', Stream[k])
      BY <1>2, <3>1, FinalMore, Zenon
    <3> QED BY <3>1, <3>2, <3>3, Zenon
  <2>2. CASE j = i /\ n = Len(F)
    <3>1. Len(Stream) + n \in DOMAIN Stream' /\ n \in 1 .. n /\ n \in 1 .. Len(F)
      BY <1>4, <1>10, <2>2, SMTT(30)
    <3>2. Stream'[Len(Stream) + n] = F[Len(F)]
      BY <1>6, <1>10, <2>2, <3>1, Zenon
    <3> QED BY <1>4, <2>2, <3>1, <3>2, ZenonT(40)
  <2> QED BY <1>3, <1>11, <2>1, <2>2, Zenon
<1>12. Kept'
  BY <1>1, <1>2, KeptStays, Zenon DEF SyncInv
<1>13. state' \notin {"recovering", "recovered"}
  BY <1>1, <1>2, Zenon
<1> QED BY <1>9, <1>11, <1>12, <1>13, Zenon DEF SyncInv, Written

LEMMA TearsSyncs == ASSUME WalInv, SyncInv, AppendTears PROVE SyncInv'
<1>1. PICK len \in Lens :
        /\ Give(len)
        /\ \E F : /\ F = Fragments(Len(lens'), Bytes(Len(lens'), 0, lens'[Len(lens')]))
                 /\ F \in Seq(RecordOf) /\ Len(F) \in 0 .. Len(F) /\ SubSeq(F, 1, Len(F)) = F
                 /\ \E n \in Len(Stream) .. Len(Stream \o F) - 1 :
                       \E r \in Torn((Stream \o F)[n + 1]) : file' = Append(SubSeq(Stream \o F, 1, n), r)
        /\ buffer' = <<>>
        /\ UNCHANGED <<state, durable, added, synced>>
  BY TearsShape, Zenon
<1>2. /\ state = "up" /\ lens' \in Seq(Nat \ {0}) /\ Len(lens') \in DOMAIN lens'
      /\ \A e \in DOMAIN lens : e \in DOMAIN lens' /\ lens'[e] = lens[e] /\ e < Len(lens')
  BY <1>1, GiveFacts, Zenon
<1>3. PICK F : /\ F = Fragments(Len(lens'), Bytes(Len(lens'), 0, lens'[Len(lens')]))
               /\ F \in Seq(RecordOf) /\ Len(F) \in 0 .. Len(F) /\ SubSeq(F, 1, Len(F)) = F
               /\ \E n \in Len(Stream) .. Len(Stream \o F) - 1 :
                     \E r \in Torn((Stream \o F)[n + 1]) : file' = Append(SubSeq(Stream \o F, 1, n), r)
  BY <1>1, Zenon
<1>f. PICK n \in Len(Stream) .. Len(Stream \o F) - 1 :
        \E r \in Torn((Stream \o F)[n + 1]) : file' = Append(SubSeq(Stream \o F, 1, n), r)
  BY <1>3, Zenon
<1>4. PICK r \in Torn((Stream \o F)[n + 1]) : file' = Append(SubSeq(Stream \o F, 1, n), r)
  BY <1>f, Zenon
<1>5. /\ file \in Seq(RecordOf) /\ buffer \in Seq(RecordOf) /\ Stream \in Seq(RecordOf)
      /\ Chained(lens, Stream) /\ Stream = file \o buffer
      /\ Len(file) \in Nat /\ durable \in Nat /\ durable <= Len(file)
  BY LogFacts, Zenon
<1>6. Stream \o F \in Seq(RecordOf)
  BY <1>3, <1>5, Concat, Zenon
<1>7. \A k \in DOMAIN Stream : Stream[k].entry < Len(lens')
  BY <1>2, <1>5, Zenon DEF Chained, StartsAt
<1>8. Sorted(Stream \o F)
  <2>1. Sorted(Stream \o SubSeq(F, 1, Len(F)))
    BY <1>2, <1>3, <1>5, <1>7, SortedAppend, ZenonT(40) DEF SyncInv
  <2> QED BY <1>3, <2>1, Zenon
<1>9. n \in 0 .. Len(Stream \o F) - 1 /\ n + 1 \in DOMAIN (Stream \o F)
  <2>1. Len(Stream) \in Nat /\ Len(Stream \o F) \in Nat
    BY <1>5, <1>6
  <2> QED BY <1>6, <2>1, SMTT(30)
<1>10. Sorted(file')
  BY <1>4, <1>6, <1>8, <1>9, SortedTorn, Zenon
<1>11. r \in RecordOf
  <2>1. (Stream \o F)[n + 1] \in RecordOf
    BY <1>6, <1>9, SMTT(30)
  <2> QED BY <2>1, TornStarts, Zenon
<1>12. /\ file' \in Seq(RecordOf) /\ \A k \in 1 .. Len(Stream) : file'[k] = Stream[k]
       /\ Len(file') = n + 1 /\ n \in Nat /\ Len(Stream) <= n
  <2> DEFINE g == Append(SubSeq(Stream \o F, 1, n), r)
  <2>1. /\ g \in Seq(RecordOf) /\ \A k \in 1 .. Len(Stream) : g[k] = Stream[k]
        /\ Len(g) = n + 1 /\ n \in Nat /\ Len(Stream) <= n
    <3>1. F \in Seq(RecordOf) /\ Stream \in Seq(RecordOf)
      BY <1>3, <1>5, Zenon
    <3> QED BY <3>1, <1>11, StreamStays, Zenon
  <2>2. file' = g
    BY <1>4, Zenon
  <2> HIDE DEF g
  <2> QED BY <2>1, <2>2, Zenon
<1>13. Stream' = file'
  BY <1>1, <1>12, SMTT(30) DEF Stream
<1>14. ASSUME NEW j \in added'
       PROVE  \E k \in DOMAIN Stream' : Stream'[k].entry = j /\ Final(lens', Stream'[k])
  <2>1. PICK k \in DOMAIN Stream : Stream[k].entry = j /\ Final(lens, Stream[k])
    BY <1>1, <1>14, Zenon DEF SyncInv, Written
  <2>2. k \in DOMAIN file' /\ k \in 1 .. Len(Stream)
    BY <1>5, <1>12, SMTT(30)
  <2>3. file'[k] = Stream[k] /\ Final(lens', Stream[k])
    BY <1>2, <1>12, <2>1, <2>2, FinalMore, Zenon
  <2> QED BY <1>13, <2>1, <2>2, <2>3, Zenon
<1>15. Kept'
  <2>1. \A k \in 1 .. durable : k \in 1 .. Len(file) /\ k \in 1 .. Len(Stream)
    BY LogFacts, SMTT(30)
  <2>2. \A k \in 1 .. Len(file) : Stream[k] = file[k]
    BY LogFacts, Zenon
  <2>3. \A k \in 1 .. durable : file'[k] = file[k]
    BY <1>12, <2>1, <2>2, Zenon
  <2> QED BY <1>1, <1>2, <2>3, KeptStays, Zenon DEF SyncInv
<1>16. state' \notin {"recovering", "recovered"}
  BY <1>1, <1>2, Zenon
<1> QED BY <1>10, <1>13, <1>14, <1>15, <1>16, Zenon DEF SyncInv, Written

LEMMA WriterSyncs ==
    ASSUME WalInv, SyncInv, SpillRecord \/ Sync \/ DropWriter \/ Crash PROVE SyncInv'
<1>0. /\ file \in Seq(RecordOf) /\ buffer \in Seq(RecordOf) /\ Stream \in Seq(RecordOf)
      /\ Stream = file \o buffer /\ Len(file) \in Nat /\ Len(buffer) \in Nat
      /\ Len(Stream) = Len(file) + Len(buffer) /\ durable \in Nat /\ durable <= Len(file)
      /\ \A k \in 1 .. Len(file) : Stream[k] = file[k]
  BY LogFacts, Zenon
<1>1. Sorted(Stream) /\ Written /\ Kept
  BY Zenon DEF SyncInv
<1>2. CASE SpillRecord
  <2>1. /\ file' = Append(file, Head(buffer)) /\ buffer' = Tail(buffer) /\ buffer # <<>>
        /\ state = "up" /\ UNCHANGED <<state, durable, lens, added, synced>>
    BY <1>2, Zenon DEF SpillRecord
  <2>2. file' \o buffer' = file \o buffer /\ \A k \in 1 .. Len(file) : file'[k] = file[k]
    BY <1>0, <2>1, SMTT(30)
  <2>3. Stream' = Stream
    BY <2>2, Zenon DEF Stream
  <2>4. Written'
    BY <1>1, <2>1, <2>3, Zenon DEF Written
  <2>5. Kept'
    <3>1. \A k \in 1 .. durable : file'[k] = file[k]
      BY <1>0, <2>2, WithinUpTo, Zenon
    <3> QED BY <1>1, <2>1, <3>1, KeptStays, Zenon
  <2> QED BY <1>1, <2>1, <2>3, <2>4, <2>5, Zenon DEF SyncInv
<1>3. CASE Sync
  <2>1. /\ file' = file \o buffer /\ buffer' = <<>> /\ state' = "up" /\ durable' = Len(file')
        /\ synced' = synced \cup added /\ UNCHANGED <<lens, added>>
    BY <1>3, Zenon DEF Sync
  <2>2. Stream' = Stream /\ file' = Stream /\ DOMAIN Stream = 1 .. durable'
    BY <1>0, <2>1 DEF Stream
  <2>3. Written'
    BY <1>1, <2>1, <2>2, Zenon DEF Written
  <2>4. ASSUME NEW i \in synced'
        PROVE  \E k \in 1 .. durable' : file'[k].entry = i /\ Final(lens', file'[k])
    <3>1. CASE i \in added
      <4>1. PICK k \in DOMAIN Stream : Stream[k].entry = i /\ Final(lens, Stream[k])
        BY <1>1, <3>1, Zenon DEF Written
      <4> QED BY <2>1, <2>2, <4>1, Zenon
    <3>2. CASE i \in synced
      <4>1. PICK k \in 1 .. durable : file[k].entry = i /\ Final(lens, file[k])
        BY <1>1, <3>2, Zenon DEF Kept
      <4>2. k \in 1 .. Len(file) /\ k \in DOMAIN Stream
        BY <1>0
      <4>3. Stream[k] = file[k]
        BY <1>0, <4>2, Zenon
      <4> QED BY <2>1, <2>2, <4>1, <4>2, <4>3, Zenon
    <3> QED BY <2>1, <3>1, <3>2, Zenon
  <2>5. Kept'
    BY <2>4, Zenon DEF Kept
  <2>6. state' \notin {"recovering", "recovered"}
    BY <2>1, Zenon
  <2> QED BY <1>1, <2>2, <2>3, <2>5, <2>6, Zenon DEF SyncInv
<1>4. CASE DropWriter
  <2>1. /\ file' = file \o buffer /\ buffer' = <<>> /\ state' = "down" /\ added' = {}
        /\ UNCHANGED <<durable, lens, synced>>
    BY <1>4, Zenon DEF DropWriter, Stop
  <2>2. Stream' = Stream /\ file' = Stream
    BY <1>0, <2>1 DEF Stream
  <2>3. Kept'
    <3>1. \A k \in 1 .. durable : k \in 1 .. Len(file)
      BY <1>0
    <3>2. \A k \in 1 .. durable : file'[k] = file[k]
      BY <1>0, <2>2, <3>1, Zenon
    <3> QED BY <1>1, <2>1, <3>2, KeptStays, Zenon
  <2>4. Written' /\ state' \notin {"recovering", "recovered"}
    BY <2>1, Zenon DEF Written
  <2> QED BY <1>1, <2>2, <2>3, <2>4, Zenon DEF SyncInv
<1>5. CASE Crash
  <2>1. /\ file' = file /\ buffer' = <<>> /\ state' = "down" /\ added' = {}
        /\ UNCHANGED <<durable, lens, synced>>
    BY <1>5, Zenon DEF Crash, Stop
  <2>2. Stream' = SubSeq(Stream, 1, Len(file)) /\ Len(file) \in 0 .. Len(Stream)
    BY <1>0, <2>1 DEF Stream
  <2>3. Sorted(Stream')
    BY <1>0, <1>1, <2>2, SortedPrefix, Zenon
  <2>4. Kept'
    BY <1>1, <2>1, KeptStays, Zenon
  <2>5. Written' /\ state' \notin {"recovering", "recovered"}
    BY <2>1, Zenon DEF Written
  <2> QED BY <2>3, <2>4, <2>5, Zenon DEF SyncInv
<1> QED BY <1>2, <1>3, <1>4, <1>5, Zenon

LEMMA PowerSyncs == ASSUME WalInv, SyncInv, PowerLoss PROVE SyncInv'
<1>0. /\ file \in Seq(RecordOf) /\ Stream \in Seq(RecordOf) /\ Len(file) \in Nat
      /\ durable \in Nat /\ durable <= Len(file)
  BY LogFacts, Zenon
<1>1. Sorted(Stream) /\ Kept
  BY Zenon DEF SyncInv
<1>2. Sorted(file)
  <2>1. SubSeq(Stream, 1, Len(file)) = file /\ Len(file) \in 0 .. Len(Stream)
    BY LogFacts
  <2> QED BY <1>0, <1>1, <2>1, SortedPrefix, Zenon
<1>3. /\ buffer' = <<>> /\ state' = "down" /\ added' = {} /\ UNCHANGED <<durable, lens, synced>>
  BY Zenon DEF PowerLoss, Stop
<1>4. PICK n \in durable .. Len(file) - 1 :
          \/ file' = SubSeq(file, 1, n)
          \/ \E r \in Torn(file[n + 1]) : file' = Append(SubSeq(file, 1, n), r)
  BY Zenon DEF PowerLoss
<1>5. n \in 0 .. Len(file) /\ n \in 0 .. Len(file) - 1 /\ durable <= n /\ n \in Nat
  BY <1>0
<1> DEFINE p == SubSeq(file, 1, n)
<1>6. p \in Seq(RecordOf) /\ Len(p) = n /\ \A k \in 1 .. n : p[k] = file[k]
  BY <1>0, <1>5, Prefix, Zenon
<1>7. Sorted(file') /\ file' \in Seq(RecordOf) /\ \A k \in 1 .. n : file'[k] = file[k]
  <2>1. CASE file' = p
    <3>1. Sorted(p)
      BY <1>0, <1>2, <1>5, SortedPrefix, Zenon
    <3> QED BY <1>6, <2>1, <3>1, Zenon
  <2>2. CASE \E r \in Torn(file[n + 1]) : file' = Append(p, r)
    <3>1. PICK r \in Torn(file[n + 1]) : file' = Append(p, r)
      BY <2>2, Zenon
    <3>2. Sorted(Append(p, r))
      BY <1>0, <1>2, <1>5, SortedTorn, Zenon
    <3>3. r \in RecordOf
      <4>1. file[n + 1] \in RecordOf
        BY <1>0, <1>5, SMTT(30)
      <4> QED BY <4>1, TornStarts, ZenonT(40)
    <3> HIDE DEF p
    <3>4. Append(p, r) \in Seq(RecordOf) /\ \A k \in 1 .. n : Append(p, r)[k] = p[k]
      BY <1>5, <1>6, <3>3, SMTT(30)
    <3> QED BY <1>6, <3>1, <3>2, <3>4, Zenon
  <2> QED BY <1>4, <2>1, <2>2, Zenon
<1>8. Stream' = file'
  BY <1>3, <1>7, SMTT(30) DEF Stream
<1>9. Kept'
  <2>1. \A k \in 1 .. durable : k \in 1 .. n
    BY <1>0, <1>5
  <2>2. \A k \in 1 .. durable : file'[k] = file[k]
    BY <1>7, <2>1, Zenon
  <2> QED BY <1>1, <1>3, <2>2, KeptStays, ZenonT(40)
<1>10. Written' /\ state' \notin {"recovering", "recovered"}
  BY <1>3, Zenon DEF Written
<1> QED BY <1>7, <1>8, <1>9, <1>10, Zenon DEF SyncInv

(***************************************************************************)
(* The steps of the reader.                                                *)
(***************************************************************************)

(* The reader stops at a whole record only when an entry lacks its end.    *)
LEMMA StopCuts ==
    ASSUME Reading, SyncInv, (file[position].type \in {"Full", "First"}) = expecting
    PROVE  \E j \in CutShort : j <= file[position].entry
<1> DEFINE r == file[position]
           q == file[position - 1]
           e == file[position].entry
<1>0. /\ lens \in Seq(Nat \ {0}) /\ file \in Seq(RecordOf) /\ Chained(lens, file)
      /\ position \in Nat /\ position >= 1 /\ position \in DOMAIN file /\ r \in RecordOf
      /\ e \in DOMAIN lens /\ e \in Nat /\ lens[e] \in Nat /\ expecting \in BOOLEAN
      /\ position > 1 => position - 1 \in DOMAIN file /\ q \in RecordOf
  BY ReadingFacts, SMTT(30) DEF Reading, WalInv, WTypeOK
<1>1. Sorted(file) /\ Passed
  BY LogFacts, Zenon DEF SyncInv, Reading
<1>2. PICK o \in Nat : StartsAt(lens, r, o) /\ Placed(lens, file, position, o)
  BY <1>0, Zenon DEF Chained
<1>3. o < lens[e] /\ (o = 0 \/ o >= MaxRecord) /\ r.type = TypeAt(lens[e], o)
  BY <1>0, <1>2, Zenon DEF StartsAt, Placed, Continues
<1>4. r.type \in {"Full", "First"} <=> o = 0
  <2>1. r.type \in {"Full", "First", "Middle", "Last"}
    BY <1>0, Zenon DEF RecordOf, RecordType
  <2>2. /\ r.type = "Full" => o = 0
        /\ r.type = "First" => o = 0
        /\ r.type = "Middle" => o # 0
        /\ r.type = "Last" => o # 0
    BY <1>0, <1>3, TypeCases, Zenon
  <2> QED BY <2>1, <2>2, Zenon
<1>5. CASE expecting = TRUE
  <2>1. o = 0
    BY <1>4, <1>5, Zenon
  <2>2. position > 1 /\ \E p \in Nat : StartsAt(lens, q, p) /\ Whole(q) /\ p + MaxRecord < lens[q.entry]
    BY <1>5, Zenon DEF Reading, WalInv, InProgress
  <2>3. PICK p \in Nat : StartsAt(lens, q, p) /\ Whole(q) /\ p + MaxRecord < lens[q.entry]
    BY <2>2, Zenon
  <2>4. q.entry < e
    BY <1>0, <1>2, <2>1, <2>2, Zenon DEF Placed
  <2>5. (position - 1) + 1 = position
    BY <1>0
  <2>6. q.entry \in DOMAIN lens /\ Cardinality(BytesIn(file, q.entry)) < lens[q.entry]
    BY <1>0, <1>1, <2>2, <2>3, <2>4, <2>5, UnfinishedCuts, ZenonT(40)
  <2>7. q.entry \in CutShort
    BY <1>0, <2>2, <2>6, CutIs, ZenonT(40)
  <2>8. q.entry <= e
    <3>1. q.entry \in Nat
      BY <1>0, <2>2, Zenon DEF RecordOf
    <3> QED BY <1>0, <2>4, <3>1, SMTT(30)
  <2> QED BY <2>7, <2>8, Zenon
<1>6. CASE expecting = FALSE
  <2>1. o # 0
    BY <1>4, <1>6, Zenon
  <2>2. /\ position > 1 /\ q.entry = e /\ Whole(q) /\ o >= MaxRecord
        /\ StartsAt(lens, q, o - MaxRecord)
    BY <1>2, <2>1, Zenon DEF Placed, Continues
  <2>3. Final(lens, q)
    BY <1>1, <1>6, <2>2, Zenon DEF Passed, Reading
  <2>4. PICK p \in Nat : StartsAt(lens, q, p) /\ p + q.want = lens[q.entry]
    BY <2>3, Zenon DEF Final
  <2>5. p = o - MaxRecord
    BY <1>0, <2>2, <2>4, OneOffset, Zenon
  <2>6. q.want \in Nat /\ q.want <= MaxRecord
    BY <1>0, <2>2, <2>4, RecordBytes, Zenon
  <2>7. p + q.want = lens[e]
    BY <2>2, <2>4, Zenon
  <2> HIDE DEF e
  <2> QED BY <1>0, <1>3, <2>2, <2>5, <2>6, <2>7, Constants, SMTT(30)
<1> QED BY <1>0, <1>5, <1>6, ZenonT(40)

(* What does not change while the log is read.                             *)
LEMMA ReadingKeeps ==
    ASSUME SyncInv, UNCHANGED writer
    PROVE  Sorted(Stream') /\ Written' /\ Kept'
<1>1. UNCHANGED <<buffer, file, durable, lens, added, synced>>
  BY Zenon DEF writer
<1>2. Stream' = Stream
  BY <1>1, Zenon DEF Stream
<1>3. Written'
  BY <1>1, <1>2, Zenon DEF SyncInv, Written
<1>4. Kept'
  BY <1>1, Zenon DEF SyncInv, Kept
<1> QED BY <1>2, <1>3, <1>4, Zenon DEF SyncInv

LEMMA FinishSyncs ==
    ASSUME WalInv, SyncInv, state = "recovering", NEW outcome \in {"recovered", "failed"},
           Finish(outcome), UNCHANGED <<writer, stops>>,
           outcome = "recovered" => position > Len(file) \/ \E j \in CutShort : j <= file[position].entry
    PROVE  SyncInv'
<1>1. /\ UNCHANGED <<buffer, file, durable, lens, added, synced, position, expecting, entries>>
      /\ state' = outcome
  BY Zenon DEF writer, Finish, reader
<1>2. Sorted(Stream') /\ Written' /\ Kept'
  BY ReadingKeeps, Zenon
<1>3. Recovered' = Recovered /\ CutShort' = CutShort
  BY <1>1 DEF Recovered, Entry, CutShort, Present
<1>4. outcome = "recovered" => Passed'
  <2>1. Passed
    BY Zenon DEF SyncInv
  <2> QED BY <1>1, <1>3, <2>1, Zenon DEF Passed
<1> QED BY <1>1, <1>2, <1>4, Zenon DEF SyncInv

(* A record read is the last of an entry returned, or not the last of one. *)
LEMMA ReadSyncs ==
    ASSUME Reading, SyncInv, Assemble(file[position]), ~Finish("recovered") PROVE SyncInv'
<1> DEFINE r == file[position]
           e == file[position].entry
<1>0. /\ lens \in Seq(Nat \ {0}) /\ file \in Seq(RecordOf) /\ position \in Nat /\ position >= 1
      /\ position \in DOMAIN file /\ r \in RecordOf /\ e \in DOMAIN lens /\ Whole(r)
      /\ entries \in Seq(Seq(Nat \X Nat)) /\ state = "recovering"
  BY ReadingFacts, Zenon DEF Reading
<1>1. PICK o \in Nat :
        /\ StartsAt(lens, r, o)
        /\ \/ Accept(Entry(e)) /\ o + Chunk(lens[e], o) = lens[e]
           \/ Collect(Bytes(e, 0, o + MaxRecord)) /\ o + MaxRecord < lens[e]
  BY AssembleShape, Zenon
<1>2. UNCHANGED <<file, lens>> /\ Sorted(Stream') /\ Written' /\ Kept'
  BY ReadingKeeps, Zenon DEF Reading, writer
<1>3. \A k \in DOMAIN file : k < position /\ Final(lens, file[k]) => file[k].entry \in Recovered
  BY <1>0, Zenon DEF SyncInv, Passed
<1>4. \A k \in DOMAIN file : k < position + 1 => k < position \/ k = position
  BY <1>0, SMTT(30)
<1>5. r.want = Chunk(lens[e], o)
  BY <1>1, Zenon DEF StartsAt
<1>6. CASE Accept(Entry(e)) /\ o + Chunk(lens[e], o) = lens[e]
  <2>1. /\ entries' = Append(entries, Entry(e)) /\ expecting' = FALSE
        /\ position' = position + 1 /\ state' = state
    BY <1>6, Zenon DEF Accept
  <2>2. Final(lens, r)
    BY <1>0, <1>1, <1>5, <1>6, ZenonT(40) DEF Final
  <2>3. /\ \A k \in DOMAIN entries : k \in DOMAIN entries' /\ entries'[k] = entries[k]
        /\ Len(entries) + 1 \in DOMAIN entries' /\ entries'[Len(entries) + 1] = Entry(e)
    BY <1>0, <2>1, SMTT(30)
  <2>4. \A i : Entry(i)' = Entry(i)
    BY <1>2, Zenon DEF Entry
  <2>5. Recovered \subseteq Recovered' /\ e \in Recovered'
    BY <1>0, <1>2, <2>3, <2>4, Zenon DEF Recovered
  <2>6. \A k \in DOMAIN file' : k < position' /\ Final(lens', file'[k]) => file'[k].entry \in Recovered'
    BY <1>2, <1>3, <1>4, <2>1, <2>5, ZenonT(40)
  <2>7. position' - 1 = position
    BY <1>0, <2>1
  <2>8. Final(lens', file'[position' - 1])
    BY <1>2, <2>2, <2>7, Zenon
  <2>9. Passed'
    BY <1>0, <2>1, <2>6, <2>8, ZenonT(40) DEF Passed
  <2> QED BY <1>2, <2>9, Zenon DEF SyncInv
<1>7. CASE Collect(Bytes(e, 0, o + MaxRecord)) /\ o + MaxRecord < lens[e]
  <2>1. /\ entries' = entries /\ expecting' = TRUE
        /\ position' = position + 1 /\ state' = state
    BY <1>7, Zenon DEF Collect
  <2>2. ~Final(lens, r)
    <3> SUFFICES ASSUME Final(lens, r) PROVE FALSE
      BY Zenon
    <3>1. PICK p \in Nat : StartsAt(lens, r, p) /\ p + r.want = lens[e]
      BY Zenon DEF Final
    <3>2. p = o
      BY <1>0, <1>1, <3>1, OneOffset, Zenon
    <3>3. r.want \in Nat /\ r.want <= MaxRecord /\ lens[e] \in Nat
      BY <1>0, <1>1, RecordBytes, Zenon
    <3> HIDE DEF e, r
    <3> QED BY <1>7, <3>1, <3>2, <3>3, Constants, SMTT(30)
  <2>3. Recovered' = Recovered
    BY <1>2, <2>1, Zenon DEF Recovered, Entry
  <2>4. \A k \in DOMAIN file' : k < position' /\ Final(lens', file'[k]) => file'[k].entry \in Recovered'
    BY <1>2, <1>3, <1>4, <2>1, <2>2, <2>3, Zenon
  <2>5. Passed'
    BY <1>0, <2>1, <2>4, Zenon DEF Passed
  <2> QED BY <1>2, <2>5, Zenon DEF SyncInv
<1> QED BY <1>1, <1>6, <1>7, Zenon

(* read_next ends the reading of a whole record in this case only.         *)
LEMMA AssembleStops ==
    ASSUME NEW r, r.type \in RecordType, expecting \in BOOLEAN, Assemble(r),
           state = "recovering", state' = "recovered"
    PROVE  (r.type \in {"Full", "First"}) = expecting
<1> SUFFICES ASSUME (r.type \in {"Full", "First"}) # expecting PROVE FALSE
  BY Zenon
<1>1. r.type \in {"Full", "First", "Middle", "Last"}
  BY Zenon DEF RecordType
<1>2. \A d : ~Accept(d) /\ ~Collect(d)
  BY Zenon DEF Accept, Collect
<1>3. CASE expecting = TRUE
  BY <1>1, <1>2, <1>3, Zenon DEF Assemble
<1>4. CASE expecting = FALSE
  <2>1. r.type = "Full" \/ r.type = "First"
    BY <1>4
  <2>2. CASE r.type = "Full"
    BY <1>2, <1>4, <2>2, Zenon DEF Assemble
  <2>3. CASE r.type = "First"
    BY <1>2, <1>4, <2>3, Zenon DEF Assemble
  <2> QED BY <2>1, <2>2, <2>3, Zenon
<1> QED BY <1>3, <1>4, Zenon

LEMMA ReaderSyncs ==
    ASSUME WalInv, SyncInv, Recover \/ ReadRecord \/ Reopen \/ WRest \/ UNCHANGED wvars
    PROVE  SyncInv'
<1>1. CASE Recover
  <2>1. state' = "recovering" /\ position' = 1 /\ UNCHANGED writer /\ file' = file
    BY <1>1, Zenon DEF Recover, writer
  <2>2. Sorted(Stream') /\ Written' /\ Kept'
    BY <2>1, ReadingKeeps, Zenon
  <2>3. \A k \in DOMAIN file : ~(k < 1)
    BY LogFacts
  <2>4. ~(1 > 1) /\ state' # "recovered"
    BY <2>1
  <2>5. Passed'
    BY <2>1, <2>3, <2>4, Zenon DEF Passed
  <2> QED BY <2>2, <2>5, Zenon DEF SyncInv
<1>2. CASE ReadRecord
  <2>1. state = "recovering" /\ UNCHANGED <<writer, stops>>
    BY <1>2, Zenon DEF ReadRecord
  <2>2. CASE position > Len(file)
    <3>1. Finish("recovered")
      BY <1>2, <2>2, Zenon DEF ReadRecord
    <3> QED BY <2>1, <2>2, <3>1, FinishSyncs, Zenon
  <2>3. CASE ~(position > Len(file)) /\ ~Whole(file[position])
    <3>1. position \in DOMAIN file /\ file[position] \in RecordOf
      BY <2>3 DEF WalInv, WTypeOK
    <3>2. Misread(file[position]) \subseteq {"recovered", "failed"}
      <4>1. file[position].head \in BOOLEAN
        BY <3>1, Zenon DEF RecordOf
      <4> QED BY <4>1, Zenon DEF Misread
    <3>3. file[position].entry \in CutShort
      <4>1. Chained(lens, file) /\ Sorted(file) /\ lens \in Seq(Nat \ {0}) /\ file \in Seq(RecordOf)
        BY <2>1, LogFacts, Zenon DEF SyncInv
      <4> QED BY <2>3, <3>1, <4>1, TornCuts, CutIs, Zenon
    <3>4. file[position].entry <= file[position].entry
      BY <3>1 DEF RecordOf
    <3>5. PICK outcome \in Misread(file[position]) : Finish(outcome)
      BY <1>2, <2>3, Zenon DEF ReadRecord
    <3> QED BY <2>1, <3>2, <3>3, <3>4, <3>5, FinishSyncs, ZenonT(40)
  <2>4. CASE ~(position > Len(file)) /\ Whole(file[position])
    <3>1. position \in DOMAIN file
      BY <2>4 DEF WalInv, WTypeOK
    <3>2. Reading
      BY <2>1, <2>4, <3>1, Zenon DEF Reading
    <3>3. Assemble(file[position])
      BY <1>2, <2>4, Zenon DEF ReadRecord
    <3>4. CASE ~Finish("recovered")
      BY <3>2, <3>3, <3>4, ReadSyncs, Zenon
    <3>5. CASE Finish("recovered")
      <4>1. (file[position].type \in {"Full", "First"}) = expecting
        <5>1. state' = "recovered"
          BY <3>5, Zenon DEF Finish
        <5>2. file[position].type \in RecordType /\ expecting \in BOOLEAN
          BY <3>1, Zenon DEF WalInv, WTypeOK
        <5> QED BY <2>1, <3>3, <5>1, <5>2, AssembleStops, Zenon
      <4>2. \E j \in CutShort : j <= file[position].entry
        BY <3>2, <4>1, StopCuts, Zenon
      <4> QED BY <2>1, <3>5, <4>2, FinishSyncs, Zenon
    <3> QED BY <3>4, <3>5, Zenon
  <2> QED BY <2>2, <2>3, <2>4, Zenon
<1>3. CASE Reopen
  <2>1. state' = "up" /\ UNCHANGED writer
    BY <1>3, Zenon DEF Reopen
  <2> QED BY <2>1, ReadingKeeps, Zenon DEF SyncInv
<1>4. CASE WRest \/ UNCHANGED wvars
  <2>1. /\ UNCHANGED writer /\ UNCHANGED <<file, lens>>
        /\ UNCHANGED <<state, position, assembled, expecting, entries>>
    BY <1>4, Zenon DEF WRest, wvars, writer, reader
  <2>2. Sorted(Stream') /\ Written' /\ Kept'
    BY <2>1, ReadingKeeps, Zenon
  <2>3. Recovered' = Recovered /\ CutShort' = CutShort
    BY <2>1, Zenon DEF Recovered, Entry, CutShort, Present
  <2>4. state \in {"recovering", "recovered"} => Passed'
    BY <2>1, <2>3, Zenon DEF SyncInv, Passed
  <2> QED BY <2>1, <2>2, <2>4, Zenon DEF SyncInv
<1> QED BY <1>1, <1>2, <1>3, <1>4, Zenon
-----------------------------------------------------------------------------
LEMMA SyncStart == WInit => SyncInv
<1> SUFFICES ASSUME WInit PROVE SyncInv
  BY Zenon
<1>1. Stream = <<>> /\ added = {} /\ synced = {} /\ state = "up"
  BY DEF WInit, Stream
<1>2. DOMAIN Stream = {}
  BY <1>1
<1> QED BY <1>1, <1>2, Zenon DEF SyncInv, Sorted, Ordered, Apart, Headless, Written, Kept

LEMMA SyncInvariant == WSpec => []SyncInv
<1>1. ASSUME WalInv, SyncInv, [WNext]_wvars PROVE SyncInv'
  <2>1. CASE AppendEntry \/ AppendFails
    BY <1>1, <2>1, AppendSyncs, Zenon
  <2>5. CASE AppendTears
    BY <1>1, <2>5, TearsSyncs, Zenon
  <2>2. CASE SpillRecord \/ Sync \/ DropWriter \/ Crash
    BY <1>1, <2>2, WriterSyncs, Zenon
  <2>3. CASE PowerLoss
    BY <1>1, <2>3, PowerSyncs, Zenon
  <2>4. CASE Recover \/ ReadRecord \/ Reopen \/ WRest \/ UNCHANGED wvars
    BY <1>1, <2>4, ReaderSyncs, Zenon
  <2> QED BY <1>1, <2>1, <2>2, <2>3, <2>4, <2>5, Zenon DEF WNext
<1> QED BY SyncStart, WalInvariant, <1>1, PTL DEF WSpec

(* A recovery that ends without an error has returned every entry whose    *)
(* append and a later sync returned Ok and that stands before the first    *)
(* entry cut short: for every record size, and whatever was appended, torn *)
(* or lost before and behind (WALWriter::sync, wal/writer.rs:83;           *)
(* WALReader::recover_all, wal/reader.rs:134).                             *)
THEOREM SyncedRecovered == WSpec => []SyncedUntilCut
<1>1. ASSUME WalInv, SyncInv PROVE SyncedUntilCut
  <2> SUFFICES ASSUME state = "recovered", NEW i \in synced, \A j \in CutShort : i < j
               PROVE  i \in Recovered
    BY Zenon DEF SyncedUntilCut
  <2>1. PICK k \in 1 .. durable : file[k].entry = i /\ Final(lens, file[k])
    BY <1>1, ZenonT(40) DEF SyncInv, Kept
  <2>2. /\ Passed /\ Sorted(file) /\ file \in Seq(RecordOf) /\ Len(file) \in Nat
        /\ durable \in Nat /\ durable <= Len(file) /\ position \in Nat /\ position >= 1
    BY <1>1, LogFacts DEF SyncInv, WalInv, WTypeOK
  <2>3. k \in DOMAIN file /\ k \in Nat /\ k <= Len(file)
    BY <2>2
  <2>4. CASE k < position
    BY <2>1, <2>2, <2>3, <2>4, ZenonT(40) DEF Passed
  <2>5. CASE ~(k < position)
    <3>1. ~(position > Len(file)) /\ position \in DOMAIN file /\ (position = k \/ position < k)
      BY <2>2, <2>3, <2>5
    <3>2. PICK j \in CutShort : j <= file[position].entry
      BY <2>2, <3>1, Zenon DEF Passed
    <3>3. position < k => file[position].entry <= i
      BY <2>1, <2>2, <2>3, <3>1, Zenon DEF Sorted, Ordered
    <3>4. file[position].entry \in Nat /\ i \in Nat /\ j \in Nat /\ i < j
      <4>1. file[position] \in RecordOf /\ file[k] \in RecordOf
        BY <2>2, <2>3, <3>1, SMTT(30)
      <4>2. file[position].entry \in Nat /\ i \in Nat
        BY <2>1, <4>1, Zenon DEF RecordOf
      <4>3. j \in Nat
        BY <1>1, LogFacts, SMTT(30) DEF CutShort
      <4> QED BY <4>2, <4>3, Zenon
    <3>5. position = k => file[position].entry = i
      BY <2>1, Zenon
    <3> QED BY <3>1, <3>2, <3>3, <3>4, <3>5, SMTT(30)
  <2> QED BY <2>4, <2>5, Zenon
<1> QED BY WalInvariant, SyncInvariant, <1>1, PTL
==============================================================================
