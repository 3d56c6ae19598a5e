------------------------------ MODULE OtaProofs ------------------------------
(***************************************************************************)
(* Proofs about Ota, for files, headers and frames of any length, any      *)
(* number of retries, lost or repeated frames, failed or dropped flash     *)
(* commands and power failures, on chips that are locked or not.           *)
(***************************************************************************)
EXTENDS Ota, WellFoundedInduction, TLAPS

BinType == [fields : {"zero", "right", "wrong"}, size : {0, ImageLen, Huge},
            hsize : {0, HdrLen}]

Cells == Nat \cup {Blank, Old, Mixed}
FlagValue == {"erased", "valid", "cleared"}

NewImage(d) == \A u \in 0 .. ImageLen - 1 : d[u] = HdrLen + u

\* The types the proofs need; frames on their way may hold anything.
TypeInv ==
  /\ data \in [Bank -> [Units -> Cells]]
  /\ flag \in [Bank -> FlagValue] /\ boot \in Bank
  /\ bin \in BinType /\ headercnt \in Nat /\ offset \in Nat /\ block \in Nat
  /\ crc \in Seq(Nat)
  /\ state \in {"idle", "starting", "dataing", "end"}

\* A device that runs is flagged where it runs, holds a complete image there and
\* would boot it again, until the new bank, verified, is flagged as well.  A dead
\* device lost the flag of the new bank to a low supply.
BootInv ==
  \/ task = "dead" /\ enableLost /\ \A b \in Bank : flag[b] # "valid"
  \/ /\ task # "dead"
     /\ flag[boot] = "valid" /\ Complete(data[boot])
     /\ task # "disable" => ~enableLost /\ boot = BootBank(flag)
     /\ task = "disable" => flag[Target] = IF enableLost THEN "erased" ELSE "valid"

\* While the header is being read: a size was only read from the right place
\* on, and a header that names the file has not been read past its end.
HeaderRead(cnt, b) ==
  /\ b.size # 0 => cnt >= 3
  /\ SameFile(b) => cnt <= HdrLen

\* The CRC stands for the first units of the bank.
CrcOf(c, d, n) == Len(c) = n /\ \A k \in 1 .. n : c[k] = d[k - 1]

\* A transfer starts from a clean state, but for ota_headercnt and
\* ota_headersize; once data is written the count and the offset go together,
\* and the CRC covers what was written; the first block passes its check only
\* when the flag is erased.
TransferInv ==
  /\ state \in {"idle", "starting"} /\ task \in {"none", "erase"} =>
       crc = <<>> /\ offset = 0 /\ HeaderRead(headercnt, bin)
  /\ state = "dataing" => headercnt = bin.hsize + offset /\ headercnt < FileLen
  /\ state = "dataing" /\ SameFile(bin) => CrcOf(crc, data[Target], offset)
  /\ state = "dataing" /\ offset > 0 => flag[Target] = "erased"
  /\ task # "none" => state = "idle"
  /\ task = "erase" => info = "file"

\* What was verified is the new image, until the reboot too.
VerifiedInv ==
  /\ state = "end" /\ SameFile(bin) => NewImage(data[Target]) /\ flag[Target] = "erased"
  /\ task = "enable" => NewImage(data[Target]) /\ flag[Target] = "erased"
  /\ task = "disable" => NewImage(data[Target])

CoreInv == TypeInv /\ BootInv /\ TransferInv /\ VerifiedInv
IInv == CoreInv /\ NeverSilent

---------------------------------------------------------------------------
(* Parsing the header *)

\* The equation of the recursive function inside Parse.
ParseStart == [cnt |-> headercnt, bin |-> bin, stop |-> -1]
ParseRec(n, len, f) ==
  [i \in 0 .. len |-> IF i = 0 THEN ParseStart
                      ELSE ParseStep(f[i - 1], i - 1, n * Frame + i - 1)]

\* The least element of a set of naturals.
LEMMA LeastExists ==
  ASSUME NEW S, S \subseteq Nat, S # {}
  PROVE  \E x \in S : \A y \in S : x <= y
<1>1. IsWellFoundedOn(OpToRel(<, Nat), Nat)
  BY NatLessThanWellFounded
<1>2. PICK x \in S : \A y \in S : ~(<<y, x>> \in OpToRel(<, Nat))
  BY <1>1, WFMin
<1>3. \A y \in S : ~(y < x)
  BY <1>2 DEF OpToRel
<1>4. QED
  BY <1>3

\* The recursion has a solution for every length: a solution for one unit less
\* is extended by one step, so no length is the least without one.
LEMMA ParseExists ==
  ASSUME NEW n
  PROVE  \A len \in Nat : \E f : f = ParseRec(n, len, f)
<1> DEFINE Bad == {l \in Nat : ~ \E f : f = ParseRec(n, l, f)}
<1>1. SUFFICES ASSUME Bad # {} PROVE FALSE
  OBVIOUS
<1>2. PICK m \in Bad : \A y \in Bad : m <= y
  <2> Bad \subseteq Nat
    OBVIOUS
  <2> HIDE DEF Bad
  <2> QED BY <1>1, LeastExists
<1>3. m \in Nat /\ ~ \E f : f = ParseRec(n, m, f)
  BY <1>2
<1>4. CASE m = 0
  <2> DEFINE g == [i \in 0 .. 0 |-> ParseStart]
  <2>1. g = ParseRec(n, 0, g)
    <3> \A i \in 0 .. 0 : i = 0
      OBVIOUS
    <3> HIDE DEF ParseStart
    <3> QED BY DEF ParseRec
  <2> QED BY <2>1, <1>3, <1>4
<1>5. CASE m # 0
  <2>1. m - 1 \in Nat /\ m - 1 \notin Bad
    BY <1>2, <1>3, <1>5
  <2>2. PICK f : f = ParseRec(n, m - 1, f)
    BY <2>1
  <2> DEFINE g == [i \in 0 .. m |->
                     IF i = m THEN ParseStep(f[m - 1], m - 1, n * Frame + m - 1) ELSE f[i]]
  <2>3. \A i \in 0 .. m : i # m => i \in 0 .. m - 1
    BY <1>3
  <2>4. \A i \in 0 .. m : i # 0 => i - 1 \in 0 .. m /\ i - 1 # m
    BY <1>3
  <2>5. \A i \in 0 .. m : g[i] = IF i = 0 THEN ParseStart
                                 ELSE ParseStep(g[i - 1], i - 1, n * Frame + i - 1)
    <3> SUFFICES ASSUME NEW i \in 0 .. m
                 PROVE  g[i] = IF i = 0 THEN ParseStart
                               ELSE ParseStep(g[i - 1], i - 1, n * Frame + i - 1)
      OBVIOUS
    <3>1. CASE i = m
      <4>1. g[i] = ParseStep(f[m - 1], m - 1, n * Frame + m - 1)
        BY <3>1
      <4>2. g[i - 1] = f[m - 1]
        BY <3>1, <2>4, <1>5
      <4> HIDE DEF g
      <4> QED BY <4>1, <4>2, <3>1, <1>5
    <3>2. CASE i # m
      <4>1. i \in 0 .. m - 1
        BY <3>2, <2>3
      <4>2. g[i] = f[i]
        BY <3>2
      <4>3. i # 0 => g[i - 1] = f[i - 1]
        BY <2>4
      <4>4. f[i] = IF i = 0 THEN ParseStart
                   ELSE ParseStep(f[i - 1], i - 1, n * Frame + i - 1)
        <5> HIDE DEF g
        <5> QED BY <2>2, <4>1 DEF ParseRec
      <4> HIDE DEF g
      <4> QED BY <4>2, <4>3, <4>4
    <3> QED BY <3>1, <3>2
  <2>6. g = ParseRec(n, m, g)
    <3>1. g = [i \in 0 .. m |-> g[i]]
      OBVIOUS
    <3> HIDE DEF g
    <3> QED BY <3>1, <2>5 DEF ParseRec
  <2> HIDE DEF g
  <2> QED BY <2>6, <1>3
<1> QED BY <1>4, <1>5

\* Parse is the last value of that solution.
LEMMA ParseIs ==
  ASSUME NEW n, NEW len \in Nat
  PROVE  \E f : f = ParseRec(n, len, f) /\ Parse(n, len) = f[len]
<1> DEFINE p == CHOOSE f : f = ParseRec(n, len, f)
<1>1. p = ParseRec(n, len, p)
  BY ParseExists
<1>2. Parse(n, len) = p[len]
  BY DEF Parse, ParseRec, ParseStart
<1> QED BY <1>1, <1>2

\* What the parser keeps up: where it stops the count is the header size, and
\* until then what it has read is as HeaderRead says.
ParseInv(p, i) ==
  /\ p \in [cnt : Nat, bin : BinType, stop : Int]
  /\ \/ p.stop = -1 /\ HeaderRead(p.cnt, p.bin)
     \/ p.stop \in 0 .. i - 1 /\ p.cnt = p.bin.hsize

LEMMA ParseStepKeeps ==
  ASSUME NEW i \in Nat, NEW p, ParseInv(p, i), NEW unit
  PROVE  ParseInv(ParseStep(p, i, unit), i + 1)
<1> USE OtaAssumption DEF BinType, ImageLen, Huge
<1> SUFFICES ASSUME NEW q, q = ParseStep(p, i, unit) PROVE ParseInv(q, i + 1)
  OBVIOUS
<1>0. p \in [cnt : Nat, bin : BinType, stop : Int]
  BY DEF ParseInv
<1>1. CASE p.stop # -1
  <2>1. q = p
    BY <1>1 DEF ParseStep
  <2> QED BY <2>1, <1>1 DEF ParseInv
<1>2. CASE p.stop = -1
  <2>1. HeaderRead(p.cnt, p.bin)
    BY <1>2 DEF ParseInv
  <2>2. CASE p.cnt = 0
    <3>1. q = [p EXCEPT !.cnt = @ + 1, !.bin.hsize = IF unit = LenAt THEN HdrLen ELSE 0]
      BY <1>2, <2>2 DEF ParseStep, LenAt, FieldsAt, SizeAt
    <3>2. /\ q \in [cnt : Nat, bin : BinType, stop : Int]
          /\ q.cnt = 1 /\ q.stop = -1 /\ q.bin.size = p.bin.size
      <4> DEFINE v == IF unit = LenAt THEN HdrLen ELSE 0
      <4>1. v \in {0, HdrLen}
        OBVIOUS
      <4>2. [p.bin EXCEPT !.hsize = v] \in BinType
        BY <1>0, <4>1
      <4>3. /\ q.cnt = p.cnt + 1 /\ q.stop = p.stop
            /\ q = [cnt |-> q.cnt, bin |-> q.bin, stop |-> q.stop]
            /\ q.bin = [p.bin EXCEPT !.hsize = v]
        BY <3>1, <1>0
      <4> HIDE DEF v
      <4> QED BY <4>2, <4>3, <1>0, <1>2, <2>2
    <3> QED BY <3>2, <2>1, <2>2 DEF ParseInv, HeaderRead, SameFile
  <2>3. CASE p.cnt = 1
    <3>1. q = [p EXCEPT !.cnt = @ + 1,
                        !.bin.fields = IF unit = FieldsAt THEN "right" ELSE "wrong"]
      BY <1>2, <2>3 DEF ParseStep, LenAt, FieldsAt, SizeAt
    <3>2. /\ q \in [cnt : Nat, bin : BinType, stop : Int]
          /\ q.cnt = 2 /\ q.stop = -1 /\ q.bin.size = p.bin.size
      <4> DEFINE v == IF unit = FieldsAt THEN "right" ELSE "wrong"
      <4>1. v \in {"zero", "right", "wrong"}
        OBVIOUS
      <4>2. [p.bin EXCEPT !.fields = v] \in BinType
        BY <1>0, <4>1
      <4>3. /\ q.cnt = p.cnt + 1 /\ q.stop = p.stop
            /\ q = [cnt |-> q.cnt, bin |-> q.bin, stop |-> q.stop]
            /\ q.bin = [p.bin EXCEPT !.fields = v]
        BY <3>1, <1>0
      <4> HIDE DEF v
      <4> QED BY <4>2, <4>3, <1>0, <1>2, <2>3
    <3> QED BY <3>2, <2>1, <2>3 DEF ParseInv, HeaderRead, SameFile
  <2>4. CASE p.cnt = 2
    <3>1. q = [p EXCEPT !.cnt = @ + 1,
                        !.bin.size = IF unit = SizeAt THEN ImageLen ELSE Huge]
      BY <1>2, <2>4 DEF ParseStep, LenAt, FieldsAt, SizeAt
    <3>2. /\ q \in [cnt : Nat, bin : BinType, stop : Int]
          /\ q.cnt = 3 /\ q.stop = -1
      <4> DEFINE v == IF unit = SizeAt THEN ImageLen ELSE Huge
      <4>1. v \in {0, ImageLen, Huge}
        OBVIOUS
      <4>2. [p.bin EXCEPT !.size = v] \in BinType
        BY <1>0, <4>1
      <4>3. /\ q.cnt = p.cnt + 1 /\ q.stop = p.stop
            /\ q = [cnt |-> q.cnt, bin |-> q.bin, stop |-> q.stop]
            /\ q.bin = [p.bin EXCEPT !.size = v]
        BY <3>1, <1>0
      <4> HIDE DEF v
      <4> QED BY <4>2, <4>3, <1>0, <1>2, <2>4
    <3> QED BY <3>2, <2>1, <2>4 DEF ParseInv, HeaderRead, SameFile
  <2>5. CASE p.cnt \notin {0, 1, 2} /\ p.cnt = p.bin.hsize
    <3>1. q = [p EXCEPT !.stop = i]
      BY <1>2, <2>5 DEF ParseStep, LenAt, FieldsAt, SizeAt
    <3> QED BY <3>1, <1>0, <2>5 DEF ParseInv
  <2>6. CASE p.cnt \notin {0, 1, 2} /\ p.cnt # p.bin.hsize
    <3>1. q = [p EXCEPT !.cnt = @ + 1]
      BY <1>2, <2>6 DEF ParseStep, LenAt, FieldsAt, SizeAt
    <3>2. /\ q \in [cnt : Nat, bin : BinType, stop : Int]
          /\ q.cnt = p.cnt + 1 /\ q.stop = -1 /\ q.bin = p.bin
      <4> QED BY <3>1, <1>0, <1>2
    <3>3. HeaderRead(q.cnt, q.bin)
      <4>1. SameFile(p.bin) => p.bin.hsize = HdrLen
        BY <1>0 DEF SameFile
      <4> QED BY <3>2, <2>1, <2>6, <1>0, <4>1 DEF HeaderRead
    <3> QED BY <3>2, <3>3 DEF ParseInv
  <2> QED BY <2>2, <2>3, <2>4, <2>5, <2>6
<1> QED BY <1>1, <1>2

LEMMA ParseKeeps ==
  ASSUME NEW n, NEW len \in Nat, bin \in BinType, headercnt \in Nat,
         HeaderRead(headercnt, bin)
  PROVE  ParseInv(Parse(n, len), len)
<1>1. PICK f : f = ParseRec(n, len, f) /\ Parse(n, len) = f[len]
  BY ParseIs
<1> DEFINE Bad == {i \in 0 .. len : ~ParseInv(f[i], i)}
<1>2. SUFFICES ASSUME Bad # {} PROVE FALSE
  <2> len \in 0 .. len
    OBVIOUS
  <2> QED BY <1>1
<1>3. PICK m \in Bad : \A y \in Bad : m <= y
  <2> Bad \subseteq Nat
    OBVIOUS
  <2> HIDE DEF Bad
  <2> QED BY <1>2, LeastExists
<1>4. m \in 0 .. len /\ ~ParseInv(f[m], m)
  BY <1>3
<1>5. m # 0
  <2>1. f[0] = ParseStart
    BY <1>1 DEF ParseRec
  <2>2. ParseInv(ParseStart, 0)
    BY DEF ParseInv, ParseStart
  <2> QED BY <2>1, <2>2, <1>4
<1>6. m - 1 \in 0 .. len /\ m - 1 \in Nat /\ m - 1 \notin Bad
  BY <1>3, <1>4, <1>5
<1>7. ParseInv(f[m - 1], m - 1)
  BY <1>6
<1>8. f[m] = ParseStep(f[m - 1], m - 1, n * Frame + m - 1)
  <2> HIDE DEF Bad
  <2> QED BY <1>1, <1>4, <1>5 DEF ParseRec
<1>9. ParseInv(f[m], m - 1 + 1)
  <2> HIDE DEF Bad
  <2> QED BY <1>6, <1>7, <1>8, ParseStepKeeps
<1> QED BY <1>9, <1>4

---------------------------------------------------------------------------
(* Receiving a block *)

\* How much of the data of a block goes into the CRC.
Fed(p, datalen) ==
  LET crcEnd == p.bin.size + p.bin.hsize - 1
      cnt == p.cnt + datalen
  IN IF cnt < crcEnd THEN datalen
     ELSE IF p.cnt >= crcEnd \/ datalen <= cnt - crcEnd THEN 0
     ELSE datalen - (cnt - crcEnd)

Stretch(first, n) == [k \in 1 .. n |-> first + k - 1]

LEMMA BlockLenNat ==
  ASSUME NEW n \in Nat
  PROVE  BlockLen(n) \in Nat
<1>1. FileLen % Frame \in 0 .. Frame - 1
  BY OtaAssumption
<1>2. Frame \in Nat
  BY OtaAssumption
<1> QED BY <1>1, <1>2 DEF BlockLen

\* Received taken apart.
LEMMA ReceivedIs ==
  ASSUME NEW n
  PROVE  \E p, datalen :
           /\ p = IF state = "starting" THEN Parse(n, BlockLen(n))
                  ELSE [cnt |-> headercnt, bin |-> bin, stop |-> 0]
           /\ datalen = IF state = "dataing" \/ (state = "starting" /\ p.stop # -1)
                        THEN BlockLen(n) - p.stop ELSE 0
           /\ Received(n) =
                [bin |-> p.bin, cnt |-> p.cnt + datalen, datalen |-> datalen,
                 first |-> n * Frame + p.stop,
                 state |-> IF state = "dataing" \/ (state = "starting" /\ p.stop # -1)
                           THEN "dataing" ELSE state,
                 crc |-> crc \o Stretch(n * Frame + p.stop, Fed(p, datalen))]
<1> DEFINE p == IF state = "starting" THEN Parse(n, BlockLen(n))
                ELSE [cnt |-> headercnt, bin |-> bin, stop |-> 0]
           isData == state = "dataing" \/ (state = "starting" /\ p.stop # -1)
           datalen == IF isData THEN BlockLen(n) - p.stop ELSE 0
<1>1. Received(n) =
        [bin |-> p.bin, cnt |-> p.cnt + datalen, datalen |-> datalen,
         first |-> n * Frame + p.stop,
         state |-> IF isData THEN "dataing" ELSE state,
         crc |-> crc \o Stretch(n * Frame + p.stop, Fed(p, datalen))]
  BY DEF Received, Fed, Stretch
<1> WITNESS p, datalen
<1> HIDE DEF p, datalen
<1> QED BY <1>1 DEF p, datalen

LEMMA TargetBank ==
  ASSUME boot \in Bank
  PROVE  Target \in Bank /\ Target # boot
  BY DEF Target, Bank

LEMMA FedRange ==
  ASSUME NEW p \in [cnt : Nat, bin : BinType, stop : Int], NEW datalen \in Nat
  PROVE  Fed(p, datalen) \in 0 .. datalen
<1>1. p.cnt \in Nat /\ p.bin.size \in Nat /\ p.bin.hsize \in Nat
  BY OtaAssumption DEF BinType, ImageLen, Huge
<1> QED BY <1>1 DEF Fed

LEMMA SameFileIs ==
  ASSUME NEW b \in BinType, SameFile(b)
  PROVE  b.size = ImageLen /\ b.hsize = HdrLen /\ ImageLen \in Nat /\ ImageLen > 1
         /\ HdrLen \in Nat /\ FileLen \in Nat /\ FileLen = ImageLen + HdrLen
  BY OtaAssumption DEF BinType, SameFile, ImageLen, Huge

LEMMA StretchSeq ==
  ASSUME NEW first, NEW n \in Nat, n > 0 => first \in Nat
  PROVE  Stretch(first, n) \in Seq(Nat) /\ Len(Stretch(first, n)) = n
<1>1. \A k \in 1 .. n : first + k - 1 \in Nat
  OBVIOUS
<1> QED BY <1>1 DEF Stretch

\* A received block as ota_DataProcess leaves it, in each state of a transfer.
LEMMA ReceivedFacts ==
  ASSUME TypeInv, TransferInv, task = "none", state # "idle",
         NEW n \in Nat, BlockLen(n) > 0, NEW r, r = Received(n)
  PROVE  /\ r.bin \in BinType /\ r.cnt \in Nat /\ r.datalen \in Nat /\ r.crc \in Seq(Nat)
         /\ r.datalen > 0 => r.first \in Nat
         /\ \/ state = "end" /\ r.state = "end" /\ r.datalen = 0 /\ r.bin = bin
            \/ r.state = "starting" /\ r.datalen = 0 /\ r.crc = <<>> /\ offset = 0
               /\ HeaderRead(r.cnt, r.bin)
            \/ /\ r.state = "dataing" /\ r.cnt = r.bin.hsize + offset + r.datalen
               /\ SameFile(r.bin) =>
                    /\ CrcOf(crc, data[Target], offset) /\ offset < ImageLen
                    /\ r.crc = crc \o Stretch(r.first, IF offset + r.datalen < ImageLen
                                                       THEN r.datalen
                                                       ELSE ImageLen - 1 - offset)
<1> DEFINE len == BlockLen(n)
<1>1. PICK p, datalen :
           /\ p = IF state = "starting" THEN Parse(n, BlockLen(n))
                  ELSE [cnt |-> headercnt, bin |-> bin, stop |-> 0]
           /\ datalen = IF state = "dataing" \/ (state = "starting" /\ p.stop # -1)
                        THEN BlockLen(n) - p.stop ELSE 0
           /\ Received(n) =
                [bin |-> p.bin, cnt |-> p.cnt + datalen, datalen |-> datalen,
                 first |-> n * Frame + p.stop,
                 state |-> IF state = "dataing" \/ (state = "starting" /\ p.stop # -1)
                           THEN "dataing" ELSE state,
                 crc |-> crc \o Stretch(n * Frame + p.stop, Fed(p, datalen))]
  BY ReceivedIs
<1>2. len \in Nat /\ len > 0
  BY BlockLenNat
<1>3. n * Frame \in Nat
  BY OtaAssumption
<1>4. /\ p \in [cnt : Nat, bin : BinType, stop : Int]
      /\ state = "starting" => ParseInv(p, len)
      /\ state # "starting" => p = [cnt |-> headercnt, bin |-> bin, stop |-> 0]
  <2>1. CASE state = "starting"
    <3>1. p = Parse(n, len)
      BY <1>1, <2>1
    <3>2. ParseInv(p, len)
      <4> HIDE DEF len
      <4> QED BY <3>1, <2>1, <1>2, ParseKeeps DEF TypeInv, TransferInv
    <3> QED BY <3>2, <2>1 DEF ParseInv
  <2>2. CASE state # "starting"
    <3>1. p = [cnt |-> headercnt, bin |-> bin, stop |-> 0]
      BY <1>1, <2>2
    <3> QED BY <3>1, <2>2 DEF TypeInv
  <2> QED BY <2>1, <2>2
<1>5. /\ datalen \in Nat
      /\ datalen > 0 => p.stop \in Nat
      /\ state = "dataing" => datalen = len
      /\ state = "end" => datalen = 0
      /\ state = "starting" => IF p.stop = -1 THEN datalen = 0
                               ELSE p.cnt = p.bin.hsize /\ p.stop \in Nat
      /\ state = "starting" /\ p.stop = -1 => HeaderRead(p.cnt, p.bin)
  <2>1. CASE state = "starting"
    <3>1. \/ p.stop = -1 /\ HeaderRead(p.cnt, p.bin)
          \/ p.stop \in 0 .. len - 1 /\ p.cnt = p.bin.hsize
      BY <1>4, <2>1 DEF ParseInv
    <3>2. datalen = IF p.stop # -1 THEN len - p.stop ELSE 0
      BY <1>1, <2>1
    <3> HIDE DEF len
    <3> QED BY <3>1, <3>2, <2>1, <1>2
  <2>2. CASE state = "dataing"
    <3>1. datalen = len - p.stop /\ p.stop = 0
      BY <1>1, <1>4, <2>2
    <3> HIDE DEF len
    <3> QED BY <3>1, <2>2, <1>2
  <2>3. CASE state = "end"
    <3>1. datalen = 0
      BY <1>1, <2>3
    <3> QED BY <3>1, <2>3
  <2> QED BY <2>1, <2>2, <2>3 DEF TypeInv
<1>6. Fed(p, datalen) \in 0 .. datalen
  BY <1>4, <1>5, FedRange
<1> DEFINE fed == Fed(p, datalen)
           first == n * Frame + p.stop
<1>7. /\ r.bin = p.bin /\ r.cnt = p.cnt + datalen /\ r.datalen = datalen /\ r.first = first
      /\ r.crc = crc \o Stretch(first, fed)
      /\ r.state = IF state = "dataing" \/ (state = "starting" /\ p.stop # -1)
                   THEN "dataing" ELSE state
  BY <1>1
<1>8. datalen > 0 => first \in Nat
  BY <1>5, <1>3
<1>9. r.crc \in Seq(Nat)
  <2>1. Stretch(first, fed) \in Seq(Nat)
    <3> HIDE DEF first
    <3> QED BY <1>8, <1>6, <1>5, StretchSeq
  <2> HIDE DEF first, fed
  <2> QED BY <2>1, <1>7 DEF TypeInv
<1>10. r.bin \in BinType /\ r.cnt \in Nat
  BY <1>7, <1>4, <1>5
<1>11. CASE state = "end"
  <2>1. r.state = "end" /\ r.datalen = 0 /\ r.bin = bin
    BY <1>11, <1>7, <1>5, <1>4
  <2> HIDE DEF first, fed
  <2> QED BY <2>1, <1>11, <1>10, <1>9, <1>8, <1>7, <1>5
<1>12. CASE state = "starting" /\ p.stop = -1
  <2>1. r.state = "starting" /\ r.datalen = 0 /\ offset = 0 /\ crc = <<>>
    BY <1>12, <1>7, <1>5 DEF TransferInv
  <2>2. HeaderRead(r.cnt, r.bin)
    <3>1. r.cnt = p.cnt
      BY <1>12, <1>7, <1>5, <1>4
    <3> QED BY <3>1, <1>12, <1>7, <1>5
  <2>3. r.crc = <<>>
    <3>1. fed = 0
      BY <1>6, <1>5, <1>12
    <3>2. Stretch(first, 0) = <<>>
      BY DEF Stretch
    <3> HIDE DEF first, fed
    <3> QED BY <3>1, <3>2, <2>1, <1>7
  <2> HIDE DEF first, fed
  <2> QED BY <2>1, <2>2, <2>3, <1>10, <1>9, <1>8, <1>7, <1>5
<1>13. CASE state = "dataing" \/ (state = "starting" /\ p.stop # -1)
  <2>1. r.state = "dataing"
    BY <1>13, <1>7
  <2>2. p.cnt = p.bin.hsize + offset
    <3>1. CASE state = "dataing"
      BY <3>1, <1>4 DEF TransferInv
    <3>2. CASE state = "starting" /\ p.stop # -1
      <4>1. offset = 0 /\ p.cnt = p.bin.hsize /\ p.cnt \in Nat
        BY <3>2, <1>5, <1>4 DEF TransferInv
      <4> QED BY <4>1
    <3> QED BY <1>13, <3>1, <3>2
  <2>3. offset \in Nat /\ p.bin.hsize \in Nat
    BY <1>4, OtaAssumption DEF TypeInv, BinType
  <2>4. r.cnt = r.bin.hsize + offset + r.datalen
    <3> HIDE DEF first, fed
    <3> QED BY <2>2, <2>3, <1>7, <1>5
  <2>5. ASSUME SameFile(r.bin)
        PROVE  /\ CrcOf(crc, data[Target], offset) /\ offset < ImageLen
               /\ fed = IF offset + r.datalen < ImageLen THEN r.datalen
                        ELSE ImageLen - 1 - offset
    <3>1. /\ p.bin.size = ImageLen /\ p.bin.hsize = HdrLen /\ ImageLen \in Nat
          /\ ImageLen > 1 /\ HdrLen \in Nat /\ FileLen = ImageLen + HdrLen
      BY <2>5, <1>7, <1>4, SameFileIs
    <3>2. CrcOf(crc, data[Target], offset) /\ offset < ImageLen
      <4>1. CASE state = "dataing"
        <5>1. p.cnt = headercnt /\ p.bin = bin /\ headercnt < FileLen
          BY <4>1, <1>4 DEF TransferInv
        <5>2. CrcOf(crc, data[Target], offset)
          BY <4>1, <5>1, <2>5, <1>7 DEF TransferInv
        <5> QED BY <5>1, <5>2, <3>1, <2>2, <2>3
      <4>2. CASE state = "starting"
        <5>1. offset = 0 /\ crc = <<>>
          BY <4>2 DEF TransferInv
        <5> QED BY <5>1, <3>1 DEF CrcOf
      <4> QED BY <4>1, <4>2, <1>13
    <3>3. fed = IF offset + datalen < ImageLen THEN datalen ELSE ImageLen - 1 - offset
      BY <3>1, <3>2, <2>2, <2>3, <1>5 DEF Fed
    <3> HIDE DEF fed
    <3> QED BY <3>2, <3>3, <1>7
  <2> HIDE DEF first, fed
  <2> QED BY <2>1, <2>4, <2>5, <1>10, <1>9, <1>8, <1>7, <1>5
<1> QED BY <1>11, <1>12, <1>13 DEF TypeInv

\* What programming units of a block changes in the bank.
LEMMA ProgramFacts ==
  ASSUME TypeInv, NEW r, r.datalen \in Nat, r.datalen > 0 => r.first \in Nat,
         NEW S \in SUBSET Span(r)
  PROVE  /\ Programmed(r, S) \in [Units -> Cells]
         /\ \A u \in Units : u < offset => Programmed(r, S)[u] = data[Target][u]
         /\ r.datalen = 0 => Programmed(r, S) = data[Target]
<1> DEFINE d == Programmed(r, S)
           old == data[Target]
<1>1. old \in [Units -> Cells] /\ offset \in Nat
  BY TargetBank DEF TypeInv
<1>2. d = [u \in Units |-> IF u \in S THEN Cell(old[u], r.first + u - offset) ELSE old[u]]
  BY DEF Programmed
<1>3. Units \subseteq Nat
  BY OtaAssumption DEF Units
<1>4. \A u \in S : u \in Units /\ offset <= u /\ u < offset + r.datalen
  BY DEF Span
<1> HIDE DEF d, old
<1>5. \A u \in S : Cell(old[u], r.first + u - offset) \in Cells
  <2> SUFFICES ASSUME NEW u \in S PROVE Cell(old[u], r.first + u - offset) \in Cells
    OBVIOUS
  <2>1. u \in Nat /\ offset <= u /\ u < offset + r.datalen
    BY <1>3, <1>4
  <2>2. r.datalen > 0
    BY <1>1, <2>1
  <2>3. r.first + u - offset \in Nat
    BY <1>1, <2>1, <2>2
  <2> QED BY <2>3 DEF Cell, Cells
<1>6. d \in [Units -> Cells]
  BY <1>1, <1>2, <1>5
<1>7. \A u \in Units : u < offset => d[u] = old[u]
  BY <1>1, <1>2, <1>3, <1>4
<1>8. r.datalen = 0 => d = old
  <2> SUFFICES ASSUME r.datalen = 0 PROVE \A u \in Units : d[u] = old[u]
    BY <1>1, <1>6
  <2>1. ASSUME NEW u \in S PROVE FALSE
    <3>1. u \in Nat /\ offset <= u /\ u < offset + r.datalen
      BY <1>3, <1>4
    <3> QED BY <3>1, <1>1
  <2> QED BY <1>2, <2>1
<1> QED BY <1>6, <1>7, <1>8 DEF d, old

LEMMA ConcatFacts ==
  ASSUME NEW a \in Seq(Nat), NEW b \in Seq(Nat)
  PROVE  /\ Len(a \o b) = Len(a) + Len(b)
         /\ \A k \in 1 .. Len(a) : (a \o b)[k] = a[k]
         /\ \A k \in 1 .. Len(b) : (a \o b)[Len(a) + k] = b[k]
  OBVIOUS

LEMMA CrcGrows ==
  ASSUME NEW c \in Seq(Nat), NEW n \in Nat, NEW fed \in Nat, NEW first,
         fed > 0 => first \in Nat, NEW old, NEW d, CrcOf(c, old, n),
         \A u \in 0 .. n - 1 : d[u] = old[u],
         \A u \in n .. n + fed - 1 : d[u] = first + u - n
  PROVE  CrcOf(c \o Stretch(first, fed), d, n + fed)
<1> DEFINE t == Stretch(first, fed)
           e == c \o t
<1>1. t \in Seq(Nat) /\ Len(t) = fed
  BY StretchSeq
<1>2. \A k \in 1 .. fed : t[k] = first + k - 1
  BY DEF Stretch
<1>3. Len(c) = n /\ \A k \in 1 .. n : c[k] = old[k - 1]
  BY DEF CrcOf
<1> HIDE DEF t
<1>4. /\ Len(e) = n + fed
      /\ \A k \in 1 .. n : e[k] = c[k]
      /\ \A k \in 1 .. fed : e[n + k] = t[k]
  BY <1>1, <1>3, ConcatFacts
<1> HIDE DEF e
<1>5. \A k \in 1 .. n : e[k] = d[k - 1]
  <2> SUFFICES ASSUME NEW k \in 1 .. n PROVE e[k] = d[k - 1]
    OBVIOUS
  <2>1. k - 1 \in 0 .. n - 1
    OBVIOUS
  <2>2. d[k - 1] = old[k - 1]
    BY <2>1
  <2> QED BY <2>2, <1>3, <1>4
<1>6. \A k \in n + 1 .. n + fed : e[k] = d[k - 1]
  <2> SUFFICES ASSUME NEW k \in n + 1 .. n + fed PROVE e[k] = d[k - 1]
    OBVIOUS
  <2>1. k - 1 \in n .. n + fed - 1 /\ first \in Nat /\ k - n \in 1 .. fed
        /\ n + (k - n) = k
    OBVIOUS
  <2>2. d[k - 1] = first + (k - 1) - n
    BY <2>1
  <2>3. first + (k - 1) - n = first + (k - n) - 1
    BY <2>1
  <2>4. e[n + (k - n)] = t[k - n] /\ t[k - n] = first + (k - n) - 1
    BY <1>2, <1>4, <2>1
  <2>5. e[k] = first + (k - n) - 1
    BY <2>1, <2>4, Zenon
  <2> QED BY <2>2, <2>3, <2>5, Zenon
<1>7. \A k \in 1 .. n + fed : k \in 1 .. n \/ k \in n + 1 .. n + fed
  OBVIOUS
<1>8. \A k \in 1 .. n + fed : e[k] = d[k - 1]
  BY <1>5, <1>6, <1>7, Zenon
<1>9. CrcOf(e, d, n + fed)
  BY <1>4, <1>8 DEF CrcOf
<1> QED BY <1>9 DEF e, t

\* The CRC after a block stands for what is in the bank after it.
LEMMA CrcExtends ==
  ASSUME TypeInv, NEW r, r.datalen \in Nat, r.datalen > 0 => r.first \in Nat,
         CrcOf(crc, data[Target], offset), NEW fed \in 0 .. r.datalen,
         r.crc = crc \o Stretch(r.first, fed), offset + fed <= FileLen,
         Verifies(r, Programmed(r, Span(r)))
  PROVE  CrcOf(r.crc, Programmed(r, Span(r)), offset + fed)
<1> DEFINE d == Programmed(r, Span(r))
           old == data[Target]
<1>1. offset \in Nat /\ crc \in Seq(Nat)
  BY DEF TypeInv
<1>2. /\ \A u \in Units : u < offset => d[u] = old[u]
      /\ \A u \in Units : offset <= u /\ u < offset + r.datalen =>
              d[u] = r.first + u - offset
  BY ProgramFacts DEF Verifies, Span
<1> HIDE DEF d, old
<1>3. 0 .. offset + fed - 1 \subseteq Units
  BY <1>1, OtaAssumption DEF Units
<1>4. \A u \in 0 .. offset - 1 : d[u] = old[u]
  BY <1>1, <1>2, <1>3
<1>5. \A u \in offset .. offset + fed - 1 : d[u] = r.first + u - offset
  BY <1>1, <1>2, <1>3
<1>6. fed \in Nat /\ (fed > 0 => r.first \in Nat)
  OBVIOUS
<1>7. CrcOf(crc, old, offset)
  BY DEF old
<1>8. CrcOf(crc \o Stretch(r.first, fed), d, offset + fed)
  BY <1>1, <1>4, <1>5, <1>6, <1>7, CrcGrows
<1> QED BY <1>8 DEF d

\* Data was only accepted into a bank whose flag is erased: the first unit of the
\* image holds it.
LEMMA FlagLeftErased ==
  ASSUME TypeInv, TransferInv, task = "none", state # "idle", NEW n, NEW r, r = Received(n),
         r.datalen \in Nat, r.state = "dataing", NEW d, Verifies(r, d),
         offset + r.datalen > 0
  PROVE  flag[Target] = "erased"
<1>1. offset \in Nat /\ 0 \in Units
  BY OtaAssumption DEF TypeInv, Units
<1>2. state \in {"starting", "dataing"}
  <2>1. PICK p, datalen :
           Received(n) =
                [bin |-> p.bin, cnt |-> p.cnt + datalen, datalen |-> datalen,
                 first |-> n * Frame + p.stop,
                 state |-> IF state = "dataing" \/ (state = "starting" /\ p.stop # -1)
                           THEN "dataing" ELSE state,
                 crc |-> crc \o Stretch(n * Frame + p.stop, Fed(p, datalen))]
    BY ReceivedIs
  <2> QED BY <2>1
<1>3. CASE offset = 0
  BY <1>1, <1>3 DEF Verifies, Span
<1>4. CASE offset # 0
  BY <1>1, <1>2, <1>4 DEF TransferInv
<1> QED BY <1>3, <1>4

\* A last block whose CRC matches completes the image.
LEMMA MatchMeansNew ==
  ASSUME TypeInv, TransferInv, VerifiedInv, task = "none", state # "idle",
         NEW n \in Nat, BlockLen(n) > 0, NEW r, r = Received(n), r.cnt >= FileLen,
         CrcMatches(Programmed(r, Span(r)), r.crc, r.bin.hsize), SameFile(r.bin),
         Verifies(r, Programmed(r, Span(r)))
  PROVE  NewImage(Programmed(r, Span(r))) /\ flag[Target] = "erased"
<1> DEFINE d == Programmed(r, Span(r))
<1>1. /\ r.bin \in BinType /\ r.cnt \in Nat /\ r.datalen \in Nat /\ r.crc \in Seq(Nat)
      /\ r.datalen > 0 => r.first \in Nat
      /\ \/ state = "end" /\ r.state = "end" /\ r.datalen = 0 /\ r.bin = bin
         \/ r.state = "starting" /\ r.datalen = 0 /\ r.crc = <<>> /\ offset = 0
            /\ HeaderRead(r.cnt, r.bin)
         \/ /\ r.state = "dataing" /\ r.cnt = r.bin.hsize + offset + r.datalen
            /\ SameFile(r.bin) =>
                 /\ CrcOf(crc, data[Target], offset) /\ offset < ImageLen
                 /\ r.crc = crc \o Stretch(r.first, IF offset + r.datalen < ImageLen
                                                    THEN r.datalen
                                                    ELSE ImageLen - 1 - offset)
  BY ReceivedFacts
<1>2. /\ r.bin.hsize = HdrLen /\ ImageLen \in Nat /\ ImageLen > 1 /\ HdrLen \in Nat
      /\ FileLen = ImageLen + HdrLen
  BY <1>1, SameFileIs
<1>3. CASE state = "end" /\ r.datalen = 0 /\ r.bin = bin
  <2>1. d = data[Target]
    BY <1>3, <1>1, ProgramFacts
  <2>2. NewImage(data[Target]) /\ flag[Target] = "erased"
    BY <1>3 DEF VerifiedInv
  <2> HIDE DEF d
  <2>3. NewImage(d)
    BY <2>1, <2>2
  <2> QED BY <2>2, <2>3 DEF d
<1>4. CASE HeaderRead(r.cnt, r.bin)
  <2>1. r.cnt <= HdrLen
    BY <1>4 DEF HeaderRead
  <2> QED BY <2>1, <1>1, <1>2
<1>5. CASE r.state = "dataing" /\ r.cnt = r.bin.hsize + offset + r.datalen
  <2> DEFINE fed == ImageLen - 1 - offset
  <2>1. /\ CrcOf(crc, data[Target], offset) /\ offset < ImageLen
        /\ r.crc = crc \o Stretch(r.first, IF offset + r.datalen < ImageLen
                                           THEN r.datalen ELSE ImageLen - 1 - offset)
    BY <1>1, <1>5
  <2>2. offset \in Nat
    BY DEF TypeInv
  <2>3. offset + r.datalen >= ImageLen
    BY <2>2, <1>1, <1>2, <1>5
  <2>4. fed \in 0 .. r.datalen /\ offset + fed = ImageLen - 1 /\ offset + fed <= FileLen
    BY <2>1, <2>2, <2>3, <1>1, <1>2
  <2>5. r.crc = crc \o Stretch(r.first, fed)
    <3> ~(offset + r.datalen < ImageLen)
      BY <2>2, <2>3, <1>1, <1>2
    <3> QED BY <2>1
  <2> HIDE DEF fed
  <2>6. CrcOf(r.crc, d, ImageLen - 1)
    BY <2>1, <2>4, <2>5, <1>1, CrcExtends
  <2> HIDE DEF d
  <2>7. Len(r.crc) = ImageLen - 1 /\ \A k \in 1 .. ImageLen - 1 : r.crc[k] = d[k - 1]
    BY <2>6 DEF CrcOf
  <2>8. FileLen - HdrLen - 1 = ImageLen - 1 /\ ImageLen - 1 > 0
    BY <1>2
  <2>9. CrcMatches(d, r.crc, HdrLen)
    BY <1>2 DEF d
  <2>10. r.crc # <<>>
    BY <2>7, <2>8, <1>2
  <2>11. d[ImageLen - 1] = FileLen - 1 /\ r.crc = [k \in 1 .. ImageLen - 1 |-> HdrLen + k - 1]
    BY <2>8, <2>9, <2>10 DEF CrcMatches
  <2>12. \A u \in 0 .. ImageLen - 1 : d[u] = HdrLen + u
    <3> SUFFICES ASSUME NEW u \in 0 .. ImageLen - 1 PROVE d[u] = HdrLen + u
      OBVIOUS
    <3>1. CASE u = ImageLen - 1
      <4>1. FileLen - 1 = HdrLen + u
        BY <3>1, <1>2
      <4> QED BY <3>1, <4>1, <2>11, Zenon
    <3>2. CASE u # ImageLen - 1
      <4>1. u + 1 \in 1 .. ImageLen - 1 /\ u + 1 - 1 = u /\ HdrLen + (u + 1) - 1 = HdrLen + u
        BY <3>2, <1>2
      <4>2. r.crc[u + 1] = HdrLen + (u + 1) - 1
        BY <4>1, <2>11
      <4>3. r.crc[u + 1] = d[u + 1 - 1]
        BY <4>1, <2>7
      <4> QED BY <4>1, <4>2, <4>3
    <3> QED BY <3>1, <3>2
  <2>13. flag[Target] = "erased"
    <3> offset + r.datalen > 0
      BY <2>2, <2>3, <1>1, <1>2
    <3> QED BY <1>1, <1>5, FlagLeftErased DEF d
  <2> QED BY <2>12, <2>13 DEF NewImage, d
<1> QED BY <1>1, <1>3, <1>4, <1>5

---------------------------------------------------------------------------
(* The steps *)

core == <<data, flag, boot, state, bin, headercnt, crc, offset, block, task, info,
          enableLost>>

LEMMA CoreUnchanged ==
  ASSUME CoreInv, UNCHANGED core
  PROVE  CoreInv'
  BY DEF CoreInv, core, TypeInv, BootInv, TransferInv, VerifiedInv, HeaderRead, SameFile,
         CrcOf, NewImage, Complete, Target, BinType, BootBank

LEMMA ImageLenFacts ==
  /\ ImageLen \in Nat /\ ImageLen > 1 /\ HdrLen \in Nat /\ HdrLen > 2 /\ FileLen \in Nat
  /\ FileLen = ImageLen + HdrLen
  /\ 0 \notin {ImageLen, Huge}
  BY OtaAssumption DEF ImageLen, Huge

LEMMA NoBinFacts ==
  ASSUME NEW h \in {0, HdrLen}
  PROVE  NoBin(h) \in BinType /\ ~SameFile(NoBin(h)) /\ NoBin(h).size = 0
  BY DEF NoBin, BinType, SameFile

\* The way out of a transfer leaves a state a transfer can start from.
LEMMA ResetKeeps ==
  ASSUME CoreInv, task = "none", NEW h \in {0, HdrLen}, ResetTransfer(h),
         UNCHANGED <<flag, boot, task, enableLost>>, headercnt' \in Nat,
         data' \in [Bank -> [Units -> Cells]], BootInv'
  PROVE  CoreInv'
<1>1. bin' = NoBin(h) /\ crc' = <<>> /\ offset' = 0 /\ block' = 0 /\ state' = "idle"
  BY DEF ResetTransfer
<1>2. bin' \in BinType /\ ~SameFile(bin') /\ bin'.size = 0
  BY <1>1, NoBinFacts
<1>3. TypeInv'
  BY <1>1, <1>2 DEF CoreInv, TypeInv, BinType
<1>4. TransferInv'
  <2>1. HeaderRead(headercnt', bin')
    BY <1>2 DEF HeaderRead
  <2>2. HeaderRead(headercnt, bin)'
    BY <2>1 DEF HeaderRead, SameFile
  <2> QED BY <2>2, <1>1 DEF TransferInv
<1>5. VerifiedInv'
  BY <1>1 DEF VerifiedInv
<1> QED BY <1>3, <1>4, <1>5 DEF CoreInv

\* After a restart the device runs a flagged bank, if there is one, and remembers
\* nothing.
LEMMA RestartKeeps ==
  ASSUME TypeInv, NEW f \in [Bank -> FlagValue], flag' = f, data' = data, Restart(f),
         \/ ~enableLost' /\ f[BootBank(f)] = "valid" /\ Complete(data[BootBank(f)])
         \/ enableLost' /\ \A b \in Bank : f[b] # "valid"
  PROVE  CoreInv'
<1>1. /\ boot' = BootBank(f) /\ state' = "idle" /\ bin' = NoBin(0) /\ headercnt' = 0
      /\ crc' = <<>> /\ offset' = 0 /\ block' = 0
      /\ task' = IF f[BootBank(f)] = "valid" THEN "none" ELSE "dead"
  BY DEF Restart
<1>2. boot' \in Bank /\ BootBank(f) \in Bank
  BY <1>1 DEF BootBank, Bank
<1>3. bin' \in BinType /\ ~SameFile(bin') /\ bin'.size = 0
  BY <1>1, NoBinFacts
<1>4. TypeInv'
  BY <1>1, <1>2, <1>3 DEF TypeInv, BinType
<1>5. BootInv'
  <2>1. CASE ~enableLost' /\ f[BootBank(f)] = "valid" /\ Complete(data[BootBank(f)])
    <3>1. task' = "none" /\ flag'[boot'] = "valid" /\ Complete(data'[boot'])
      BY <1>1, <2>1
    <3>2. boot' = BootBank(flag')
      BY <1>1
    <3> QED BY <2>1, <3>1, <3>2 DEF BootInv, Complete, BootBank
  <2>2. CASE enableLost' /\ \A b \in Bank : f[b] # "valid"
    BY <1>1, <1>2, <2>2 DEF BootInv
  <2> QED BY <2>1, <2>2
<1>6. TransferInv'
  <2>1. HeaderRead(headercnt, bin)'
    BY <1>3 DEF HeaderRead, SameFile
  <2> QED BY <2>1, <1>1 DEF TransferInv
<1>7. VerifiedInv'
  BY <1>1 DEF VerifiedInv
<1> QED BY <1>4, <1>5, <1>6, <1>7 DEF CoreInv

\* What happens to the other bank, and to its flag short of setting it, does not
\* matter to a running device.
LEMMA OtherBank ==
  ASSUME TypeInv, BootInv, task \in {"none", "erase"}, task' \in {"none", "erase"},
         NEW d \in [Units -> Cells], NEW v \in FlagValue,
         data' = [data EXCEPT ![Target] = d], flag' = [flag EXCEPT ![Target] = v],
         v # "valid" \/ v = flag[Target], UNCHANGED <<boot, enableLost>>
  PROVE  /\ data' \in [Bank -> [Units -> Cells]] /\ flag' \in [Bank -> FlagValue]
         /\ BootInv' /\ data'[Target'] = d /\ Target' = Target
<1>1. Target \in Bank /\ Target # boot /\ boot \in Bank
  BY TargetBank DEF TypeInv
<1>2. /\ data' \in [Bank -> [Units -> Cells]] /\ flag' \in [Bank -> FlagValue]
      /\ data'[boot] = data[boot] /\ flag'[boot] = flag[boot]
      /\ data'[Target] = d /\ flag'[Target] = v
  BY <1>1 DEF TypeInv
<1>3. Target' = Target
  BY DEF Target
<1>4. flag[boot] = "valid" /\ Complete(data[boot]) /\ ~enableLost /\ boot = BootBank(flag)
  BY DEF BootInv
<1>5. boot' = BootBank(flag')
  <2>1. boot = 0 \/ boot = 1
    BY <1>1 DEF Bank
  <2>2. CASE boot = 0
    BY <2>2, <1>2, <1>4 DEF BootBank
  <2>3. CASE boot = 1
    <3>1. Target = 0
      BY <2>3 DEF Target
    <3>2. flag[0] # "valid"
      BY <2>3, <1>4 DEF BootBank
    <3> QED BY <2>3, <3>1, <3>2, <1>2 DEF BootBank
  <2> QED BY <2>1, <2>2, <2>3
<1>6. BootInv'
  <2>1. Complete(data'[boot'])
    BY <1>2, <1>4
  <2> QED BY <2>1, <1>2, <1>4, <1>5 DEF BootInv, Complete, BootBank
<1> QED BY <1>2, <1>3, <1>6

\* A block that is programmed, in part or as a whole.
LEMMA WriteKeeps ==
  ASSUME TypeInv, BootInv, task = "none", NEW r, r.datalen \in Nat,
         r.datalen > 0 => r.first \in Nat, NEW S \in SUBSET Span(r),
         data' = [data EXCEPT ![Target] = Programmed(r, S)],
         UNCHANGED <<flag, boot, task, enableLost>>
  PROVE  /\ data' \in [Bank -> [Units -> Cells]] /\ BootInv'
         /\ data'[Target'] = Programmed(r, S) /\ Target' = Target
<1>1. Programmed(r, S) \in [Units -> Cells]
  BY ProgramFacts
<1>2. Target \in Bank
  BY TargetBank DEF TypeInv
<1>3. flag[Target] \in FlagValue /\ flag' = [flag EXCEPT ![Target] = flag[Target]]
  BY <1>2 DEF TypeInv
<1>4. task' \in {"none", "erase"}
  OBVIOUS
<1>5. \A d \in [Units -> Cells] : data' = [data EXCEPT ![Target] = d] =>
        data' \in [Bank -> [Units -> Cells]] /\ BootInv' /\ data'[Target'] = d /\ Target' = Target
  BY <1>3, <1>4, OtherBank
<1> QED BY <1>1, <1>5

LEMMA SaturateNat ==
  ASSUME NEW c \in Nat
  PROVE  Saturate(c) \in Nat /\ (c < FileLen => Saturate(c) = c)
  BY OtaAssumption DEF Saturate

LEMMA TakeBlockKeeps ==
  ASSUME CoreInv, task = "none", state # "idle", NEW n \in Nat, BlockLen(n) > 0,
         NEW from, TakeBlock(n, from), UNCHANGED <<flag, boot, task, enableLost>>
  PROVE  CoreInv'
<1>0. TypeInv /\ BootInv /\ TransferInv /\ VerifiedInv
  BY DEF CoreInv
<1>1. PICK r : r = Received(n)
  OBVIOUS
<1> DEFINE d == Programmed(r, Span(r))
<1>2. /\ Verifies(r, d)
      /\ data' = [data EXCEPT ![Target] = d]
      /\ headercnt' = Saturate(r.cnt)
      /\ \/ /\ r.cnt < FileLen
            /\ state' = r.state /\ bin' = r.bin /\ crc' = r.crc
            /\ offset' = offset + r.datalen /\ block' = block + 1
         \/ /\ r.cnt >= FileLen /\ CrcMatches(d, r.crc, r.bin.hsize)
            /\ state' = "end" /\ bin' = r.bin /\ crc' = r.crc
            /\ offset' = offset + r.datalen /\ block' = block + 1
         \/ ResetTransfer(r.bin.hsize)
  BY <1>1 DEF TakeBlock
<1>3. /\ r.bin \in BinType /\ r.cnt \in Nat /\ r.datalen \in Nat /\ r.crc \in Seq(Nat)
      /\ r.datalen > 0 => r.first \in Nat
      /\ \/ state = "end" /\ r.state = "end" /\ r.datalen = 0 /\ r.bin = bin
         \/ r.state = "starting" /\ r.datalen = 0 /\ r.crc = <<>> /\ offset = 0
            /\ HeaderRead(r.cnt, r.bin)
         \/ /\ r.state = "dataing" /\ r.cnt = r.bin.hsize + offset + r.datalen
            /\ SameFile(r.bin) =>
                 /\ CrcOf(crc, data[Target], offset) /\ offset < ImageLen
                 /\ r.crc = crc \o Stretch(r.first, IF offset + r.datalen < ImageLen
                                                    THEN r.datalen
                                                    ELSE ImageLen - 1 - offset)
  BY <1>0, <1>1, ReceivedFacts
<1>4. /\ data' \in [Bank -> [Units -> Cells]] /\ BootInv'
      /\ data'[Target'] = d /\ Target' = Target
  BY <1>0, <1>2, <1>3, WriteKeeps
<1>5. headercnt' \in Nat /\ (r.cnt < FileLen => headercnt' = r.cnt)
  BY <1>2, <1>3, SaturateNat
<1>6. flag \in [Bank -> FlagValue] /\ boot \in Bank /\ offset \in Nat /\ block \in Nat
  BY <1>0 DEF TypeInv
<1>7. task' = "none"
  OBVIOUS
<1>8. CASE ResetTransfer(r.bin.hsize)
  <2>1. r.bin.hsize \in {0, HdrLen}
    BY <1>3 DEF BinType
  <2> HIDE DEF d
  <2> QED BY <2>1, <1>4, <1>5, <1>8, ResetKeeps
<1>9. CASE /\ r.cnt < FileLen
           /\ state' = r.state /\ bin' = r.bin /\ crc' = r.crc
           /\ offset' = offset + r.datalen /\ block' = block + 1
  <2>0. r.state \in {"starting", "dataing", "end"}
    BY <1>3
  <2>1. TypeInv'
    <3> HIDE DEF d
    <3>1. r.bin \in BinType /\ r.crc \in Seq(Nat) /\ r.datalen \in Nat
      BY <1>3
    <3>2. data' \in [Bank -> [Units -> Cells]]
      BY <1>4
    <3>3. offset' \in Nat /\ block' \in Nat /\ crc' \in Seq(Nat) /\ bin' \in BinType
      BY <3>1, <1>6, <1>9
    <3> QED BY <2>0, <3>2, <3>3, <1>5, <1>6, <1>9 DEF TypeInv, BinType
  <2>2. CASE r.state = "end"
    <3>0. state = "end" /\ r.datalen = 0 /\ r.bin = bin
      BY <2>2, <1>3
    <3>1. d = data[Target]
      BY <3>0, <1>0, <1>3, ProgramFacts
    <3> HIDE DEF d
    <3>2. VerifiedInv'
      <4>1. SameFile(bin') => NewImage(d) /\ flag[Target] = "erased"
        BY <1>0, <1>9, <3>0, <3>1 DEF VerifiedInv
      <4>2. SameFile(bin') => NewImage(data'[Target']) /\ flag'[Target'] = "erased"
        BY <4>1, <1>4
      <4> QED BY <4>2, <1>7 DEF VerifiedInv, SameFile, NewImage
    <3>3. TransferInv'
      BY <1>7, <1>9, <2>2 DEF TransferInv
    <3> QED BY <2>1, <3>2, <3>3, <1>4 DEF CoreInv
  <2>3. CASE r.state = "starting"
    <3> HIDE DEF d
    <3>1. r.datalen = 0 /\ r.crc = <<>> /\ offset = 0 /\ HeaderRead(r.cnt, r.bin)
      BY <2>3, <1>3
    <3>2. HeaderRead(headercnt, bin)'
      BY <3>1, <1>5, <1>9 DEF HeaderRead, SameFile
    <3>3. TransferInv'
      BY <3>1, <3>2, <1>7, <1>9, <2>3 DEF TransferInv
    <3>4. VerifiedInv'
      BY <1>9, <2>3, <1>7 DEF VerifiedInv
    <3> QED BY <2>1, <3>3, <3>4, <1>4 DEF CoreInv
  <2>4. CASE r.state = "dataing"
    <3>1. r.cnt = r.bin.hsize + offset + r.datalen
      BY <2>4, <1>3
    <3>2. r.bin.hsize \in Nat
      BY <1>3, OtaAssumption DEF BinType
    <3>3. headercnt' = bin'.hsize + offset' /\ headercnt' < FileLen
      <4> HIDE DEF d
      <4> QED BY <3>1, <3>2, <1>3, <1>5, <1>6, <1>9
    <3>4. ASSUME SameFile(r.bin) PROVE CrcOf(r.crc, d, offset + r.datalen)
      <4>1. /\ CrcOf(crc, data[Target], offset)
            /\ r.crc = crc \o Stretch(r.first, IF offset + r.datalen < ImageLen
                                               THEN r.datalen ELSE ImageLen - 1 - offset)
        BY <2>4, <3>4, <1>3
      <4>2. r.bin.hsize = HdrLen
        BY <3>4, <1>3, SameFileIs
      <4>3. offset + r.datalen < ImageLen /\ offset + r.datalen <= FileLen
        BY <4>2, <3>1, <1>3, <1>6, <1>9, ImageLenFacts
      <4>4. r.crc = crc \o Stretch(r.first, r.datalen)
        BY <4>1, <4>3
      <4>5. r.datalen \in 0 .. r.datalen
        BY <1>3
      <4>6. TypeInv /\ Verifies(r, Programmed(r, Span(r))) /\ r.datalen \in Nat
            /\ (r.datalen > 0 => r.first \in Nat)
        BY <1>0, <1>2, <1>3
      <4> QED BY <4>1, <4>3, <4>4, <4>5, <4>6, CrcExtends
    <3>8. offset + r.datalen > 0 => flag[Target] = "erased"
      BY <2>4, <1>0, <1>1, <1>2, <1>3, FlagLeftErased
    <3>9. offset' > 0 => flag'[Target'] = "erased"
      BY <3>8, <1>4, <1>9
    <3> HIDE DEF d
    <3>5. SameFile(bin') => CrcOf(crc', data'[Target'], offset')
      BY <3>4, <1>4, <1>9
    <3>6. TransferInv'
      BY <3>3, <3>5, <3>9, <1>7, <1>9, <2>4 DEF TransferInv, SameFile, CrcOf
    <3>7. VerifiedInv'
      BY <1>9, <2>4, <1>7 DEF VerifiedInv
    <3> QED BY <2>1, <3>6, <3>7, <1>4 DEF CoreInv
  <2> QED BY <2>0, <2>2, <2>3, <2>4
<1>10. CASE /\ r.cnt >= FileLen /\ CrcMatches(d, r.crc, r.bin.hsize)
            /\ state' = "end" /\ bin' = r.bin /\ crc' = r.crc
            /\ offset' = offset + r.datalen /\ block' = block + 1
  <2>1. SameFile(r.bin) => NewImage(d) /\ flag[Target] = "erased"
    BY <1>0, <1>1, <1>2, <1>10, MatchMeansNew
  <2> HIDE DEF d
  <2>2. TypeInv'
    BY <1>3, <1>4, <1>5, <1>6, <1>10 DEF TypeInv, BinType
  <2>3. TransferInv'
    BY <1>7, <1>10 DEF TransferInv
  <2>4. SameFile(bin') => NewImage(data'[Target']) /\ flag'[Target'] = "erased"
    BY <2>1, <1>4, <1>10
  <2>5. VerifiedInv'
    BY <2>4, <1>7 DEF VerifiedInv, SameFile, NewImage
  <2> QED BY <2>2, <2>3, <2>5, <1>4 DEF CoreInv
<1> HIDE DEF d
<1> QED BY <1>2, <1>8, <1>9, <1>10

LEMMA FailBlockKeeps ==
  ASSUME CoreInv, task = "none", state # "idle", NEW n \in Nat, BlockLen(n) > 0,
         NEW from, FailBlock(n, from), UNCHANGED <<flag, boot, task, enableLost>>
  PROVE  CoreInv'
<1>0. TypeInv /\ BootInv /\ TransferInv /\ VerifiedInv
  BY DEF CoreInv
<1>1. PICK r : r = Received(n)
  OBVIOUS
<1>2. /\ \E S \in SUBSET Span(r) : data' = [data EXCEPT ![Target] = Programmed(r, S)]
      /\ headercnt' = Saturate(r.cnt)
      /\ \/ /\ bin' = NoBin(r.bin.hsize)
            /\ crc' = <<>> /\ offset' = 0 /\ block' = 1
            /\ state' = "end"
         \/ ResetTransfer(r.bin.hsize)
  BY <1>1 DEF FailBlock
<1>3. /\ r.bin \in BinType /\ r.cnt \in Nat /\ r.datalen \in Nat
      /\ r.datalen > 0 => r.first \in Nat
  BY <1>0, <1>1, ReceivedFacts
<1>4. headercnt' \in Nat
  BY <1>2, <1>3, SaturateNat
<1>5. r.bin.hsize \in {0, HdrLen}
  BY <1>3 DEF BinType
<1>6. data' \in [Bank -> [Units -> Cells]] /\ BootInv'
  <2>1. PICK S \in SUBSET Span(r) : data' = [data EXCEPT ![Target] = Programmed(r, S)]
    BY <1>2
  <2> QED BY <2>1, <1>0, <1>3, WriteKeeps
<1>7. task' = "none"
  OBVIOUS
<1>8. CASE ResetTransfer(r.bin.hsize)
  BY <1>4, <1>5, <1>6, <1>8, ResetKeeps
<1>9. CASE /\ bin' = NoBin(r.bin.hsize)
           /\ crc' = <<>> /\ offset' = 0 /\ block' = 1
           /\ state' = "end"
  <2>1. bin' \in BinType /\ ~SameFile(bin')
    BY <1>5, <1>9, NoBinFacts
  <2>2. TypeInv'
    BY <2>1, <1>0, <1>4, <1>6, <1>9 DEF TypeInv, BinType
  <2>3. TransferInv'
    BY <1>7, <1>9 DEF TransferInv
  <2>4. VerifiedInv'
    BY <2>1, <1>7 DEF VerifiedInv, SameFile
  <2> QED BY <2>2, <2>3, <2>4, <1>6 DEF CoreInv
<1> QED BY <1>2, <1>8, <1>9

LEMMA DataRspKeeps ==
  ASSUME IInv, DeviceDataRsp
  PROVE  IInv'
<1>0. CoreInv /\ TypeInv /\ BootInv /\ NeverSilent /\ task = "none"
  BY DEF IInv, CoreInv, DeviceDataRsp
<1>1. UNCHANGED <<flag, boot, task, enableLost>>
  BY DEF DeviceDataRsp
<1>2. PICK m \in net, n \in SUBSET net :
         IF state # "idle" /\ info = "file" /\ m.block = block
         THEN \/ /\ BlockLen(m.block) = 0
                 /\ ResetTransfer(bin.hsize)
                 /\ UNCHANGED <<data, headercnt>>
              \/ BlockLen(m.block) > 0 /\ TakeBlock(m.block, n)
              \/ BlockLen(m.block) > 0 /\ FailBlock(m.block, n)
         ELSE UNCHANGED <<data, state, info, bin, headercnt, crc, offset, block,
                          queryTimer, dataTimer, poll>>
  BY DEF DeviceDataRsp
<1>3. CASE ~(state # "idle" /\ info = "file" /\ m.block = block)
  <2>1. UNCHANGED <<data, state, info, bin, headercnt, crc, offset, block,
                    queryTimer, dataTimer, poll>>
    BY <1>2, <1>3
  <2>2. CoreInv'
    BY <2>1, <1>0, <1>1, CoreUnchanged DEF core
  <2>3. NeverSilent'
    BY <2>1, <1>0, <1>1 DEF NeverSilent
  <2> QED BY <2>2, <2>3 DEF IInv
<1>4. CASE state # "idle" /\ info = "file" /\ m.block = block
  <2>0. m.block \in Nat /\ bin.hsize \in {0, HdrLen}
    BY <1>0, <1>4 DEF TypeInv, BinType
  <2>1. CASE ResetTransfer(bin.hsize) /\ UNCHANGED <<data, headercnt>>
    <3>1. headercnt' \in Nat /\ data' \in [Bank -> [Units -> Cells]]
      BY <2>1, <1>0 DEF TypeInv
    <3>2. BootInv'
      BY <2>1, <1>0, <1>1 DEF BootInv, Target, Complete, BootBank
    <3>3. CoreInv'
      BY <2>0, <2>1, <3>1, <3>2, <1>0, <1>1, ResetKeeps
    <3>4. NeverSilent'
      BY <2>1 DEF ResetTransfer, NeverSilent
    <3> QED BY <3>3, <3>4 DEF IInv
  <2>2. CASE BlockLen(m.block) > 0 /\ TakeBlock(m.block, n)
    <3>1. CoreInv'
      BY <2>0, <2>2, <1>0, <1>1, <1>4, TakeBlockKeeps
    <3>2. \/ /\ state' = Received(m.block).state /\ dataTimer' = TRUE
             /\ UNCHANGED <<info, poll>>
          \/ state' = "end" /\ dataTimer' = TRUE /\ UNCHANGED <<info, poll>>
          \/ state' = "idle" /\ queryTimer' = TRUE /\ poll' = "normal"
      BY <2>2 DEF TakeBlock, RequestBlock, RequestStop, ResetTransfer
    <3>3. Received(m.block).state # "idle"
      <4>1. \A r : r = Received(m.block) => r.state \in {"end", "starting", "dataing"}
        BY <2>0, <2>2, <1>0, <1>4, ReceivedFacts DEF CoreInv
      <4> QED BY <4>1
    <3>4. NeverSilent'
      BY <3>2, <3>3, <1>0, <1>4 DEF NeverSilent
    <3> QED BY <3>1, <3>4 DEF IInv
  <2>3. CASE BlockLen(m.block) > 0 /\ FailBlock(m.block, n)
    <3>1. CoreInv'
      BY <2>0, <2>3, <1>0, <1>1, <1>4, FailBlockKeeps
    <3>2. NeverSilent'
      BY <2>3 DEF FailBlock, RequestStop, ResetTransfer, NeverSilent
    <3> QED BY <3>1, <3>2 DEF IInv
  <2> QED BY <1>2, <1>4, <2>1, <2>2, <2>3
<1> QED BY <1>3, <1>4

\* ota_startRspHandler up to its erase loop.
LEMMA StartRspKeeps ==
  ASSUME IInv, DeviceStartRsp
  PROVE  IInv'
<1>0. /\ TypeInv /\ BootInv /\ TransferInv /\ VerifiedInv /\ CoreInv /\ NeverSilent
      /\ task = "none" /\ UNCHANGED <<data, flag, enableLost, boot, state, bin, headercnt, crc,
                                      offset, block, queryTimer, dataTimer, poll>>
  BY DEF IInv, CoreInv, DeviceStartRsp, flash
<1>1. CASE UNCHANGED <<info, task>>
  <2>1. CoreInv'
    BY <1>0, <1>1, CoreUnchanged DEF core
  <2>2. NeverSilent'
    BY <1>0, <1>1 DEF NeverSilent
  <2> QED BY <2>1, <2>2 DEF IInv
<1>2. CASE state = "idle" /\ info' = "file" /\ task' = "erase"
  <2>1. TypeInv'
    BY <1>0 DEF TypeInv, BinType
  <2>2. BootInv'
    BY <1>0, <1>2 DEF BootInv, Complete, BootBank
  <2>3. TransferInv'
    BY <1>0, <1>2 DEF TransferInv, HeaderRead, SameFile
  <2>4. VerifiedInv'
    BY <1>0, <1>2 DEF VerifiedInv
  <2>5. NeverSilent'
    BY <1>0, <1>2 DEF NeverSilent
  <2> QED BY <2>1, <2>2, <2>3, <2>4, <2>5 DEF IInv, CoreInv
<1>3. QED
  BY <1>0, <1>1, <1>2 DEF DeviceStartRsp

\* The erase loop touches the other bank only, and the transfer starts from a
\* clean state.
LEMMA EraseKeeps ==
  ASSUME IInv, EraseSector \/ EraseDone
  PROVE  IInv'
<1>0. /\ TypeInv /\ BootInv /\ TransferInv /\ VerifiedInv /\ NeverSilent /\ task = "erase"
      /\ state = "idle" /\ UNCHANGED <<enableLost, boot, info, bin, headercnt, crc, offset, block>>
  BY DEF IInv, CoreInv, TransferInv, EraseSector, EraseDone, flash
<1>1. Target \in Bank
  BY <1>0, TargetBank DEF TypeInv
<1>2. CASE EraseSector
  <2>0. task' = "erase" /\ state' = "idle" /\ UNCHANGED <<queryTimer, dataTimer, poll>>
    BY <1>0, <1>2 DEF EraseSector
  <2>1. CASE UNCHANGED <<data, flag>>
    <3>1. CoreInv'
      BY <1>0, <2>0, <2>1, CoreUnchanged DEF core, IInv
    <3>2. NeverSilent'
      BY <1>0, <2>0 DEF NeverSilent
    <3> QED BY <3>1, <3>2 DEF IInv
  <2>2. CASE /\ data' = [data EXCEPT ![Target] =
                           [u \in Units |-> IF u \div SectorLen = sector THEN Blank ELSE @[u]]]
             /\ flag' = [flag EXCEPT ![Target] = IF sector = 0 THEN "erased" ELSE @]
    <3> DEFINE d == [u \in Units |-> IF u \div SectorLen = sector THEN Blank ELSE data[Target][u]]
               v == IF sector = 0 THEN "erased" ELSE flag[Target]
    <3>1. d \in [Units -> Cells] /\ v \in FlagValue /\ (v # "valid" \/ v = flag[Target])
      BY <1>0, <1>1 DEF TypeInv, Cells, FlagValue
    <3>2. data' = [data EXCEPT ![Target] = d] /\ flag' = [flag EXCEPT ![Target] = v]
      BY <2>2
    <3> HIDE DEF d, v
    <3>3. /\ data' \in [Bank -> [Units -> Cells]] /\ flag' \in [Bank -> FlagValue] /\ BootInv'
      BY <1>0, <2>0, <3>1, <3>2, OtherBank
    <3>4. TypeInv'
      BY <1>0, <2>0, <3>3 DEF TypeInv, BinType
    <3>5. TransferInv'
      BY <1>0, <2>0 DEF TransferInv, HeaderRead, SameFile
    <3>6. VerifiedInv'
      BY <2>0 DEF VerifiedInv
    <3>7. NeverSilent'
      BY <1>0, <2>0 DEF NeverSilent
    <3> QED BY <3>3, <3>4, <3>5, <3>6, <3>7 DEF IInv, CoreInv
  <2> QED BY <1>2, <2>1, <2>2 DEF EraseSector
<1>3. CASE EraseDone
  <2>1. /\ task' = "none" /\ state' = "starting" /\ dataTimer' = TRUE
        /\ UNCHANGED <<data, flag>>
    BY <1>3 DEF EraseDone, RequestBlock, flash
  <2>2. TypeInv'
    BY <1>0, <2>1 DEF TypeInv, BinType
  <2>3. BootInv'
    BY <1>0, <2>1 DEF BootInv, Complete, BootBank
  <2>4. TransferInv'
    BY <1>0, <2>1 DEF TransferInv, HeaderRead, SameFile
  <2>5. VerifiedInv'
    BY <2>1 DEF VerifiedInv
  <2>6. NeverSilent'
    <3>1. poll' = "ota" => info' = "file"
      BY <1>0, <1>3 DEF TransferInv, EraseDone
    <3> QED BY <2>1, <3>1 DEF NeverSilent
  <2> QED BY <2>2, <2>3, <2>4, <2>5, <2>6 DEF IInv, CoreInv
<1> QED BY <1>2, <1>3

LEMMA StopRspKeeps ==
  ASSUME IInv, DeviceStopRsp
  PROVE  IInv'
<1>0. /\ TypeInv /\ BootInv /\ TransferInv /\ VerifiedInv /\ CoreInv /\ NeverSilent
      /\ task = "none" /\ UNCHANGED <<data, flag, enableLost, boot, headercnt>>
  BY DEF IInv, CoreInv, DeviceStopRsp, flash
<1>1. CASE UNCHANGED <<state, info, bin, crc, offset, block, queryTimer,
                       dataTimer, poll, task>>
  <2>1. CoreInv'
    BY <1>0, <1>1, CoreUnchanged DEF core
  <2>2. NeverSilent'
    BY <1>0, <1>1 DEF NeverSilent
  <2> QED BY <2>1, <2>2 DEF IInv
<1>2. CASE /\ state = "end" /\ SameFile(bin)
           /\ state' = "idle" /\ task' = "enable"
           /\ UNCHANGED <<info, bin, crc, offset, block, queryTimer, dataTimer, poll>>
  <2>1. TypeInv'
    BY <1>0, <1>2 DEF TypeInv, BinType
  <2>2. BootInv'
    BY <1>0, <1>2 DEF BootInv, Complete, BootBank
  <2>3. TransferInv'
    BY <1>2 DEF TransferInv
  <2>4. VerifiedInv'
    BY <1>0, <1>2 DEF VerifiedInv, NewImage, Target
  <2>5. NeverSilent'
    BY <1>0, <1>2 DEF NeverSilent
  <2> QED BY <2>1, <2>2, <2>3, <2>4, <2>5 DEF IInv, CoreInv
<1>3. CASE ResetTransfer(bin.hsize) /\ UNCHANGED task
  <2>1. bin.hsize \in {0, HdrLen} /\ headercnt' \in Nat
        /\ data' \in [Bank -> [Units -> Cells]]
    BY <1>0 DEF TypeInv, BinType
  <2>2. BootInv'
    BY <1>0, <1>3 DEF BootInv, Target, Complete, BootBank
  <2>3. CoreInv'
    BY <2>1, <2>2, <1>0, <1>3, ResetKeeps
  <2>4. NeverSilent'
    BY <1>3 DEF ResetTransfer, NeverSilent
  <2> QED BY <2>3, <2>4 DEF IInv
<1> QED BY <1>1, <1>2, <1>3 DEF DeviceStopRsp

LEMMA TimeoutKeeps ==
  ASSUME IInv, DataTimeout
  PROVE  IInv'
<1>0. /\ TypeInv /\ BootInv /\ CoreInv /\ NeverSilent
      /\ task = "none" /\ UNCHANGED <<data, flag, enableLost, boot, headercnt, task>>
  BY DEF IInv, CoreInv, DataTimeout, flash
<1>1. CASE UNCHANGED <<state, info, bin, crc, offset, block, queryTimer, dataTimer, poll>>
  <2>1. CoreInv'
    BY <1>0, <1>1, CoreUnchanged DEF core
  <2>2. NeverSilent'
    BY <1>0, <1>1 DEF NeverSilent
  <2> QED BY <2>1, <2>2 DEF IInv
<1>2. CASE ResetTransfer(bin.hsize)
  <2>1. bin.hsize \in {0, HdrLen} /\ headercnt' \in Nat
        /\ data' \in [Bank -> [Units -> Cells]]
    BY <1>0 DEF TypeInv, BinType
  <2>2. BootInv'
    BY <1>0 DEF BootInv, Target, Complete, BootBank
  <2>3. CoreInv'
    BY <2>1, <2>2, <1>0, <1>2, ResetKeeps
  <2>4. NeverSilent'
    BY <1>2 DEF ResetTransfer, NeverSilent
  <2> QED BY <2>3, <2>4 DEF IInv
<1> QED BY <1>1, <1>2 DEF DataTimeout

\* The new bank is flagged while it holds the verified image, the old one is
\* unflagged only then unless the first write was dropped, and a power failure in
\* between leaves a complete image in the bank that boots.
LEMMA RebootKeeps ==
  ASSUME IInv, EnableNew \/ DisableOld \/ Crash
  PROVE  IInv'
<1>0. TypeInv /\ BootInv /\ TransferInv /\ VerifiedInv /\ NeverSilent
  BY DEF IInv, CoreInv
<1>1. Target \in Bank /\ Target # boot /\ boot \in Bank /\ Bank = {boot, Target}
  BY <1>0, TargetBank DEF TypeInv, Bank, Target
<1>2. flag \in [Bank -> FlagValue]
  BY <1>0 DEF TypeInv
<1>3. CASE EnableNew
  <2>1. /\ task = "enable" /\ task' = "disable"
        /\ UNCHANGED <<data, boot, state, info, bin, headercnt, crc, offset, block,
                       dataTimer, poll>>
    BY <1>3 DEF EnableNew
  <2>2. Target' = Target
    BY <2>1 DEF Target
  <2>3. /\ NewImage(data[Target]) /\ flag[Target] = "erased" /\ ~enableLost
        /\ flag[boot] = "valid" /\ Complete(data[boot])
    BY <2>1, <1>0 DEF VerifiedInv, BootInv
  <2>4. \/ flag' = [flag EXCEPT ![Target] = "valid"] /\ ~enableLost'
        \/ flag' = flag /\ enableLost'
    BY <1>3, <2>3, <1>1, <1>2 DEF EnableNew, FlagWritten, FlagDropped
  <2>5. /\ flag' \in [Bank -> FlagValue] /\ flag'[boot] = "valid"
        /\ flag'[Target] = IF enableLost' THEN "erased" ELSE "valid"
    BY <2>3, <2>4, <1>1, <1>2 DEF FlagValue
  <2>6. TypeInv'
    BY <2>1, <2>5, <1>0 DEF TypeInv, BinType
  <2>7. BootInv'
    <3>1. Complete(data'[boot'])
      BY <2>1, <2>3
    <3> QED BY <2>1, <2>2, <2>5, <3>1 DEF BootInv, Complete
  <2>8. state' # "dataing" /\ (state' = "end" => ~SameFile(bin'))
    BY <2>1, <1>0 DEF TransferInv
  <2>9. TransferInv'
    BY <2>1, <2>8, <1>0 DEF TransferInv
  <2>10. VerifiedInv'
    BY <2>1, <2>2, <2>3, <2>8 DEF VerifiedInv, SameFile, NewImage
  <2>11. NeverSilent'
    BY <2>1, <1>0 DEF NeverSilent
  <2> QED BY <2>6, <2>7, <2>9, <2>10, <2>11 DEF IInv, CoreInv
<1>4. ASSUME NEW f, Restart(f) PROVE NeverSilent'
  BY <1>4 DEF Restart, NeverSilent
\* The flags as they are boot a complete image, unless the device is dead.
<1>5. CASE task = "dead"
  <2>1. Crash
    BY <1>5 DEF EnableNew, DisableOld
  <2>2. Restart(flag) /\ data' = data /\ flag' = flag /\ enableLost'
        /\ \A b \in Bank : flag[b] # "valid"
    BY <2>1, <1>0, <1>5 DEF Crash, BootInv
  <2>3. CoreInv'
    BY <2>2, <1>0, <1>2, RestartKeeps
  <2> QED BY <2>2, <2>3, <1>4 DEF IInv
<1>6. task # "dead" => flag[BootBank(flag)] = "valid" /\ Complete(data[BootBank(flag)])
  <2> SUFFICES ASSUME task # "dead"
               PROVE  flag[BootBank(flag)] = "valid" /\ Complete(data[BootBank(flag)])
    OBVIOUS
  <2>1. flag[boot] = "valid" /\ Complete(data[boot])
    BY <1>0 DEF BootInv
  <2>2. CASE BootBank(flag) = boot
    BY <2>1, <2>2
  <2>3. CASE BootBank(flag) # boot
    <3>1. task = "disable" /\ BootBank(flag) = Target
      BY <2>3, <1>0, <1>1 DEF BootInv, BootBank, Bank
    <3>2. Complete(data[Target])
      BY <3>1, <1>0 DEF VerifiedInv, NewImage, Complete
    <3>3. flag[Target] = "valid"
      BY <2>1, <2>3, <3>1, <1>1 DEF BootBank, Bank, Target
    <3> QED BY <3>1, <3>2, <3>3
  <2> QED BY <2>2, <2>3
<1>7. CASE DisableOld
  <2>1. /\ task = "disable" /\ Restart(flag') /\ data' = data
        /\ \/ flag' = [flag EXCEPT ![boot] = "cleared"] /\ enableLost' = enableLost
           \/ flag' = flag /\ ~enableLost'
    BY <1>7, <1>1, <1>2 DEF DisableOld, FlagWritten, FlagDropped
  <2>2. CASE flag' = flag /\ ~enableLost'
    <3>1. CoreInv'
      BY <2>1, <2>2, <1>0, <1>2, <1>6, RestartKeeps
    <3> QED BY <2>1, <3>1, <1>4 DEF IInv
  <2>3. CASE flag' = [flag EXCEPT ![boot] = "cleared"] /\ enableLost' = enableLost
    <3>1. /\ flag' \in [Bank -> FlagValue] /\ flag'[boot] = "cleared"
          /\ flag'[Target] = IF enableLost THEN "erased" ELSE "valid"
      BY <2>1, <2>3, <1>0, <1>1, <1>2 DEF BootInv, FlagValue
    <3>2. CASE enableLost
      <4>1. \A b \in Bank : flag'[b] # "valid"
        BY <3>1, <3>2, <1>1
      <4>2. CoreInv'
        BY <2>1, <2>3, <3>1, <3>2, <4>1, <1>0, RestartKeeps
      <4> QED BY <2>1, <4>2, <1>4 DEF IInv
    <3>3. CASE ~enableLost
      <4>1. BootBank(flag') = Target
        BY <3>1, <3>3, <1>1 DEF BootBank, Bank, Target
      <4>2. Complete(data[Target])
        BY <2>1, <1>0 DEF VerifiedInv, NewImage, Complete
      <4>3. CoreInv'
        BY <2>1, <2>3, <3>1, <3>3, <4>1, <4>2, <1>0, RestartKeeps
      <4> QED BY <2>1, <4>3, <1>4 DEF IInv
    <3> QED BY <3>2, <3>3
  <2> QED BY <2>1, <2>2, <2>3
<1>8. CASE Crash /\ task # "dead"
  <2>1. Restart(flag) /\ data' = data /\ flag' = flag /\ ~enableLost'
    BY <1>0, <1>8 DEF Crash, BootInv
  <2>2. CoreInv'
    BY <2>1, <1>0, <1>2, <1>6, <1>8, RestartKeeps
  <2> QED BY <2>1, <2>2, <1>4 DEF IInv
<1> QED BY <1>3, <1>5, <1>7, <1>8

\* The coordinator, the network and a query do not touch what the invariant
\* speaks of.
LEMMA OthersKeep ==
  ASSUME IInv, ServerStart \/ ServerData \/ ServerStop \/ Query
               \/ (\E m \in net : Lose(m)) \/ UNCHANGED vars
  PROVE  IInv'
<1>1. UNCHANGED <<core, queryTimer, dataTimer, poll>>
  BY DEF ServerStart, ServerData, ServerStop, Query, Lose, ServerUnchanged, vars, flash,
         ram, core
<1>2. CoreInv'
  BY <1>1, CoreUnchanged DEF IInv
<1>3. NeverSilent'
  BY <1>1 DEF IInv, NeverSilent, core
<1> QED BY <1>2, <1>3 DEF IInv

LEMMA InitInv ==
  ASSUME Init
  PROVE  IInv
<1>1. PICK b \in Bank, spare \in {Blank, Old} :
       /\ flag = [x \in Bank |-> IF x = b THEN "valid"
                                ELSE IF spare = Blank THEN "erased" ELSE "cleared"]
       /\ data = [x \in Bank |-> [u \in Units |-> IF x = b THEN Old ELSE spare]]
       /\ boot = b
  BY DEF Init
<1>2. /\ state = "idle" /\ bin = NoBin(0) /\ headercnt = 0 /\ crc = <<>> /\ offset = 0
      /\ block = 0 /\ queryTimer = TRUE /\ poll = "normal" /\ task = "none" /\ ~enableLost
  BY DEF Init
<1>3. bin \in BinType /\ ~SameFile(bin) /\ bin.size = 0
  BY <1>2, NoBinFacts
<1>4. TypeInv
  BY <1>1, <1>2, <1>3 DEF TypeInv, Cells, FlagValue
<1>5. BootInv
  <2>1. 0 .. ImageLen - 1 \subseteq Units
    BY ImageLenFacts DEF Units
  <2>2. Complete(data[b])
    BY <1>1, <2>1 DEF Complete
  <2>3. boot = BootBank(flag)
    BY <1>1 DEF BootBank, Bank
  <2> QED BY <1>1, <1>2, <2>2, <2>3 DEF BootInv
<1>6. TransferInv
  BY <1>2, <1>3 DEF TransferInv, HeaderRead
<1>7. VerifiedInv /\ NeverSilent
  BY <1>2 DEF VerifiedInv, NeverSilent
<1> QED BY <1>4, <1>5, <1>6, <1>7 DEF IInv, CoreInv

---------------------------------------------------------------------------
(* The theorems *)

\* The inductive invariant: whatever frames are lost, late or repeated, writes
\* fail and power goes, the flags, the transfer and what was verified agree.
THEOREM OtaInvariant == Spec => []IInv
<1>1. Init => IInv
  BY InitInv
<1>2. IInv /\ [Next]_vars => IInv'
  BY DataRspKeeps, StartRspKeeps, EraseKeeps, StopRspKeeps, TimeoutKeeps, RebootKeeps,
     OthersKeep DEF Next, Receive, Timer, Working
<1>3. QED
  BY <1>1, <1>2, PTL DEF Spec

\* The bank the boot code would choose holds a complete image at every step, so
\* also after a power failure in the middle of ota_mcuReboot, of an erase or of a
\* transfer, unless a low supply dropped the first flag write of ota_mcuReboot and
\* not the second.
THEOREM BootableCorrect == Spec => []AlwaysBootable
<1>1. ASSUME IInv, ~enableLost
      PROVE  flag[BootBank(flag)] = "valid" /\ Complete(data[BootBank(flag)])
  <2>1. TypeInv /\ BootInv /\ VerifiedInv
    BY <1>1 DEF IInv, CoreInv
  <2>2. Target \in Bank /\ boot \in Bank /\ Bank = {boot, Target} /\ BootBank(flag) \in Bank
    BY <2>1, TargetBank DEF TypeInv, Bank, Target, BootBank
  <2>3. flag[boot] = "valid" /\ Complete(data[boot])
    BY <1>1, <2>1 DEF BootInv
  <2>4. CASE task = "disable"
    <3>1. flag[Target] = "valid" /\ Complete(data[Target])
      BY <1>1, <2>1, <2>4 DEF BootInv, VerifiedInv, NewImage, Complete
    <3> QED BY <2>2, <2>3, <3>1
  <2>5. CASE task # "disable"
    BY <1>1, <2>1, <2>3, <2>5 DEF BootInv
  <2> QED BY <2>4, <2>5
<1>2. IInv => AlwaysBootable
  BY <1>1 DEF AlwaysBootable
<1>3. QED
  BY <1>2, OtaInvariant, PTL

\* A device that tells the coordinator its transfer is complete holds every unit
\* of the image: a CRC that matches by an erased word, a header read from the
\* wrong place or a stale ota_headercnt never count as verified.
THEOREM VerifiedCorrect == Spec => []StopMeansVerified
<1>1. IInv => StopMeansVerified
  BY DEF IInv, CoreInv, VerifiedInv, NewImage, StopMeansVerified
<1>2. QED
  BY <1>1, OtaInvariant, PTL

\* Every way out of a transfer restores query timer and poll rate.
THEOREM NeverSilentCorrect == Spec => []NeverSilent
<1>1. IInv => NeverSilent
  BY DEF IInv
<1>2. QED
  BY <1>1, OtaInvariant, PTL

==============================================================================
