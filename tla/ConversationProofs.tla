------------------------ MODULE ConversationProofs ------------------------
(***************************************************************************)
(* Proofs about Conversation for any tables, requests, results, limits and *)
(* bounds: what the condensing of results does to them, however often it   *)
(* is done, which calls are answered, whose chart a reply has, and what    *)
(* the log tells.  Inv is inductive.                                       *)
(***************************************************************************)
EXTENDS Conversation, FiniteSetTheorems, SequenceTheorems, TLAPS

\* A result of which the note tells what it lacks; the note is whole unless it is
\* longer than a cell may be.
IsTold(r) ==
    r.kind = "table" =>
        /\ r.shown = r.total \/ (r.shown = MaxRows /\ r.shown < r.total)
        /\ r.note.rows = r.total - r.shown
        /\ r.shown = r.total => r.note.text.len = 0 /\ r.note.text.says = 0
        /\ r.shown < r.total => \/ r.note.text = Noted(r.total).text
                               \/ Noted(r.total).text.len > MaxCell

\* A result that has been condensed.
IsBounded(r) ==
    /\ r.kind = "table" => r.shown <= MaxRows /\ r.cell.len <= MaxCell + 19
    /\ r.kind = "text" => r.text.len <= MaxLen + 37

\* A result that has been condensed p times, four or more being one.
Passed(r, p) ==
    /\ p = 1 => \E q \in Result : r = Condense(q)
    /\ p = 2 => \E q \in Result : r = Condense(Condense(q))
    /\ p = 3 => \E q \in Result : r = Condense(Condense(Condense(q)))
    /\ p = 4 => Condense(r) = r

ToldResult == {r \in Result : IsTold(r)}
ToldMessage ==
    {m \in Message : IsTool(m) => IsTold(m.result) /\ Passed(m.result, m.passes)}
SeenMessage == {m \in ToldMessage : IsTool(m) => IsBounded(m.result)}

Told ==
    /\ messages \in Seq(ToldMessage)
    /\ Positioned(results, ToldResult)

Seen == phase = "model" => messages \in Seq(SeenMessage)

\* Who may wait for what: nothing passes a gate that raises.
Waiting ==
    /\ phase = "review" => Idle
    /\ phase # "idle" => ~Admission

Inv ==
    /\ TypeOK
    /\ Told
    /\ Seen
    /\ Waiting

-----------------------------------------------------------------------------
(* Condensing *)

LEMMA PowersGrow ==
    ASSUME NEW i \in 1..10, NEW j \in 1..10, i < j
    PROVE  Powers[i] < Powers[j]
BY DEF Powers

LEMMA PowersOf ==
    /\ DOMAIN Powers = 1..10
    /\ \A i \in 1..10 : Powers[i] \in Nat
    /\ Powers[1] = 1
    /\ \A i \in 1..8 : Powers[i + 2] >= Powers[i + 1] + 10
BY DEF Powers

\* A number has as many digits as there are powers of ten up to it, ten at most.
LEMMA DigitsOf ==
    ASSUME NEW n \in Nat \ {0}
    PROVE  /\ Digits(n) \in 1..10
           /\ Powers[Digits(n)] <= n
           /\ Digits(n) < 10 => n < Powers[Digits(n) + 1]
<1>1. PICK k \in 1..10 : Powers[k] <= n /\ (k < 10 => n < Powers[k + 1])
    BY DEF Powers
<1>2. {d \in DOMAIN Powers : Powers[d] <= n} = 1..k
  <2>1. ASSUME NEW d \in 1..10 PROVE Powers[d] <= n <=> d <= k
    <3>1. CASE d <= k
        BY <1>1, <3>1, PowersGrow, PowersOf
    <3>2. CASE d > k
      <4>1. k + 1 \in 1..10 /\ k + 1 <= d
          BY <3>2
      <4>2. Powers[k + 1] <= Powers[d]
          BY <4>1, PowersGrow, PowersOf
      <4> QED BY <1>1, <3>2, <4>1, <4>2, PowersOf
    <3> QED BY <3>1, <3>2
  <2> QED BY <2>1, PowersOf
<1>3. Cardinality(1..k) = k
  <2>1. 1 \in Int /\ k \in Int
      OBVIOUS
  <2>2. Cardinality(1..k) = IF 1 > k THEN 0 ELSE k - 1 + 1
      BY <2>1, FS_Interval
  <2> QED BY <2>2
<1> QED BY <1>1, <1>2, <1>3 DEF Digits

\* More digits need a larger number, and two numbers less than ten apart do not
\* differ by two digits.
LEMMA DigitsApart ==
    ASSUME NEW m \in Nat \ {0}, NEW n \in Nat \ {0}, m <= n
    PROVE  /\ Digits(m) <= Digits(n)
           /\ n < m + 10 => Digits(n) <= Digits(m) + 1
<1>1. PICK i \in 1..10 : i = Digits(m) /\ Powers[i] <= m /\ (i < 10 => m < Powers[i + 1])
    BY DigitsOf
<1>2. PICK j \in 1..10 : j = Digits(n) /\ Powers[j] <= n /\ (j < 10 => n < Powers[j + 1])
    BY DigitsOf
<1>3. ASSUME j < i PROVE FALSE
  <2>1. j + 1 \in 1..10 /\ Powers[j + 1] <= Powers[i]
      BY <1>3, PowersGrow, PowersOf
  <2> QED BY <1>1, <1>2, <1>3, <2>1, PowersOf
<1>4. ASSUME n < m + 10, j > i + 1 PROVE FALSE
  <2>1. i \in 1..8 /\ i + 1 \in 1..10 /\ i + 2 \in 1..10 /\ Powers[i + 2] <= Powers[j]
      BY <1>4, PowersGrow, PowersOf
  <2>2. Powers[i + 2] >= Powers[i + 1] + 10
      BY <2>1, PowersOf
  <2> QED BY <1>1, <1>2, <1>4, <2>1, <2>2, PowersOf
<1> QED BY <1>1, <1>2, <1>3, <1>4

\* What a cut makes of a text that is too long, which is too long again.
LEMMA CutLong ==
    ASSUME NEW text \in Length, NEW max \in Nat, NEW mark \in Nat \ {0}, text.len > max
    PROVE  /\ Cut(text, max, mark) =
                 [len |-> max + mark + Digits(text.len), says |-> text.len]
           /\ Digits(text.len) \in 1..10
           /\ Cut(text, max, mark) \in Length
           /\ Cut(text, max, mark).len > max
<1>1. text.len \in Nat \ {0}
    BY DEF Length
<1>2. PICK d \in 1..10 : d = Digits(text.len)
    BY <1>1, DigitsOf
<1>3. Cut(text, max, mark) = [len |-> max + mark + d, says |-> text.len]
    BY <1>2 DEF Cut
<1> QED BY <1>1, <1>2, <1>3 DEF Length

\* A cut exceeds its limit by no more than the mark with ten digits.
LEMMA CutOf ==
    ASSUME NEW text \in Length, NEW max \in Nat, NEW mark \in Nat \ {0}
    PROVE  Cut(text, max, mark) \in Length /\ Cut(text, max, mark).len <= max + mark + 10
<1>1. CASE text.len > max
    BY <1>1, CutLong
<1>2. CASE ~(text.len > max)
    BY <1>2 DEF Cut, Length
<1> QED BY <1>1, <1>2

\* The fourth cut is the last one that changes anything: the digits of the lengths
\* differ by one at most, so that from the third cut on the length is the same, and
\* from the fourth on what the mark tells is the same.
LEMMA CutSettles ==
    ASSUME NEW text \in Length, NEW max \in Nat, NEW mark \in Nat \ {0}
    PROVE  LET C(x) == Cut(x, max, mark) IN C(C(C(C(C(text))))) = C(C(C(C(text))))
<1> DEFINE C(x) == Cut(x, max, mark)
           F(n) == max + mark + Digits(n)
<1>1. CASE ~(text.len > max)
    BY <1>1 DEF Cut
<1>2. CASE text.len > max
  <2>1. PICK t1 \in Length : /\ t1 = C(text) /\ t1.len > max /\ t1.len - (max + mark) \in 1..10
      BY <1>2, CutLong
  <2>2. PICK t2 \in Length : /\ t2 = C(t1) /\ t2.len > max
                             /\ t2.len = F(t1.len) /\ t2.len - (max + mark) \in 1..10
      BY <2>1, CutLong
  <2>3. PICK t3 \in Length : /\ t3 = C(t2) /\ t3.len > max
                             /\ t3.len = F(t2.len) /\ t3.len - (max + mark) \in 1..10
      BY <2>2, CutLong
  <2>4. /\ t1.len \in Nat \ {0} /\ t2.len \in Nat \ {0} /\ t3.len \in Nat \ {0}
        /\ Digits(t1.len) \in 1..10 /\ Digits(t2.len) \in 1..10 /\ Digits(t3.len) \in 1..10
      BY <2>1, <2>2, <2>3, DigitsOf DEF Length
  <2>5. \A m, n \in {t1.len, t2.len, t3.len} :
            m <= n => Digits(m) <= Digits(n) /\ Digits(n) <= Digits(m) + 1
    <3>1. ASSUME NEW m \in {t1.len, t2.len, t3.len}, NEW n \in {t1.len, t2.len, t3.len},
                 m <= n
          PROVE  Digits(m) <= Digits(n) /\ Digits(n) <= Digits(m) + 1
      <4>1. m \in Nat \ {0} /\ n \in Nat \ {0}
          BY <2>4
      <4>2. m - (max + mark) \in 1..10 /\ n - (max + mark) \in 1..10
          BY <2>1, <2>2, <2>3
      <4>3. n < m + 10
          BY <4>1, <4>2
      <4> QED BY <3>1, <4>1, <4>3, DigitsApart
    <3> QED BY <3>1
  <2>6. Digits(t3.len) = Digits(t2.len)
    <3>1. CASE t2.len <= t3.len
      <4>1. Digits(t2.len) <= Digits(t3.len) /\ Digits(t3.len) <= Digits(t2.len) + 1
          BY <2>5, <3>1
      <4>2. CASE t2.len = t3.len
          BY <4>2
      <4>3. CASE t2.len < t3.len
        <5>1. Digits(t1.len) < Digits(t2.len)
            BY <2>2, <2>3, <2>4, <4>3
        <5>2. t1.len < t2.len
            BY <2>4, <2>5, <5>1
        <5>3. t1.len <= t3.len
            BY <2>4, <4>3, <5>2
        <5>4. Digits(t3.len) <= Digits(t1.len) + 1
            BY <2>5, <5>3
        <5> QED BY <2>4, <4>1, <5>1, <5>4
      <4> QED BY <2>4, <3>1, <4>2, <4>3
    <3>2. CASE t3.len < t2.len
      <4>1. Digits(t3.len) <= Digits(t2.len) /\ Digits(t2.len) <= Digits(t3.len) + 1
          BY <2>4, <2>5, <3>2
      <4>2. Digits(t2.len) < Digits(t1.len)
          BY <2>2, <2>3, <2>4, <3>2
      <4>3. t3.len <= t1.len
          BY <2>4, <2>5, <3>2, <4>2
      <4>4. Digits(t1.len) <= Digits(t3.len) + 1
          BY <2>5, <4>3
      <4> QED BY <2>4, <4>1, <4>2, <4>4
    <3> QED BY <2>4, <3>1, <3>2
  <2>7. PICK t4 \in Length : /\ t4 = C(t3) /\ t4.len > max
                             /\ t4 = [len |-> F(t3.len), says |-> t3.len]
      BY <2>3, CutLong
  <2>8. t4.len = t3.len /\ t4.says = t3.len
      BY <2>3, <2>6, <2>7
  <2>9. C(t4) = [len |-> F(t4.len), says |-> t4.len]
      BY <2>7, CutLong
  <2>10. C(t4) = t4
      BY <2>7, <2>8, <2>9
  <2> QED BY <2>1, <2>2, <2>3, <2>7, <2>10
<1> QED BY <1>1, <1>2

LEMMA CutCellOf ==
    ASSUME NEW text \in Length
    PROVE  /\ CutCell(text) \in Length
           /\ CutCell(text).len <= MaxCell + 19
           /\ text.len <= MaxCell => CutCell(text) = text
<1>0. MaxCell \in Nat /\ text.len \in Nat
    BY ConversationConstants DEF Length
<1>1. PICK mark \in Nat \ {0} : mark = 9
    OBVIOUS
<1>2. /\ Cut(text, MaxCell, mark) \in Length
      /\ Cut(text, MaxCell, mark).len <= MaxCell + mark + 10
    BY <1>0, CutOf
<1>3. text.len <= MaxCell => Cut(text, MaxCell, mark) = text
    BY <1>0 DEF Cut
<1>4. MaxCell + mark + 10 = MaxCell + 19
    BY <1>0, <1>1
<1> QED BY <1>1, <1>2, <1>3, <1>4 DEF CutCell

\* The note that is written has between 30 and 57 characters.
LEMMA NotedOf ==
    ASSUME NEW n \in Nat, n > MaxRows
    PROVE  /\ Noted(n) \in Note
           /\ Noted(n).rows = n - MaxRows
           /\ Noted(n).text \in Length
           /\ Noted(n).text.len \in 30..57
<1>1. MaxRows \in Nat \ {0} /\ n \in Nat \ {0} /\ n - MaxRows \in Nat \ {0}
    BY ConversationConstants
<1>2. PICK a \in 1..10 : a = Digits(MaxRows)
    BY <1>1, DigitsOf
<1>3. PICK b \in 1..10 : b = Digits(n)
    BY <1>1, DigitsOf
<1>4. PICK c \in 1..10 : c = Digits(n - MaxRows)
    BY <1>1, DigitsOf
<1>5. PICK k \in 30..57 : k = 27 + a + b + c
    OBVIOUS
<1>6. Noted(n) = [rows |-> n - MaxRows, text |-> [len |-> k, says |-> 0]]
    BY <1>2, <1>3, <1>4, <1>5 DEF Noted
<1> QED BY <1>1, <1>5, <1>6 DEF Note, Length

\* After three cuts of such a note another changes nothing: all lengths have two
\* digits.
LEMMA NoteSettles ==
    ASSUME NEW text \in Length, text.len \in 30..57
    PROVE  CutCell(CutCell(CutCell(CutCell(text)))) = CutCell(CutCell(CutCell(text)))
<1>0. MaxCell \in Nat
    BY ConversationConstants
<1>1. CASE ~(text.len > MaxCell)
    BY <1>0, <1>1, CutCellOf
<1>2. CASE text.len > MaxCell
  <2>1. ASSUME NEW n \in 10..99 PROVE Digits(n) = 2
    <3>1. PICK d \in 1..10 : d = Digits(n) /\ Powers[d] <= n /\ (d < 10 => n < Powers[d + 1])
      <4>1. n \in Nat \ {0}
          OBVIOUS
      <4> QED BY <4>1, DigitsOf
    <3>2. Powers[2] = 10 /\ Powers[3] = 100
        BY DEF Powers
    <3>3. d # 1
        BY <3>1, <3>2
    <3>4. ASSUME d > 2 PROVE FALSE
      <4>1. Powers[3] <= Powers[d]
        <5>1. d = 3 \/ 3 < d
            BY <3>4
        <5> QED BY <5>1, PowersGrow, PowersOf
      <4> QED BY <3>1, <3>2, <4>1, PowersOf
    <3> QED BY <3>1, <3>3, <3>4
  <2>2. ASSUME NEW t, t.len \in 10..99, t.len > MaxCell
        PROVE  CutCell(t) = [len |-> MaxCell + 11, says |-> t.len]
    <3>1. Digits(t.len) = 2
        BY <2>1, <2>2
    <3>2. MaxCell + 9 + 2 = MaxCell + 11
        BY <1>0
    <3> QED BY <2>2, <3>1, <3>2 DEF CutCell, Cut
  <2>3. PICK m \in 10..99 : m = MaxCell + 11
      BY <1>0, <1>2
  <2>4. m > MaxCell
      BY <1>0, <2>3
  <2>5. CutCell(text) = [len |-> m, says |-> text.len]
      BY <1>2, <2>2, <2>3
  <2>6. \A k : CutCell([len |-> m, says |-> k]) = [len |-> m, says |-> m]
      BY <2>2, <2>3, <2>4
  <2> QED BY <2>5, <2>6
<1> QED BY <1>1, <1>2

LEMMA CondenseOf ==
    ASSUME NEW r \in Result
    PROVE  /\ Condense(r) \in Result
           /\ IsBounded(Condense(r))
           /\ IsTold(r) => IsTold(Condense(r))
<1>0. MaxRows \in Nat /\ MaxCell \in Nat /\ MaxLen \in Nat
    BY ConversationConstants
<1>1. CASE r \in [kind : {"table"}, ok : BOOLEAN, total : Nat, shown : Nat,
                  flag : {"none", "truncated", "whole"}, note : Note, cell : Length]
  <2>0. r.shown \in Nat /\ r.total \in Nat /\ r.ok \in BOOLEAN /\ r.kind = "table"
        /\ r.cell \in Length /\ r.note.rows \in Nat /\ r.note.text \in Length
        /\ r.note.text.len \in Nat
      BY <1>1 DEF Note, Length
  <2>1. PICK cell \in Length : cell = CutCell(r.cell) /\ cell.len <= MaxCell + 19
      BY <2>0, CutCellOf
  <2>2. PICK text \in Length : /\ text = CutCell(r.note.text)
                               /\ r.note.text.len <= MaxCell => text = r.note.text
      BY <2>0, CutCellOf
  <2>3. [r.note EXCEPT !.text = CutCell(@)] = [rows |-> r.note.rows, text |-> text]
      BY <1>1, <2>2 DEF Note
  <2> DEFINE T(shown, flag, note) ==
                 [kind |-> "table", ok |-> r.ok, total |-> r.total, shown |-> shown,
                  flag |-> flag, note |-> note, cell |-> cell]
  <2>4. CASE r.shown > MaxRows
    <3>1. Condense(r) = T(MaxRows, "truncated", Noted(r.shown))
        BY <1>1, <2>1, <2>4 DEF Condense, CondenseTable, Condensed
    <3>2. PICK n \in Note : n = Noted(r.shown) /\ n.rows = r.shown - MaxRows
        BY <2>0, <2>4, NotedOf
    <3>3. T(MaxRows, "truncated", n) \in Result
        BY <1>0, <2>0, <2>1, <3>2 DEF Result
    <3>4. IsBounded(T(MaxRows, "truncated", n))
        BY <1>0, <2>1 DEF IsBounded
    <3>5. ASSUME IsTold(r) PROVE IsTold(T(MaxRows, "truncated", n))
      <4>1. r.shown = r.total
          BY <1>0, <2>0, <2>4, <3>5 DEF IsTold
      <4> QED BY <1>0, <2>0, <2>4, <3>2, <4>1 DEF IsTold
    <3> QED BY <3>1, <3>2, <3>3, <3>4, <3>5
  <2>5. CASE ~(r.shown > MaxRows)
    <3>1. PICK n \in Note : n = [rows |-> r.note.rows, text |-> text]
        BY <2>0 DEF Note
    <3>2. Condense(r) = T(r.shown, "whole", n)
        BY <1>1, <2>1, <2>3, <2>5, <3>1 DEF Condense, CondenseTable, Condensed
    <3>3. T(r.shown, "whole", n) \in Result
        BY <2>0, <2>1, <3>1 DEF Result
    <3>4. IsBounded(T(r.shown, "whole", n))
        BY <1>0, <2>0, <2>1, <2>5 DEF IsBounded
    <3>5. ASSUME IsTold(r) PROVE IsTold(T(r.shown, "whole", n))
      <4>1. /\ r.shown = r.total \/ (r.shown = MaxRows /\ r.shown < r.total)
            /\ n.rows = r.total - r.shown
          BY <2>0, <3>1, <3>5 DEF IsTold
      <4>2. r.shown = r.total => n.text.len = 0 /\ n.text.says = 0
        <5>1. ASSUME r.shown = r.total PROVE text = r.note.text
          <6>1. r.note.text.len = 0
              BY <2>0, <3>5, <5>1 DEF IsTold
          <6> QED BY <1>0, <2>2, <6>1
        <5> QED BY <2>0, <3>1, <3>5, <5>1 DEF IsTold
      <4>3. r.shown < r.total => \/ n.text = Noted(r.total).text
                                 \/ Noted(r.total).text.len > MaxCell
        <5>1. ASSUME r.shown < r.total, ~(Noted(r.total).text.len > MaxCell)
              PROVE  n.text = Noted(r.total).text
          <6>1. r.note.text = Noted(r.total).text
              BY <2>0, <3>5, <5>1 DEF IsTold
          <6>2. r.note.text.len <= MaxCell
              BY <1>0, <2>0, <5>1, <6>1
          <6> QED BY <2>2, <3>1, <6>1, <6>2
        <5> QED BY <5>1
      <4> QED BY <4>1, <4>2, <4>3 DEF IsTold
    <3> QED BY <3>2, <3>3, <3>4, <3>5
  <2> QED BY <2>4, <2>5
<1>2. CASE r \in [kind : {"text"}, ok : BOOLEAN, text : Length]
  <2> DEFINE text == CutText(r.text)
             cut == [kind |-> "text", ok |-> r.ok, text |-> text]
  <2>1. Condense(r) = cut
      BY <1>2 DEF Condense
  <2>2. text \in Length /\ text.len <= MaxLen + 37
    <3>1. r.text \in Length
        BY <1>2
    <3>2. CutText(r.text) \in Length /\ CutText(r.text).len <= MaxLen + 27 + 10
      <4>1. PICK mark \in Nat \ {0} : mark = 27
          OBVIOUS
      <4>2. Cut(r.text, MaxLen, mark) \in Length
            /\ Cut(r.text, MaxLen, mark).len <= MaxLen + mark + 10
          BY <1>0, <3>1, CutOf
      <4> QED BY <4>1, <4>2 DEF CutText
    <3>3. MaxLen + 27 + 10 = MaxLen + 37
        BY <1>0
    <3> QED BY <3>2, <3>3
  <2> HIDE DEF text
  <2> QED BY <1>2, <2>1, <2>2 DEF Result, IsBounded, IsTold
<1>3. CASE r \in Object
    BY <1>3 DEF Condense, Result, Object, IsBounded, IsTold
<1> QED BY <1>1, <1>2, <1>3 DEF Result

\* Condensing does not change what kind a result is of, and no object.
LEMMA CondenseKind ==
    ASSUME NEW r \in Result
    PROVE  Condense(r).kind = r.kind /\ (r.kind = "object" => Condense(r) = r)
<1>1. CASE r \in [kind : {"table"}, ok : BOOLEAN, total : Nat, shown : Nat,
                  flag : {"none", "truncated", "whole"}, note : Note, cell : Length]
  <2>1. r.kind = "table" /\ "kind" \in DOMAIN r
      BY <1>1
  <2>2. CondenseTable(r).kind = r.kind
      BY <1>1 DEF CondenseTable, Condensed
  <2>3. Condense(r) = CondenseTable(r)
      BY <2>1 DEF Condense
  <2> QED BY <2>1, <2>2, <2>3
<1>2. CASE r \in [kind : {"text"}, ok : BOOLEAN, text : Length]
  <2>1. r.kind = "text"
      BY <1>2
  <2>2. Condense(r) = [r EXCEPT !.text = CutText(@)]
      BY <2>1 DEF Condense
  <2> QED BY <1>2, <2>1, <2>2
<1>3. CASE r \in Object
    BY <1>3 DEF Condense, Object
<1> QED BY <1>1, <1>2, <1>3 DEF Result

\* Condensing four times leaves nothing to do.
LEMMA CondenseSettles ==
    ASSUME NEW r \in Result
    PROVE  Condense(Condense(Condense(Condense(Condense(r))))) =
               Condense(Condense(Condense(Condense(r))))
<1>0. MaxRows \in Nat /\ MaxCell \in Nat /\ MaxLen \in Nat
    BY ConversationConstants
<1>1. CASE r \in [kind : {"table"}, ok : BOOLEAN, total : Nat, shown : Nat,
                  flag : {"none", "truncated", "whole"}, note : Note, cell : Length]
  <2> DEFINE T(shown, flag, note, cell) ==
                 [kind |-> "table", ok |-> r.ok, total |-> r.total, shown |-> shown,
                  flag |-> flag, note |-> note, cell |-> cell]
             N(rows, text) == [rows |-> rows, text |-> text]
  <2>0. r.cell \in Length /\ r.shown \in Nat /\ r.note \in Note /\ r.note.text \in Length
      BY <1>1 DEF Note
  <2>1. PICK s, f, k, t : /\ s \in 0..MaxRows
                          /\ Condense(r) = T(s, f, N(k, t), CutCell(r.cell))
                          /\ CutCell(CutCell(CutCell(CutCell(t)))) = CutCell(CutCell(CutCell(t)))
    <3>1. CASE r.shown > MaxRows
      <4>1. PICK n : n = Noted(r.shown)
          OBVIOUS
      <4>2. n \in Note /\ n.text \in Length /\ n.text.len \in 30..57
          BY <2>0, <3>1, <4>1, NotedOf
      <4>3. n = N(n.rows, n.text)
          BY <4>2 DEF Note
      <4>4. Condense(r) = T(MaxRows, "truncated", n, CutCell(r.cell))
          BY <1>1, <3>1, <4>1 DEF Condense, CondenseTable, Condensed
      <4>5. CutCell(CutCell(CutCell(CutCell(n.text)))) = CutCell(CutCell(CutCell(n.text)))
          BY <4>2, NoteSettles
      <4>6. MaxRows \in 0..MaxRows
          BY <1>0
      <4> HIDE DEF T, N
      <4> QED BY <4>3, <4>4, <4>5, <4>6
    <3>2. CASE ~(r.shown > MaxRows)
      <4>1. PICK t : t = CutCell(r.note.text)
          OBVIOUS
      <4>2. Condense(r) = T(r.shown, "whole", [r.note EXCEPT !.text = CutCell(@)], CutCell(r.cell))
          BY <1>1, <3>2 DEF Condense, CondenseTable, Condensed
      <4>3. [r.note EXCEPT !.text = CutCell(@)] = N(r.note.rows, t)
          BY <2>0, <4>1 DEF Note
      <4>4. CutCell(CutCell(CutCell(CutCell(t)))) = CutCell(CutCell(CutCell(t)))
          BY <1>0, <2>0, <4>1, CutSettles DEF CutCell
      <4>5. r.shown \in 0..MaxRows
          BY <1>0, <2>0, <3>2
      <4> HIDE DEF T, N
      <4> QED BY <4>2, <4>3, <4>4, <4>5
    <3> QED BY <3>1, <3>2
  <2>2. ASSUME NEW g, NEW x, NEW c
        PROVE  Condense(T(s, g, N(k, x), c)) = T(s, "whole", N(k, CutCell(x)), CutCell(c))
    <3>1. ~(s > MaxRows)
        BY <1>0, <2>1
    <3>2. [N(k, x) EXCEPT !.text = CutCell(@)] = N(k, CutCell(x))
        OBVIOUS
    <3>3. Condense(T(s, g, N(k, x), c)) =
              T(s, "whole", [N(k, x) EXCEPT !.text = CutCell(@)], CutCell(c))
        BY <3>1 DEF Condense, CondenseTable, Condensed
    <3> HIDE DEF N, T
    <3> QED BY <3>2, <3>3
  <2>3. CutCell(CutCell(CutCell(CutCell(CutCell(r.cell))))) =
            CutCell(CutCell(CutCell(CutCell(r.cell))))
      BY <1>0, <2>0, CutSettles DEF CutCell
  <2> HIDE DEF T, N
  <2> QED BY <2>1, <2>2, <2>3
<1>2. CASE r \in [kind : {"text"}, ok : BOOLEAN, text : Length]
  <2> DEFINE T(text) == [kind |-> "text", ok |-> r.ok, text |-> text]
  <2>1. r = T(r.text) /\ r.text \in Length
      BY <1>2
  <2>2. ASSUME NEW t PROVE Condense(T(t)) = T(CutText(t))
      BY DEF Condense
  <2>3. CutText(CutText(CutText(CutText(CutText(r.text))))) =
            CutText(CutText(CutText(CutText(r.text))))
      BY <1>0, <2>1, CutSettles DEF CutText
  <2> HIDE DEF T
  <2> QED BY <2>1, <2>2, <2>3
<1>3. CASE r \in Object
    BY <1>3 DEF Condense, Object
<1> QED BY <1>1, <1>2, <1>3 DEF Result

LEMMA PassedOn ==
    ASSUME NEW r \in Result, NEW p \in 0..4, Passed(r, p)
    PROVE  Passed(Condense(r), IF p < 4 THEN p + 1 ELSE p)
<1>1. CASE p = 0
    BY <1>1 DEF Passed
<1>2. CASE p = 1
    BY <1>2 DEF Passed
<1>3. CASE p = 2
    BY <1>3 DEF Passed
<1>4. CASE p = 3
  <2>1. PICK q \in Result : r = Condense(Condense(Condense(q)))
      BY <1>4 DEF Passed
  <2>2. Condense(Condense(r)) = Condense(r)
      BY <2>1, CondenseSettles
  <2> QED BY <1>4, <2>2 DEF Passed
<1>5. CASE p = 4
    BY <1>5 DEF Passed
<1> QED BY <1>1, <1>2, <1>3, <1>4, <1>5

LEMMA CondenseMessageOf ==
    ASSUME NEW m \in ToldMessage
    PROVE  CondenseMessage(m) \in SeenMessage
<1>1. CASE ~IsTool(m)
    BY <1>1 DEF CondenseMessage, SeenMessage, ToldMessage
<1>2. CASE IsTool(m)
  <2>1. m \in [type : {"tool"}, ask : Nat, call : Nat, tool : Tools, turn : Nat,
              result : Result, raw : Result, passes : 0..4]
      BY <1>2 DEF ToldMessage, Message, IsTool
  <2>2. PICK r : r = Condense(m.result)
      OBVIOUS
  <2>3. r \in Result /\ IsBounded(r) /\ IsTold(r)
      BY <1>2, <2>1, <2>2, CondenseOf DEF ToldMessage
  <2>4. PICK p \in 0..4 : p = IF m.passes < 4 THEN m.passes + 1 ELSE m.passes
      BY <2>1
  <2>5. Passed(r, p)
      BY <1>2, <2>1, <2>2, <2>4, PassedOn DEF ToldMessage
  <2>6. CondenseMessage(m) = [type |-> "tool", ask |-> m.ask, call |-> m.call, tool |-> m.tool,
                              turn |-> m.turn, result |-> r, raw |-> m.raw, passes |-> p]
      BY <1>2, <2>1, <2>2, <2>4 DEF CondenseMessage
  <2>7. CondenseMessage(m) \in Message
      BY <2>1, <2>3, <2>4, <2>6 DEF Message
  <2>8. CondenseMessage(m).result = r /\ CondenseMessage(m).passes = p
      BY <2>6
  <2> QED BY <2>3, <2>5, <2>7, <2>8 DEF SeenMessage, ToldMessage
<1> QED BY <1>1, <1>2

LEMMA SeqOf ==
    ASSUME NEW S, NEW n \in Nat, NEW f \in [1..n -> S]
    PROVE  f \in Seq(S)
OBVIOUS

LEMMA CondenseResultsOf ==
    ASSUME NEW ms \in Seq(ToldMessage)
    PROVE  CondenseResults(ms) \in Seq(SeenMessage)
<1>1. DOMAIN ms = 1..Len(ms) /\ Len(ms) \in Nat /\ \A i \in 1..Len(ms) : ms[i] \in ToldMessage
    BY LenProperties, ElementOfSeq
<1>2. CondenseResults(ms) \in [1..Len(ms) -> SeenMessage]
    BY <1>1, CondenseMessageOf DEF CondenseResults
<1> QED BY <1>1, <1>2, SeqOf

-----------------------------------------------------------------------------
(* Messages and results *)

LEMMA NewMessages ==
    /\ User \in SeenMessage /\ Summary \in SeenMessage /\ Answer \in SeenMessage
    /\ \A n \in Nat, tools \in Seq(Tools) : Asking(n, tools) \in SeenMessage
<1>1. <<>> \in Seq(Tools)
    OBVIOUS
<1>2. ASSUME NEW m \in [type : {"user"}] \cup [type : {"ai"}, ask : Nat, tools : Seq(Tools)]
      PROVE  m \in SeenMessage
    BY <1>2 DEF SeenMessage, ToldMessage, Message, IsTool
<1>3. User \in [type : {"user"}] /\ Summary \in [type : {"user"}]
    BY DEF User, Summary
<1>4. ASSUME NEW n \in Nat, NEW tools \in Seq(Tools)
      PROVE  Asking(n, tools) \in [type : {"ai"}, ask : Nat, tools : Seq(Tools)]
    BY DEF Asking
<1>5. Answer \in [type : {"ai"}, ask : Nat, tools : Seq(Tools)]
    BY <1>1 DEF Answer
<1> QED BY <1>2, <1>3, <1>4, <1>5

LEMMA NewToolMessage ==
    ASSUME TypeOK, NEW n \in Nat, NEW i \in Nat, NEW tool \in Tools, NEW r \in ToldResult
    PROVE  ToolMessage(n, i, tool, r) \in ToldMessage
<1>0. PICK m : m = ToolMessage(n, i, tool, r)
    OBVIOUS
<1>1. turn \in Nat /\ r \in Result /\ IsTold(r)
    BY DEF TypeOK, ToldResult
<1>2. m \in Message /\ m.result = r /\ m.passes = 0
    BY <1>0, <1>1 DEF ToolMessage, Message
<1> QED BY <1>0, <1>1, <1>2 DEF ToldMessage, Passed

LEMMA RejectionIsTold == Rejection \in ToldResult
BY DEF Rejection, ToldResult, Result, Length, IsTold

\* What a tool returns lacks nothing.
LEMMA RawIsTold ==
    ASSUME NEW r \in Raw
    PROVE  r \in ToldResult
<1>1. Plain \subseteq Length /\ NoNote \in Note
    BY DEF Plain, Length, NoNote, Note
<1>2. CASE r \in RawTable
  <2>1. r \in [kind : {"table"}, ok : BOOLEAN, total : Nat, shown : Nat, flag : {"none"},
              note : {NoNote}, cell : Plain] /\ r.shown = r.total
      BY <1>2 DEF RawTable
  <2>2. r \in [kind : {"table"}, ok : BOOLEAN, total : Nat, shown : Nat,
              flag : {"none", "truncated", "whole"}, note : Note, cell : Length]
      BY <1>1, <2>1
  <2>3. r.note.rows = 0 /\ r.note.text = [len |-> 0, says |-> 0]
        /\ r.shown \in Nat /\ r.total \in Nat
      BY <2>1 DEF NoNote
  <2> QED BY <2>1, <2>2, <2>3 DEF ToldResult, Result, IsTold
<1>3. CASE r \in [kind : {"text"}, ok : BOOLEAN, text : Plain]
    BY <1>1, <1>3 DEF ToldResult, Result, IsTold
<1>4. CASE r \in Object
    BY <1>4 DEF ToldResult, Result, Object, IsTold
<1> QED BY <1>2, <1>3, <1>4 DEF Raw

LEMMA ReprOf ==
    ASSUME NEW r \in Result
    PROVE  Repr(r) \in Result
<1>1. PICK n \in Nat : n = CASE r.kind = "table" -> 150 + r.shown * r.cell.len
                             [] r.kind = "text" -> r.text.len
                             [] r.kind = "object" -> 150
  <2>1. CASE r.kind = "table"
    <3>1. r.shown \in Nat /\ r.cell.len \in Nat
        BY <2>1 DEF Result, Length, Object
    <3>2. 150 + r.shown * r.cell.len \in Nat
        BY <3>1
    <3> QED BY <2>1, <3>2
  <2>2. CASE r.kind = "text"
      BY <2>2 DEF Result, Length, Object
  <2>3. CASE r.kind = "object"
      BY <2>3
  <2> QED BY <2>1, <2>2, <2>3 DEF Result, Object
<1>2. Repr(r) = [kind |-> "text", ok |-> TRUE, text |-> [len |-> 90 + n, says |-> 0]]
    BY <1>1 DEF Repr
<1> QED BY <1>2 DEF Result, Length

LEMMA ToldIsMessage ==
    /\ \A ms \in Seq(ToldMessage) : ms \in Seq(Message)
    /\ \A ms \in Seq(SeenMessage) : ms \in Seq(ToldMessage)
    /\ \A f : Positioned(f, ToldResult) => Positioned(f, Result)
<1>1. SeenMessage \subseteq ToldMessage /\ ToldMessage \subseteq Message
    BY DEF SeenMessage, ToldMessage
<1>2. ToldResult \subseteq Result
    BY DEF ToldResult
<1>3. ASSUME NEW f, Positioned(f, ToldResult) PROVE Positioned(f, Result)
    BY <1>2, <1>3 DEF Positioned
<1>4. \A ms \in Seq(ToldMessage) : ms \in Seq(Message)
    BY <1>1, SeqMonotonic
<1>5. \A ms \in Seq(SeenMessage) : ms \in Seq(ToldMessage)
    BY <1>1, SeqMonotonic
<1> QED BY <1>3, <1>4, <1>5

\* Calls and results at no position, at those of a sequence, and at some; and at one more.
LEMMA PositionedOf ==
    ASSUME NEW S
    PROVE  /\ Positioned(<<>>, S)
           /\ \A s \in Seq(S) : Positioned(s, S)
           /\ \A f : Positioned(f, S) =>
                 \A T \in SUBSET DOMAIN f : Positioned([i \in T |-> f[i]], S)
<1>1. ASSUME NEW s \in Seq(S) PROVE Positioned(s, S)
  <2>1. DOMAIN s = 1..Len(s) /\ Len(s) \in Nat /\ s \in [1..Len(s) -> S]
      BY LenProperties
  <2>2. IsFiniteSet(1..Len(s))
    <3>1. 1 \in Int /\ Len(s) \in Int
        BY <2>1
    <3> QED BY <3>1, FS_Interval
  <2>3. 1..Len(s) \subseteq Nat
      BY <2>1
  <2> QED BY <2>1, <2>2, <2>3 DEF Positioned
<1>2. Positioned(<<>>, S)
    BY <1>1, EmptySeq
<1>3. ASSUME NEW f, Positioned(f, S), NEW T \in SUBSET DOMAIN f
      PROVE  Positioned([i \in T |-> f[i]], S)
  <2>1. IsFiniteSet(T)
      BY <1>3, FS_Subset DEF Positioned
  <2> QED BY <1>3, <2>1 DEF Positioned
<1> QED BY <1>1, <1>2, <1>3

LEMMA PositionedPlus ==
    ASSUME NEW S, NEW f, Positioned(f, S), NEW i \in Nat, NEW x \in S
    PROVE  Positioned([j \in DOMAIN f \cup {i} |-> IF j = i THEN x ELSE f[j]], S)
<1>1. IsFiniteSet(DOMAIN f \cup {i})
    BY FS_AddElement DEF Positioned
<1> QED BY <1>1 DEF Positioned

\* Nothing passes a gate that raises.
LEMMA GateOf ==
    ASSUME NEW text, NEW source, NEW index, Gate(text, source, index) = "pass"
    PROVE  ~Admission
BY DEF Gate, HasHeaders

-----------------------------------------------------------------------------

LEMMA InitInv ==
    ASSUME Init
    PROVE  Inv
<1>1. <<>> \in Seq(ToldMessage) /\ <<>> \in Seq(SeenMessage) /\ <<>> \in Seq(Message)
    OBVIOUS
<1>2. Positioned(<<>>, Tools) /\ Positioned(<<>>, ToldResult) /\ Positioned(<<>>, Result)
    BY PositionedOf
<1>3. TypeOK /\ Told /\ Seen
    BY <1>1, <1>2, EmptySeq DEF Init, TypeOK, Told, Seen
<1>4. Waiting
    BY DEF Init, Waiting, NoReply
<1> QED BY <1>3, <1>4 DEF Inv

-----------------------------------------------------------------------------
(* Steps *)

\* TypeOK, but for the messages and the results.
Counters ==
    /\ phase \in {"idle", "before", "model", "review", "tools"}
    /\ handler \in {"none", "query", "approve"}
    /\ Positioned(pending, Tools)
    /\ turn \in Nat /\ asks \in Nat /\ breaks \in Nat
    /\ log \in Seq(LogRecord)
    /\ fresh \subseteq Tools
    /\ abandoned \subseteq Nat

LEMMA Together ==
    ASSUME Told', Counters'
    PROVE  TypeOK'
BY ToldIsMessage DEF TypeOK, Told, Counters

LEMMA StoppedStep ==
    ASSUME Inv, NEW text, NEW index, Stopped(text, index)
    PROVE  Inv'
<1>1. UNCHANGED <<messages, phase, handler, pending, results, turn, asks, breaks, fresh,
                  abandoned, log>>
    BY DEF Stopped, run, counts, history
<1>2. TypeOK' /\ Told' /\ Seen' /\ Waiting'
    BY <1>1 DEF Inv, TypeOK, Told, Seen, Waiting, Idle
<1> QED BY <1>2 DEF Inv

LEMMA QueryStep ==
    ASSUME Inv, NEW text, NEW index, Query(text, index)
    PROVE  Inv'
<1>1. /\ messages' = Append(messages, User)
      /\ phase' = "before" /\ handler' = "query" /\ pending' = <<>> /\ results' = <<>>
      /\ turn' = turn + 1 /\ fresh' = {} /\ reply' = NoReply /\ UNCHANGED <<asks, breaks, log>>
      /\ abandoned' \in {abandoned, abandoned \cup {asks}}
    BY DEF Query
<1>2. User \in ToldMessage
    BY NewMessages DEF SeenMessage
<1>3. Told'
    BY <1>1, <1>2, PositionedOf DEF Inv, Told
<1>4. Counters'
    BY <1>1, PositionedOf DEF Inv, TypeOK, Counters
<1>5. ~Admission
    BY GateOf DEF Query
<1>6. Seen' /\ Waiting'
    BY <1>1, <1>5 DEF Seen, Waiting, NoReply
<1> QED BY <1>3, <1>4, <1>6, Together DEF Inv

LEMMA BeforeModelStep ==
    ASSUME Inv, BeforeModel
    PROVE  Inv'
<1>1. /\ messages' = CondenseResults(messages) /\ phase = "before" /\ phase' = "model"
      /\ UNCHANGED <<handler, pending, results, turn, asks, breaks, reply, fresh, abandoned, log>>
    BY DEF BeforeModel, counts, history
<1>2. messages' \in Seq(SeenMessage) /\ messages' \in Seq(ToldMessage)
    BY <1>1, CondenseResultsOf, ToldIsMessage DEF Inv, Told
<1>3. Told'
    BY <1>1, <1>2 DEF Inv, Told
<1>4. Counters'
    BY <1>1 DEF Inv, TypeOK, Counters
<1>5. Seen' /\ Waiting'
    BY <1>1, <1>2 DEF Inv, Seen, Waiting
<1> QED BY <1>3, <1>4, <1>5, Together DEF Inv

LEMMA SummarizeStep ==
    ASSUME Inv, NEW i \in DOMAIN messages, Summarize(i)
    PROVE  Inv'
<1>1. /\ messages' = <<Summary>> \o SubSeq(messages, i, Len(messages)) /\ phase = "model"
      /\ UNCHANGED <<phase, handler, pending, results, turn, asks, breaks, reply, fresh,
                     abandoned, log>>
    BY DEF Summarize, run, counts
<1>2. messages \in Seq(SeenMessage)
    BY <1>1 DEF Inv, Seen
<1>3. /\ Len(messages) \in Nat /\ DOMAIN messages = 1..Len(messages)
      /\ \A j \in 1..Len(messages) : messages[j] \in SeenMessage
    BY <1>2, LenProperties, ElementOfSeq
<1>4. SubSeq(messages, i, Len(messages)) \in Seq(SeenMessage)
  <2>1. i \in Int /\ Len(messages) \in Int
        /\ \A j \in i..Len(messages) : messages[j] \in SeenMessage
      BY <1>3
  <2> QED BY <2>1, SubSeqProperties
<1>5. <<Summary>> \in Seq(SeenMessage)
    BY NewMessages
<1>6. messages' \in Seq(SeenMessage) /\ messages' \in Seq(ToldMessage)
  <2>1. <<Summary>> \o SubSeq(messages, i, Len(messages)) \in Seq(SeenMessage)
      BY <1>4, <1>5, ConcatProperties
  <2> QED BY <1>1, <2>1, ToldIsMessage
<1>7. Told' /\ Counters'
    BY <1>1, <1>6 DEF Inv, Told, TypeOK, Counters
<1>8. Seen' /\ Waiting'
    BY <1>1, <1>6 DEF Inv, Seen, Waiting, Idle
<1> QED BY <1>7, <1>8, Together DEF Inv

LEMMA ModelAnswersStep ==
    ASSUME Inv, ModelAnswers
    PROVE  Inv'
<1>1. /\ messages' = Append(messages, Answer) /\ phase' = "idle" /\ handler' = "none"
      /\ reply'.kind = "answer"
      /\ UNCHANGED <<pending, results, turn, asks, breaks, fresh, abandoned, log>>
    BY DEF ModelAnswers, Replies, counts, history
<1>2. Answer \in ToldMessage
    BY NewMessages DEF SeenMessage
<1>3. Told' /\ Counters'
    BY <1>1, <1>2 DEF Inv, Told, TypeOK, Counters
<1>4. Seen' /\ Waiting'
    BY <1>1 DEF Seen, Waiting, Idle
<1> QED BY <1>3, <1>4, Together DEF Inv

LEMMA ModelAsksStep ==
    ASSUME Inv, NEW tools \in Asks, ModelAsks(tools)
    PROVE  Inv'
<1>1. /\ messages' = Append(messages, Asking(asks + 1, tools)) /\ asks' = asks + 1
      /\ pending' = tools /\ results' = <<>> /\ phase = "model" /\ ~Idle
      /\ UNCHANGED <<turn, breaks, fresh, abandoned, log>>
      /\ \/ phase' = "tools" /\ handler' = handler /\ reply' = reply
         \/ phase' = "review" /\ handler' = "none" /\ reply' = InterruptReply(handler)
    BY DEF ModelAsks, Replies, history
<1>2. tools \in Seq(Tools)
    BY ConversationConstants
<1>3. Asking(asks + 1, tools) \in ToldMessage
    BY <1>2, NewMessages DEF SeenMessage, Inv, TypeOK
<1>4. Told'
    BY <1>1, <1>3, PositionedOf DEF Inv, Told
<1>5. Counters'
    BY <1>1, <1>2, PositionedOf DEF Inv, TypeOK, Counters
<1>6. Seen' /\ Waiting'
    BY <1>1 DEF Inv, Seen, Waiting, Idle
<1> QED BY <1>4, <1>5, <1>6, Together DEF Inv

LEMMA ResumeStep ==
    ASSUME Inv, Approve \/ DecisionsDiffer \/ GoOn
    PROVE  Inv'
<1>1. UNCHANGED <<messages, pending, turn, asks, breaks, fresh, abandoned, log>>
    BY DEF Approve, DecisionsDiffer, GoOn, run, counts, history
<1>2. Positioned(results', ToldResult)
  <2>1. Positioned(results, ToldResult)
      BY DEF Inv, Told
  <2>2. results' = results \/ \E kept \in SUBSET DOMAIN results : results' = [i \in kept |-> results[i]]
      BY DEF Approve, DecisionsDiffer, GoOn, run
  <2> QED BY <2>1, <2>2, PositionedOf
<1>3. Told'
    BY <1>1, <1>2 DEF Inv, Told
<1>4. CASE Approve
  <2>1. phase = "review" /\ phase' = "tools" /\ handler' = "approve" /\ reply' = NoReply
      BY <1>4 DEF Approve
  <2>2. Counters'
      BY <1>1, <2>1 DEF Inv, TypeOK, Counters
  <2>3. Seen' /\ Waiting'
      BY <2>1 DEF Inv, Seen, Waiting, NoReply
  <2> QED BY <1>3, <2>2, <2>3, Together DEF Inv
<1>5. CASE DecisionsDiffer
  <2>1. /\ phase' = phase /\ handler' = handler /\ phase = "review"
        /\ reply' = [kind |-> "error", to |-> "approve"]
      BY <1>5 DEF DecisionsDiffer, run
  <2>2. Counters'
      BY <1>1, <2>1 DEF Inv, TypeOK, Counters
  <2>3. Seen' /\ Waiting'
      BY <2>1 DEF Inv, Seen, Waiting, Idle
  <2> QED BY <1>3, <2>2, <2>3, Together DEF Inv
<1>6. CASE GoOn
  <2>1. /\ phase' = phase /\ handler' = "approve" /\ phase \in {"before", "model", "tools"}
        /\ reply' = NoReply
      BY <1>6 DEF GoOn
  <2>2. Counters'
      BY <1>1, <2>1 DEF Inv, TypeOK, Counters
  <2>3. Seen' /\ Waiting'
      BY <1>1, <2>1 DEF Inv, Seen, Waiting,
         NoReply
  <2> QED BY <1>3, <2>2, <2>3, Together DEF Inv
<1> QED BY <1>4, <1>5, <1>6

LEMMA RejectStep ==
    ASSUME Inv, Reject
    PROVE  Inv'
<1>1. PICK i \in DOMAIN pending :
          /\ messages' = Append(messages, ToolMessage(asks, i, "query_database", Rejection))
          /\ pending' = Without(pending, i)
    BY DEF Reject
<1>2. /\ phase = "review" /\ phase' \in {"before", "tools"} /\ handler' = "approve"
      /\ reply' = NoReply /\ UNCHANGED <<results, turn, asks, breaks, fresh, abandoned, log>>
    BY DEF Reject, counts
<1>3. ToolMessage(asks, i, "query_database", Rejection) \in ToldMessage
  <2>1. i \in Nat /\ asks \in Nat
      BY DEF Inv, TypeOK, Positioned
  <2>2. "query_database" \in Tools
      BY DEF Tools
  <2> QED BY <2>1, <2>2, NewToolMessage, RejectionIsTold DEF Inv
<1>4. Told'
    BY <1>1, <1>2, <1>3 DEF Inv, Told
<1>5. Positioned(pending', Tools)
  <2>1. DOMAIN pending \ {i} \in SUBSET DOMAIN pending
      OBVIOUS
  <2> QED BY <1>1, <2>1, PositionedOf DEF Inv, TypeOK, Without
<1>6. Counters'
    BY <1>2, <1>5 DEF Inv, TypeOK, Counters
<1>7. Seen' /\ Waiting'
    BY <1>2 DEF Inv, Seen, Waiting, NoReply
<1> QED BY <1>4, <1>6, <1>7, Together DEF Inv

\* What a call leaves in the log.
LEMMA CallIsLogged ==
    ASSUME TypeOK, NEW i \in DOMAIN pending, CallReturns(i) \/ CallRaises(i)
    PROVE  /\ \E rec \in LogRecord :
                 log' = Append(log, rec) /\ rec.ask = asks /\ rec.call = i
           /\ log' \in Seq(LogRecord)
<1>1. asks \in Nat /\ i \in Nat /\ pending[i] \in Tools /\ log \in Seq(LogRecord)
    BY DEF TypeOK, Positioned
<1>2. ASSUME NEW r \in Raw PROVE Record(i, r) \in LogRecord
  <2>1. r \in Result
      BY RawIsTold DEF ToldResult
  <2>2. ModelView(r) \in Result
      BY <2>1, ReprOf, CondenseOf DEF ModelView
  <2> QED BY <1>1, <2>2 DEF Record, LogRecord
<1>3. CASE CallReturns(i)
  <2>1. PICK r \in Results[pending[i]] : log' = Append(log, Record(i, r))
      BY <1>3 DEF CallReturns, LogCall
  <2>2. r \in Raw
      BY <1>1, <2>1, ConversationConstants
  <2>3. Record(i, r).ask = asks /\ Record(i, r).call = i
      BY DEF Record
  <2> QED BY <1>1, <1>2, <2>1, <2>2, <2>3
<1>4. CASE CallRaises(i)
  <2>1. PICK rec : /\ rec = [ask |-> asks, call |-> i, success |-> FALSE, view |-> NoView]
                   /\ log' = Append(log, rec)
      BY <1>4 DEF CallRaises
  <2>2. rec \in LogRecord /\ rec.ask = asks /\ rec.call = i
      BY <1>1, <2>1 DEF LogRecord
  <2> QED BY <1>1, <2>1, <2>2
<1> QED BY <1>3, <1>4

LEMMA CallStep ==
    ASSUME Inv, NEW i \in DOMAIN pending, CallReturns(i) \/ CallRaises(i)
    PROVE  Inv'
<1>1. /\ phase = "tools" /\ phase' = phase /\ breaks' \in {breaks, breaks + 1}
      /\ UNCHANGED <<messages, pending, turn, asks, fresh, abandoned>>
      /\ \/ handler' = handler /\ reply' = reply
         \/ handler' = "none" /\ reply' = [kind |-> "error", to |-> handler]
    BY DEF CallReturns, CallRaises, Replies, counts, history
<1>2. Positioned(results', ToldResult)
  <2>1. Positioned(results, ToldResult) /\ i \in Nat /\ pending[i] \in Tools
      BY DEF Inv, Told, TypeOK, Positioned
  <2>2. \A r \in Results[pending[i]] : r \in ToldResult
      BY <2>1, ConversationConstants, RawIsTold
  <2>3. \/ results' = results
        \/ \E r \in Results[pending[i]] :
              results' = [j \in DOMAIN results \cup {i} |-> IF j = i THEN r ELSE results[j]]
      BY DEF CallReturns, CallRaises
  <2>4. ASSUME NEW r \in ToldResult
        PROVE  Positioned([j \in DOMAIN results \cup {i} |-> IF j = i THEN r ELSE results[j]],
                          ToldResult)
      BY <2>1, PositionedPlus
  <2> QED BY <2>1, <2>2, <2>3, <2>4
<1>3. log' \in Seq(LogRecord)
    BY CallIsLogged DEF Inv
<1>4. Told' /\ Counters'
    BY <1>1, <1>2, <1>3 DEF Inv, Told, TypeOK, Counters
<1>5. Seen' /\ Waiting'
    BY <1>1 DEF Inv, Seen, Waiting
<1> QED BY <1>4, <1>5, Together DEF Inv

LEMMA AddResultsStep ==
    ASSUME Inv, AddResults
    PROVE  Inv'
<1>1. PICK order \in Orders(DOMAIN pending) :
          messages' = messages \o
              [i \in DOMAIN order |->
                  ToolMessage(asks, order[i], pending[order[i]], results[order[i]])]
    BY DEF AddResults
<1>2. /\ DOMAIN pending = DOMAIN results /\ phase = "tools" /\ phase' = "before" /\ ~Idle
      /\ pending' = <<>> /\ results' = <<>>
      /\ fresh' = fresh \cup {pending[i] : i \in {i \in DOMAIN results : results[i].ok}}
      /\ UNCHANGED <<handler, turn, asks, breaks, reply, abandoned, log>>
    BY DEF AddResults, counts
<1>3. /\ \A i \in DOMAIN pending : i \in Nat /\ pending[i] \in Tools /\ results[i] \in ToldResult
      /\ Cardinality(DOMAIN pending) \in Nat
    BY <1>2, FS_CardinalityType DEF Inv, Told, TypeOK, Positioned
<1>4. PICK n \in Nat : n = Cardinality(DOMAIN pending)
    BY <1>3
<1>5. order \in [1..n -> DOMAIN pending]
    BY <1>4 DEF Orders
<1>6. PICK new : new = [i \in DOMAIN order |->
                         ToolMessage(asks, order[i], pending[order[i]], results[order[i]])]
    OBVIOUS
<1>7. new \in [1..n -> ToldMessage]
  <2>1. \A i \in 1..n : ToolMessage(asks, order[i], pending[order[i]], results[order[i]])
                            \in ToldMessage
      BY <1>3, <1>5, NewToolMessage DEF Inv, TypeOK
  <2> QED BY <1>5, <1>6, <2>1
<1>8. messages' \in Seq(ToldMessage)
  <2>1. new \in Seq(ToldMessage)
      BY <1>7, SeqOf
  <2> QED BY <1>1, <1>6, <2>1, ConcatProperties DEF Inv, Told
<1>9. Told'
    BY <1>2, <1>8, PositionedOf DEF Told
<1>10. Counters'
    BY <1>2, <1>3, PositionedOf DEF Inv, TypeOK, Counters
<1>11. Seen' /\ Waiting'
    BY <1>2 DEF Inv, Seen, Waiting
<1> QED BY <1>9, <1>10, <1>11, Together DEF Inv

LEMMA BreaksOffStep ==
    ASSUME Inv, BreaksOff
    PROVE  Inv'
<1>1. /\ UNCHANGED <<messages, phase, pending, results, turn, asks, fresh, abandoned, log>>
      /\ ~Idle /\ handler' = "none" /\ breaks' = breaks + 1
      /\ reply' = [kind |-> "error", to |-> handler]
    BY DEF BreaksOff, Replies, history
<1>2. Told' /\ Counters'
    BY <1>1 DEF Inv, Told, TypeOK, Counters
<1>3. Seen' /\ Waiting'
    BY <1>1 DEF Inv, Seen, Waiting, Idle
<1> QED BY <1>2, <1>3, Together DEF Inv

LEMMA StepInv ==
    ASSUME Inv, [Next]_vars
    PROVE  Inv'
<1>1. CASE UNCHANGED vars
  <2>1. UNCHANGED <<messages, phase, handler, pending, results, turn, asks, breaks, reply, fresh,
                    abandoned, log>>
      BY <1>1 DEF vars, run, counts, history
  <2> QED BY <2>1 DEF Inv, TypeOK, Told, Seen, Waiting, Idle
<1>2. CASE Next
    BY <1>2, StoppedStep, QueryStep, BeforeModelStep, SummarizeStep, ModelAnswersStep,
       ModelAsksStep, ResumeStep, RejectStep, CallStep, AddResultsStep, BreaksOffStep DEF Next
<1> QED BY <1>1, <1>2

LEMMA Invariance == Spec => []Inv
<1>1. Init => Inv
    BY InitInv
<1>2. Inv /\ [Next]_vars => Inv'
    BY StepInv
<1> QED BY <1>1, <1>2, PTL DEF Spec

\* The tool messages of a thread, by their places in it.
LEMMA ShownOf ==
    ASSUME NEW S, messages \in Seq(S), NEW m \in Shown
    PROVE  m \in S /\ IsTool(m)
<1>1. PICK i \in DOMAIN messages : IsTool(messages[i]) /\ m = messages[i]
    BY DEF Shown
<1>2. DOMAIN messages = 1..Len(messages)
    BY LenProperties
<1> QED BY <1>1, <1>2, ElementOfSeq

-----------------------------------------------------------------------------
(* Calls that are to be answered, and their results. *)

Places ==
    /\ DOMAIN pending # {} <=> phase \in {"review", "tools"}
    /\ DOMAIN results \subseteq DOMAIN pending
    /\ phase = "review" => DOMAIN results = {}
    /\ \A i \in DOMAIN results : results[i] \in Results[pending[i]]

LEMMA StepPlaces ==
    ASSUME Inv, Places, Next
    PROVE  Places'
<1>0. DOMAIN <<>> = {}
    OBVIOUS
<1>1. ASSUME UNCHANGED <<phase, pending, results>> PROVE Places'
    BY <1>1 DEF Places
<1>2. ASSUME NEW text, NEW index, Query(text, index) PROVE Places'
    BY <1>0, <1>2 DEF Query, Places
<1>3. CASE BeforeModel
    BY <1>3 DEF BeforeModel, Places
<1>4. CASE ModelAnswers
    BY <1>4 DEF ModelAnswers, Places
<1>5. ASSUME NEW tools \in Asks, ModelAsks(tools) PROVE Places'
  <2>1. tools \in Seq(Tools) /\ tools # <<>>
      BY ConversationConstants
  <2>2. DOMAIN tools # {}
    <3>1. Len(tools) \in Nat \ {0} /\ DOMAIN tools = 1..Len(tools)
        BY <2>1, EmptySeq, LenProperties
    <3>2. 1 \in 1..Len(tools)
        BY <3>1
    <3> QED BY <3>1, <3>2
  <2> QED BY <1>0, <1>5, <2>2 DEF ModelAsks, Places
<1>6. CASE Approve
    BY <1>6 DEF Approve, Places
<1>7. CASE Reject
    BY <1>7 DEF Reject, Without, Places
<1>8. CASE GoOn
  <2>1. PICK kept \in SUBSET DOMAIN results : results' = [i \in kept |-> results[i]]
      BY <1>8 DEF GoOn
  <2> QED BY <1>8, <2>1 DEF GoOn, Places
<1>9. ASSUME NEW i \in DOMAIN pending, CallReturns(i) PROVE Places'
  <2>1. PICK r \in Results[pending[i]] :
            results' = [j \in DOMAIN results \cup {i} |-> IF j = i THEN r ELSE results[j]]
      BY <1>9 DEF CallReturns
  <2> QED BY <1>9, <2>1 DEF CallReturns, Places
<1>10. CASE AddResults
    BY <1>0, <1>10 DEF AddResults, Places
<1> QED
    BY <1>1, <1>2, <1>3, <1>4, <1>5, <1>6, <1>7, <1>8, <1>9, <1>10
    DEF Next, Stopped, Summarize, DecisionsDiffer, CallRaises, BreaksOff, run

-----------------------------------------------------------------------------
(* What the steps do to the messages. *)

LEMMA MessagesOf ==
    ASSUME Inv
    PROVE  /\ Len(messages) \in Nat /\ DOMAIN messages = 1..Len(messages)
           /\ \A i \in 1..Len(messages) : messages[i] \in ToldMessage /\ messages[i] \in Message
<1>1. messages \in Seq(ToldMessage)
    BY DEF Inv, Told
<1> QED BY <1>1, LenProperties, ElementOfSeq DEF ToldMessage

LEMMA Appended ==
    ASSUME Inv, NEW m \in ToldMessage, messages' = Append(messages, m)
    PROVE  /\ DOMAIN messages' = 1..(Len(messages) + 1)
           /\ \A i \in 1..Len(messages) : messages'[i] = messages[i]
           /\ messages'[Len(messages) + 1] = m
<1>1. messages \in Seq(ToldMessage)
    BY DEF Inv, Told
<1>2. messages' \in Seq(ToldMessage) /\ Len(messages') = Len(messages) + 1
    BY <1>1, AppendProperties
<1> QED BY <1>1, <1>2, AppendProperties, LenProperties

\* Condensing leaves each message in its place, and all of it that tells whose
\* answer it is.
LEMMA Rewritten ==
    ASSUME Inv, messages' = CondenseResults(messages)
    PROVE  /\ DOMAIN messages' = DOMAIN messages
           /\ \A i \in DOMAIN messages :
                 /\ IsTool(messages'[i]) <=> IsTool(messages[i])
                 /\ ~IsTool(messages[i]) => messages'[i] = messages[i]
                 /\ IsTool(messages[i]) =>
                       /\ messages'[i].type = "tool"
                       /\ messages'[i].ask = messages[i].ask
                       /\ messages'[i].call = messages[i].call
                       /\ messages'[i].turn = messages[i].turn
                       /\ messages'[i].raw = messages[i].raw
                 /\ IsChart(messages'[i]) <=> IsChart(messages[i])
<1>1. /\ DOMAIN messages' = DOMAIN messages
      /\ \A i \in DOMAIN messages : messages'[i] = CondenseMessage(messages[i])
    BY DEF CondenseResults
<1>2. ASSUME NEW m \in Message, IsTool(m)
      PROVE  LET n == CondenseMessage(m) IN
             /\ n.type = "tool" /\ n.ask = m.ask /\ n.call = m.call /\ n.turn = m.turn
             /\ n.raw = m.raw
             /\ IsChart(n) <=> IsChart(m)
  <2>1. m \in [type : {"tool"}, ask : Nat, call : Nat, tool : Tools, turn : Nat,
              result : Result, raw : Result, passes : 0..4]
      BY <1>2 DEF Message, IsTool
  <2>2. PICK r : r = Condense(m.result)
      OBVIOUS
  <2>3. PICK p : p = IF m.passes < 4 THEN m.passes + 1 ELSE m.passes
      OBVIOUS
  <2>4. CondenseMessage(m) = [type |-> "tool", ask |-> m.ask, call |-> m.call, tool |-> m.tool,
                              turn |-> m.turn, result |-> r, raw |-> m.raw, passes |-> p]
      BY <1>2, <2>1, <2>2, <2>3 DEF CondenseMessage
  <2>5. r.kind = m.result.kind /\ (r.kind = "object" => r.ok = m.result.ok)
      BY <2>1, <2>2, CondenseKind
  <2> QED BY <1>2, <2>1, <2>4, <2>5 DEF IsChart, IsTool
<1>3. ASSUME NEW m, ~IsTool(m) PROVE CondenseMessage(m) = m
    BY <1>3 DEF CondenseMessage
<1> QED BY <1>1, <1>2, <1>3, MessagesOf DEF IsTool

\* A summary takes the place of the messages before i.
LEMMA Summarized ==
    ASSUME Inv, NEW i \in DOMAIN messages, Summarize(i)
    PROVE  /\ DOMAIN messages' = 1..(Len(messages) - i + 2)
           /\ messages'[1] = Summary
           /\ \A j \in 2..(Len(messages) - i + 2) :
                 j + i - 2 \in DOMAIN messages /\ messages'[j] = messages[j + i - 2]
<1>1. messages' = <<Summary>> \o SubSeq(messages, i, Len(messages)) /\ i > 2
    BY DEF Summarize
<1>2. i \in 1..Len(messages) /\ Len(messages) \in Nat
    BY MessagesOf
<1>3. PICK s : s = SubSeq(messages, i, Len(messages))
    OBVIOUS
<1>4. /\ s \in Seq(ToldMessage) /\ Len(s) = Len(messages) - i + 1
      /\ \A j \in 1..(Len(messages) - i + 1) : s[j] = messages[i + j - 1]
  <2>1. i \in Int /\ Len(messages) \in Int
        /\ \A j \in i..Len(messages) : messages[j] \in ToldMessage
      BY <1>2, MessagesOf
  <2> QED BY <1>2, <1>3, <2>1, SubSeqProperties
<1>5. <<Summary>> \in Seq(ToldMessage) /\ Len(<<Summary>>) = 1 /\ <<Summary>>[1] = Summary
    BY NewMessages DEF SeenMessage
<1>6. /\ messages' \in Seq(ToldMessage) /\ Len(messages') = 1 + Len(s)
      /\ \A j \in 1..(1 + Len(s)) :
            messages'[j] = IF j <= 1 THEN <<Summary>>[j] ELSE s[j - 1]
    BY <1>1, <1>3, <1>4, <1>5, ConcatProperties
<1>7. DOMAIN messages' = 1..(Len(messages) - i + 2)
    BY <1>2, <1>4, <1>6, LenProperties
<1>8. ASSUME NEW j \in 2..(Len(messages) - i + 2)
      PROVE  j + i - 2 \in DOMAIN messages /\ messages'[j] = messages[j + i - 2]
  <2>1. j - 1 \in 1..(Len(messages) - i + 1) /\ j \in 1..(1 + Len(s)) /\ ~(j <= 1)
      BY <1>2, <1>4
  <2>2. messages'[j] = s[j - 1] /\ s[j - 1] = messages[i + (j - 1) - 1]
      BY <1>4, <1>6, <2>1
  <2>3. i + (j - 1) - 1 = j + i - 2 /\ j + i - 2 \in 1..Len(messages)
      BY <1>2
  <2> QED BY <2>2, <2>3, MessagesOf
<1>9. messages'[1] = Summary
  <2>1. 1 \in 1..(1 + Len(s))
      BY <1>2, <1>4
  <2> QED BY <1>5, <1>6, <2>1
<1> QED BY <1>7, <1>8, <1>9

\* An increasing sequence of as many positions as there are goes through them all.
LEMMA OrdersOf ==
    ASSUME NEW S, S \subseteq Nat, IsFiniteSet(S), NEW order \in Orders(S)
    PROVE  /\ Cardinality(S) \in Nat
           /\ order \in [1..Cardinality(S) -> S]
           /\ \A i, j \in 1..Cardinality(S) : i < j => order[i] < order[j]
           /\ \A x \in S : \E i \in 1..Cardinality(S) : order[i] = x
<1>1. PICK n \in Nat : n = Cardinality(S)
    BY FS_CardinalityType
<1>2. order \in [1..n -> S] /\ \A i, j \in 1..n : i < j => order[i] < order[j]
    BY <1>1 DEF Orders
<1>3. order \in Injection(1..n, S)
  <2>1. ASSUME NEW i \in 1..n, NEW j \in 1..n, i # j PROVE order[i] # order[j]
    <3>1. order[i] \in Nat /\ order[j] \in Nat
        BY <1>2
    <3>2. i < j \/ j < i
        BY <2>1
    <3> QED BY <1>2, <3>1, <3>2
  <2> QED BY <1>2, <2>1 DEF Injection, IsInjective
<1>4. Cardinality(1..n) = n
  <2>1. 1 \in Int /\ n \in Int
      BY <1>1
  <2> QED BY <2>1, <1>1, FS_Interval
<1>5. order \in Surjection(1..n, S)
    BY <1>1, <1>3, <1>4, FS_Injection
<1> QED BY <1>1, <1>2, <1>5 DEF Surjection

\* The messages of the results, in the order of the calls.
LEMMA Added ==
    ASSUME Inv, Places, AddResults
    PROVE  \E order \in Orders(DOMAIN pending) :
              /\ DOMAIN messages' = 1..(Len(messages) + Cardinality(DOMAIN pending))
              /\ \A i \in 1..Len(messages) : messages'[i] = messages[i]
              /\ \A k \in 1..Cardinality(DOMAIN pending) :
                    messages'[Len(messages) + k] =
                        ToolMessage(asks, order[k], pending[order[k]], results[order[k]])
<1>1. PICK order \in Orders(DOMAIN pending) :
          messages' = messages \o
              [i \in DOMAIN order |->
                  ToolMessage(asks, order[i], pending[order[i]], results[order[i]])]
    BY DEF AddResults
<1>2. DOMAIN pending \subseteq Nat /\ IsFiniteSet(DOMAIN pending)
    BY DEF Inv, TypeOK, Positioned
<1>3. PICK n \in Nat : n = Cardinality(DOMAIN pending)
    BY <1>2, OrdersOf
<1>4. order \in [1..n -> DOMAIN pending]
    BY <1>2, <1>3, OrdersOf
<1>5. PICK new : new = [i \in DOMAIN order |->
                         ToolMessage(asks, order[i], pending[order[i]], results[order[i]])]
    OBVIOUS
<1>6. new \in [1..n -> ToldMessage]
  <2>1. DOMAIN pending = DOMAIN results
      BY DEF AddResults
  <2>2. \A i \in 1..n : ToolMessage(asks, order[i], pending[order[i]], results[order[i]])
                            \in ToldMessage
      BY <1>2, <1>4, <2>1, NewToolMessage DEF Inv, Told, TypeOK, Positioned
  <2> QED BY <1>4, <1>5, <2>2
<1>7. new \in Seq(ToldMessage) /\ Len(new) = n
  <2>1. new \in Seq(ToldMessage)
      BY <1>6, SeqOf
  <2> QED BY <1>6, <2>1, LenProperties
<1>8. messages \in Seq(ToldMessage) /\ Len(messages) \in Nat
    BY MessagesOf DEF Inv, Told
<1>9. /\ messages' \in Seq(ToldMessage) /\ Len(messages') = Len(messages) + n
      /\ \A i \in 1..(Len(messages) + n) :
            messages'[i] = IF i <= Len(messages) THEN messages[i] ELSE new[i - Len(messages)]
    BY <1>1, <1>5, <1>7, <1>8, ConcatProperties
<1>10. DOMAIN messages' = 1..(Len(messages) + n)
    BY <1>9, LenProperties
<1>11. \A i \in 1..Len(messages) : messages'[i] = messages[i]
    BY <1>8, <1>9
<1>12. ASSUME NEW k \in 1..n
       PROVE  messages'[Len(messages) + k] =
                  ToolMessage(asks, order[k], pending[order[k]], results[order[k]])
  <2>1. /\ Len(messages) + k \in 1..(Len(messages) + n) /\ ~(Len(messages) + k <= Len(messages))
        /\ Len(messages) + k - Len(messages) = k
      BY <1>8
  <2>2. messages'[Len(messages) + k] = new[k]
      BY <1>9, <2>1
  <2> QED BY <1>4, <1>5, <2>2
<1> QED BY <1>3, <1>10, <1>11, <1>12

-----------------------------------------------------------------------------
(* AnsweredUnlessAbandoned: an answer stands after the call it answers, so *)
(* that a summary that keeps the call keeps the answer.                    *)

AnswersLater(i, c) ==
    \E j \in DOMAIN messages :
        /\ j > i /\ IsTool(messages[j])
        /\ messages[j].ask = messages[i].ask /\ messages[j].call = c

\* What has not been answered is among the calls that are to be run.
Owed ==
    \A i \in DOMAIN messages :
        messages[i].type = "ai" /\ messages[i].ask \notin abandoned =>
            \A c \in DOMAIN messages[i].tools :
                AnswersLater(i, c) \/ (messages[i].ask = asks /\ c \in DOMAIN pending)

\* A message more at the end takes no answer away, and may be one.
LEMMA OwedAppended ==
    ASSUME Inv, Owed, NEW m \in ToldMessage, messages' = Append(messages, m),
           UNCHANGED <<asks, abandoned>>,
           m.type # "ai",
           \A c \in DOMAIN pending \ DOMAIN pending' :
               IsTool(m) /\ m.ask = asks /\ m.call = c
    PROVE  Owed'
<1>1. /\ DOMAIN messages = 1..Len(messages) /\ Len(messages) \in Nat
      /\ DOMAIN messages' = 1..(Len(messages) + 1)
      /\ \A i \in 1..Len(messages) : messages'[i] = messages[i]
      /\ messages'[Len(messages) + 1] = m
    BY MessagesOf, Appended
<1>2. ASSUME NEW i \in DOMAIN messages', messages'[i].type = "ai",
             messages'[i].ask \notin abandoned', NEW c \in DOMAIN messages'[i].tools
      PROVE  AnswersLater(i, c)' \/ (messages'[i].ask = asks' /\ c \in DOMAIN pending')
  <2>1. i \in 1..Len(messages) /\ messages'[i] = messages[i]
      BY <1>1, <1>2
  <2>2. AnswersLater(i, c) \/ (messages[i].ask = asks /\ c \in DOMAIN pending)
      BY <1>1, <1>2, <2>1 DEF Owed
  <2>3. CASE AnswersLater(i, c)
    <3>1. PICK j \in 1..Len(messages) :
              /\ j > i /\ IsTool(messages[j])
              /\ messages[j].ask = messages[i].ask /\ messages[j].call = c
        BY <1>1, <2>3 DEF AnswersLater
    <3>2. j \in DOMAIN messages' /\ messages'[j] = messages[j]
        BY <1>1, <3>1
    <3> QED BY <2>1, <3>1, <3>2 DEF AnswersLater
  <2>4. CASE messages[i].ask = asks /\ c \in DOMAIN pending \ DOMAIN pending'
    <3>1. Len(messages) + 1 \in DOMAIN messages' /\ Len(messages) + 1 > i
        BY <1>1, <2>1
    <3> QED BY <1>1, <2>1, <2>4, <3>1 DEF AnswersLater
  <2>5. CASE messages[i].ask = asks /\ c \in DOMAIN pending'
      BY <2>1, <2>5
  <2> QED BY <2>2, <2>3, <2>4, <2>5
<1> QED BY <1>2 DEF Owed

LEMMA StepOwed ==
    ASSUME Inv, Places, Owed, Next
    PROVE  Owed'
<1>0. DOMAIN messages = 1..Len(messages) /\ Len(messages) \in Nat /\ DOMAIN <<>> = {}
    BY MessagesOf
<1>1. ASSUME UNCHANGED <<messages, asks, abandoned, pending>> PROVE Owed'
    BY <1>1 DEF Owed, AnswersLater
<1>2. ASSUME NEW text, NEW index, Query(text, index) PROVE Owed'
  <2>1. User \in ToldMessage /\ User.type # "ai"
      BY NewMessages DEF SeenMessage, User
  <2>2. CASE pending = <<>>
      BY <1>0, <1>2, <2>1, <2>2, OwedAppended DEF Query
  <2>3. CASE pending # <<>>
    <3>1. /\ messages' = Append(messages, User) /\ UNCHANGED asks
          /\ abandoned' = abandoned \cup {asks}
        BY <1>2, <2>3 DEF Query
    <3>2. /\ DOMAIN messages' = 1..(Len(messages) + 1)
          /\ \A i \in 1..Len(messages) : messages'[i] = messages[i]
          /\ messages'[Len(messages) + 1] = User
        BY <2>1, <3>1, Appended
    <3>3. ASSUME NEW i \in DOMAIN messages', messages'[i].type = "ai",
                 messages'[i].ask \notin abandoned', NEW c \in DOMAIN messages'[i].tools
          PROVE  AnswersLater(i, c)'
      <4>1. i \in 1..Len(messages) /\ messages'[i] = messages[i]
          BY <1>0, <2>1, <3>2, <3>3
      <4>2. AnswersLater(i, c)
          BY <1>0, <3>1, <3>3, <4>1 DEF Owed
      <4>3. PICK j \in 1..Len(messages) :
                /\ j > i /\ IsTool(messages[j])
                /\ messages[j].ask = messages[i].ask /\ messages[j].call = c
          BY <1>0, <4>2 DEF AnswersLater
      <4>4. j \in DOMAIN messages' /\ messages'[j] = messages[j]
          BY <1>0, <3>2
      <4> QED BY <4>1, <4>3, <4>4 DEF AnswersLater
    <3> QED BY <3>3 DEF Owed
  <2> QED BY <2>2, <2>3
<1>3. CASE BeforeModel
  <2>1. messages' = CondenseResults(messages) /\ UNCHANGED <<asks, abandoned, pending>>
      BY <1>3 DEF BeforeModel, counts, history
  <2>2. /\ DOMAIN messages' = DOMAIN messages
        /\ \A i \in DOMAIN messages :
              /\ IsTool(messages'[i]) <=> IsTool(messages[i])
              /\ ~IsTool(messages[i]) => messages'[i] = messages[i]
              /\ IsTool(messages[i]) => /\ messages'[i].type = "tool"
                                        /\ messages'[i].ask = messages[i].ask
                                        /\ messages'[i].call = messages[i].call
      BY <2>1, Rewritten
  <2>3. ASSUME NEW i \in DOMAIN messages', messages'[i].type = "ai",
               messages'[i].ask \notin abandoned', NEW c \in DOMAIN messages'[i].tools
        PROVE  AnswersLater(i, c)' \/ (messages'[i].ask = asks' /\ c \in DOMAIN pending')
    <3>1. i \in DOMAIN messages /\ messages'[i] = messages[i]
        BY <2>2, <2>3
    <3>2. AnswersLater(i, c) \/ (messages[i].ask = asks /\ c \in DOMAIN pending)
        BY <2>1, <2>3, <3>1 DEF Owed
    <3> QED BY <2>1, <2>2, <3>1, <3>2 DEF AnswersLater
  <2> QED BY <2>3 DEF Owed
<1>4. ASSUME NEW i \in DOMAIN messages, Summarize(i) PROVE Owed'
  <2>1. UNCHANGED <<asks, abandoned, pending>> /\ i \in Nat /\ i > 2 /\ i <= Len(messages)
      BY <1>0, <1>4 DEF Summarize, run, counts
  <2>2. /\ DOMAIN messages' = 1..(Len(messages) - i + 2)
        /\ messages'[1] = Summary
        /\ \A j \in 2..(Len(messages) - i + 2) :
              j + i - 2 \in DOMAIN messages /\ messages'[j] = messages[j + i - 2]
      BY <1>4, Summarized
  <2>3. ASSUME NEW k \in DOMAIN messages', messages'[k].type = "ai",
               messages'[k].ask \notin abandoned', NEW c \in DOMAIN messages'[k].tools
        PROVE  AnswersLater(k, c)' \/ (messages'[k].ask = asks' /\ c \in DOMAIN pending')
    <3>1. k \in 2..(Len(messages) - i + 2)
        BY <1>0, <2>1, <2>2, <2>3 DEF Summary
    <3>2. PICK l \in DOMAIN messages : l = k + i - 2 /\ messages'[k] = messages[l]
        BY <2>2, <3>1
    <3>3. AnswersLater(l, c) \/ (messages[l].ask = asks /\ c \in DOMAIN pending)
        BY <2>1, <2>3, <3>2 DEF Owed
    <3>4. CASE AnswersLater(l, c)
      <4>1. PICK j \in DOMAIN messages :
                /\ j > l /\ IsTool(messages[j])
                /\ messages[j].ask = messages[l].ask /\ messages[j].call = c
          BY <3>4 DEF AnswersLater
      <4>2. PICK n \in 2..(Len(messages) - i + 2) : n = j - i + 2 /\ n > k
        <5>1. /\ j - i + 2 \in 2..(Len(messages) - i + 2) /\ j - i + 2 > k
            BY <1>0, <2>1, <3>1, <3>2, <4>1
        <5> QED BY <5>1
      <4>3. n \in DOMAIN messages' /\ messages'[n] = messages[j]
        <5>1. n + i - 2 = j
            BY <1>0, <2>1, <4>2
        <5> QED BY <2>2, <4>2, <5>1
      <4> QED BY <3>2, <4>1, <4>2, <4>3 DEF AnswersLater
    <3> QED BY <2>1, <3>2, <3>3, <3>4
  <2> QED BY <2>3 DEF Owed
<1>5. CASE ModelAnswers
  <2>1. /\ messages' = Append(messages, Answer) /\ UNCHANGED <<asks, abandoned, pending>>
        /\ Answer \in ToldMessage
      BY <1>5, NewMessages DEF ModelAnswers, counts, history, SeenMessage
  <2>2. /\ DOMAIN messages' = 1..(Len(messages) + 1)
        /\ \A i \in 1..Len(messages) : messages'[i] = messages[i]
        /\ messages'[Len(messages) + 1] = Answer
      BY <2>1, Appended
  <2>3. DOMAIN Answer.tools = {}
      BY <1>0 DEF Answer
  <2>4. ASSUME NEW i \in DOMAIN messages', messages'[i].type = "ai",
               messages'[i].ask \notin abandoned', NEW c \in DOMAIN messages'[i].tools
        PROVE  AnswersLater(i, c)' \/ (messages'[i].ask = asks' /\ c \in DOMAIN pending')
    <3>1. i \in 1..Len(messages) /\ messages'[i] = messages[i]
        BY <1>0, <2>2, <2>3, <2>4
    <3>2. AnswersLater(i, c) \/ (messages[i].ask = asks /\ c \in DOMAIN pending)
        BY <1>0, <2>1, <2>4, <3>1 DEF Owed
    <3>3. \A j \in DOMAIN messages : j \in DOMAIN messages' /\ messages'[j] = messages[j]
        BY <1>0, <2>2
    <3> QED BY <2>1, <3>1, <3>2, <3>3 DEF AnswersLater
  <2> QED BY <2>4 DEF Owed
<1>6. ASSUME NEW tools \in Asks, ModelAsks(tools) PROVE Owed'
  <2>1. /\ messages' = Append(messages, Asking(asks + 1, tools)) /\ asks' = asks + 1
        /\ pending' = tools /\ phase = "model" /\ UNCHANGED abandoned
      BY <1>6 DEF ModelAsks, history
  <2>2. Asking(asks + 1, tools) \in ToldMessage
      BY NewMessages, ConversationConstants DEF SeenMessage, Inv, TypeOK
  <2>3. /\ DOMAIN messages' = 1..(Len(messages) + 1)
        /\ \A i \in 1..Len(messages) : messages'[i] = messages[i]
        /\ messages'[Len(messages) + 1] = Asking(asks + 1, tools)
      BY <2>1, <2>2, Appended
  <2>4. DOMAIN pending = {}
      BY <2>1 DEF Places
  <2>5. ASSUME NEW i \in DOMAIN messages', messages'[i].type = "ai",
               messages'[i].ask \notin abandoned', NEW c \in DOMAIN messages'[i].tools
        PROVE  AnswersLater(i, c)' \/ (messages'[i].ask = asks' /\ c \in DOMAIN pending')
    <3>1. CASE i = Len(messages) + 1
        BY <2>1, <2>3, <2>5, <3>1 DEF Asking
    <3>2. CASE i \in 1..Len(messages)
      <4>1. AnswersLater(i, c)
          BY <1>0, <2>1, <2>3, <2>4, <2>5, <3>2 DEF Owed
      <4>2. \A j \in DOMAIN messages : j \in DOMAIN messages' /\ messages'[j] = messages[j]
          BY <1>0, <2>3
      <4> QED BY <1>0, <3>2, <4>1, <4>2 DEF AnswersLater
    <3> QED BY <1>0, <2>3, <3>1, <3>2
  <2> QED BY <2>5 DEF Owed
<1>7. CASE Reject
  <2>1. PICK i \in DOMAIN pending :
            /\ messages' = Append(messages, ToolMessage(asks, i, "query_database", Rejection))
            /\ pending' = Without(pending, i)
      BY <1>7 DEF Reject
  <2>2. PICK m : m = ToolMessage(asks, i, "query_database", Rejection)
      OBVIOUS
  <2>3. m \in ToldMessage
    <3>1. i \in Nat /\ asks \in Nat /\ "query_database" \in Tools
        BY DEF Inv, TypeOK, Positioned, Tools
    <3> QED BY <2>2, <3>1, NewToolMessage, RejectionIsTold DEF Inv
  <2>4. m.type # "ai" /\ IsTool(m) /\ m.ask = asks /\ m.call = i
      BY <2>2 DEF ToolMessage, IsTool
  <2>5. DOMAIN pending \ DOMAIN pending' \subseteq {i}
      BY <2>1 DEF Without
  <2>6. UNCHANGED <<asks, abandoned>>
      BY <1>7 DEF Reject, counts
  <2> QED BY <2>1, <2>2, <2>3, <2>4, <2>5, <2>6, OwedAppended
<1>8. CASE AddResults
  <2>1. PICK order \in Orders(DOMAIN pending) :
            /\ DOMAIN messages' = 1..(Len(messages) + Cardinality(DOMAIN pending))
            /\ \A i \in 1..Len(messages) : messages'[i] = messages[i]
            /\ \A k \in 1..Cardinality(DOMAIN pending) :
                  messages'[Len(messages) + k] =
                      ToolMessage(asks, order[k], pending[order[k]], results[order[k]])
      BY <1>8, Added
  <2>2. DOMAIN pending \subseteq Nat /\ IsFiniteSet(DOMAIN pending)
      BY DEF Inv, TypeOK, Positioned
  <2>3. PICK n \in Nat : n = Cardinality(DOMAIN pending)
      BY <2>1, <2>2, OrdersOf
  <2>4. \A c \in DOMAIN pending : \E k \in 1..n : order[k] = c
      BY <2>2, <2>3, OrdersOf
  <2>5. ASSUME NEW k \in 1..n
        PROVE  /\ Len(messages) + k \in DOMAIN messages'
               /\ messages'[Len(messages) + k].type = "tool"
               /\ messages'[Len(messages) + k].ask = asks
               /\ messages'[Len(messages) + k].call = order[k]
    <3>1. messages'[Len(messages) + k] =
              ToolMessage(asks, order[k], pending[order[k]], results[order[k]])
        BY <2>1, <2>3
    <3>2. Len(messages) + k \in 1..(Len(messages) + n)
        BY <1>0
    <3> QED BY <2>1, <2>3, <3>1, <3>2 DEF ToolMessage
  <2>6. ASSUME NEW i \in DOMAIN messages', messages'[i].type = "ai",
               messages'[i].ask \notin abandoned', NEW c \in DOMAIN messages'[i].tools
        PROVE  AnswersLater(i, c)'
    <3>1. i \in 1..Len(messages)
      <4>1. ASSUME i > Len(messages) PROVE FALSE
        <5>1. PICK k \in 1..n : i = Len(messages) + k
          <6>1. i - Len(messages) \in 1..n /\ i = Len(messages) + (i - Len(messages))
              BY <1>0, <2>1, <2>3, <4>1
          <6> QED BY <6>1
        <5> QED BY <2>5, <2>6, <5>1
      <4> QED BY <1>0, <2>1, <2>3, <4>1
    <3>2. messages'[i] = messages[i]
        BY <2>1, <3>1
    <3>3. AnswersLater(i, c) \/ (messages[i].ask = asks /\ c \in DOMAIN pending)
        BY <1>0, <1>8, <2>6, <3>1, <3>2 DEF Owed, AddResults
    <3>4. CASE AnswersLater(i, c)
      <4>1. \A j \in DOMAIN messages : j \in DOMAIN messages' /\ messages'[j] = messages[j]
          BY <1>0, <2>1, <2>3
      <4> QED BY <3>2, <3>4, <4>1 DEF AnswersLater
    <3>5. CASE messages[i].ask = asks /\ c \in DOMAIN pending
      <4>1. PICK k \in 1..n : order[k] = c
          BY <2>4, <3>5
      <4>2. Len(messages) + k > i
          BY <1>0, <3>1
      <4> QED BY <2>5, <3>2, <3>5, <4>1, <4>2 DEF AnswersLater, IsTool
    <3> QED BY <3>3, <3>4, <3>5
  <2> QED BY <2>6 DEF Owed
<1> QED
    BY <1>1, <1>2, <1>3, <1>4, <1>5, <1>6, <1>7, <1>8
    DEF Next, Stopped, Approve, DecisionsDiffer, GoOn, CallReturns, CallRaises, BreaksOff,
        run, counts, history

-----------------------------------------------------------------------------
(* StaleOnlyIfNothingNew: behind every chart of the thread there is one of *)
(* this turn, once this turn has its own.                                  *)

FreshIsLast ==
    "create_chart" \in fresh =>
        \A i \in DOMAIN messages : IsChart(messages[i]) =>
            \E j \in DOMAIN messages :
                j >= i /\ IsChart(messages[j]) /\ messages[j].turn = turn

Unanswered == ~Idle => reply = NoReply

Charts == FreshIsLast /\ Unanswered /\ StaleOnlyIfNothingNew

\* A set of positions has a last one.
LEMMA LastExists ==
    ASSUME NEW n \in Nat, NEW S, S \subseteq 1..n, S # {}
    PROVE  \E i \in S : \A j \in S : j <= i
<1> DEFINE T == {n - i : i \in S}
           R == OpToRel(<, Nat)
<1>1. T \subseteq Nat
    OBVIOUS
<1>2. T # {}
    OBVIOUS
<1>3. IsWellFoundedOn(R, Nat)
    BY NatLessThanWellFounded
<1>4. \A k, j \in Nat : k < j => <<k, j>> \in R
    BY DEF OpToRel
<1>5. PICK m \in T : \A k \in T : <<k, m>> \notin R
  <2> HIDE DEF T, R
  <2> QED BY <1>1, <1>2, <1>3, WFMin
<1>6. \A k \in T : ~(k < m)
  <2> HIDE DEF T, R
  <2> QED BY <1>1, <1>4, <1>5
<1>7. PICK x \in S : m = n - x
    BY <1>5
<1>8. ASSUME NEW i \in S PROVE i <= x
  <2>1. ~(n - i < n - x)
      BY <1>6, <1>7
  <2> QED BY <2>1
<1> QED BY <1>8

\* The chart that a reply takes from the thread.
LEMMA ChartDataOf ==
    ASSUME Inv, FreshIsLast, "create_chart" \in fresh
    PROVE  ChartData(messages) \in {0, turn}
<1> DEFINE found == {i \in DOMAIN messages : IsChart(messages[i])}
<1>1. CASE found = {}
    BY <1>1 DEF ChartData, LastOf, TurnOf
<1>2. CASE found # {}
  <2>1. found \subseteq 1..Len(messages) /\ Len(messages) \in Nat
      BY MessagesOf
  <2>2. \E i \in found : \A j \in found : j <= i
    <3> HIDE DEF found
    <3> QED BY <1>2, <2>1, LastExists
  <2>3. PICK last : last = CHOOSE i \in found : \A j \in found : j <= i
      OBVIOUS
  <2>4. last \in found /\ \A j \in found : j <= last
      BY <2>2, <2>3
  <2>5. PICK j \in found : j >= last /\ messages[j].turn = turn
      BY <2>4 DEF FreshIsLast
  <2>6. j = last
      BY <2>1, <2>4, <2>5
  <2>7. ChartData(messages) = TurnOf(messages, last)
      BY <1>2, <2>3 DEF ChartData, LastOf
  <2> QED BY <2>5, <2>6, <2>7 DEF TurnOf
<1> QED BY <1>1, <1>2

\* Another message that is no chart.
LEMMA FreshAppended ==
    ASSUME Inv, FreshIsLast, NEW m \in ToldMessage, messages' = Append(messages, m),
           UNCHANGED <<turn, fresh>>, ~IsChart(m)
    PROVE  FreshIsLast'
<1>1. /\ DOMAIN messages = 1..Len(messages) /\ Len(messages) \in Nat
      /\ DOMAIN messages' = 1..(Len(messages) + 1)
      /\ \A i \in 1..Len(messages) : messages'[i] = messages[i]
      /\ messages'[Len(messages) + 1] = m
    BY MessagesOf, Appended
<1>2. ASSUME "create_chart" \in fresh, NEW i \in DOMAIN messages', IsChart(messages'[i])
      PROVE  \E j \in DOMAIN messages' :
                 j >= i /\ IsChart(messages'[j]) /\ messages'[j].turn = turn
  <2>1. i \in DOMAIN messages /\ IsChart(messages[i])
      BY <1>1, <1>2
  <2>2. PICK j \in DOMAIN messages :
            j >= i /\ IsChart(messages[j]) /\ messages[j].turn = turn
      BY <1>2, <2>1 DEF FreshIsLast
  <2>3. j \in DOMAIN messages' /\ messages'[j] = messages[j]
      BY <1>1
  <2> QED BY <2>2, <2>3
<1> QED BY <1>2 DEF FreshIsLast, IsChart, IsTool

\* The results of create_chart are charts of this turn, if it succeeded.
LEMMA FreshAdded ==
    ASSUME Inv, Places, FreshIsLast, AddResults
    PROVE  FreshIsLast'
<1>0. DOMAIN messages = 1..Len(messages) /\ Len(messages) \in Nat
    BY MessagesOf
<1>1. PICK order \in Orders(DOMAIN pending) :
          /\ DOMAIN messages' = 1..(Len(messages) + Cardinality(DOMAIN pending))
          /\ \A i \in 1..Len(messages) : messages'[i] = messages[i]
          /\ \A k \in 1..Cardinality(DOMAIN pending) :
                messages'[Len(messages) + k] =
                    ToolMessage(asks, order[k], pending[order[k]], results[order[k]])
    BY Added
<1>2. DOMAIN pending \subseteq Nat /\ IsFiniteSet(DOMAIN pending)
    BY DEF Inv, TypeOK, Positioned
<1>3. PICK n \in Nat : n = Cardinality(DOMAIN pending)
    BY <1>2, OrdersOf
<1>4. order \in [1..n -> DOMAIN pending] /\ \A c \in DOMAIN pending : \E k \in 1..n : order[k] = c
    BY <1>2, <1>3, OrdersOf
<1>5. /\ DOMAIN pending = DOMAIN results /\ UNCHANGED turn
      /\ fresh' = fresh \cup {pending[i] : i \in {i \in DOMAIN results : results[i].ok}}
    BY DEF AddResults, counts
<1>6. ASSUME NEW k \in 1..n
      PROVE  /\ Len(messages) + k \in DOMAIN messages'
             /\ messages'[Len(messages) + k].type = "tool"
             /\ messages'[Len(messages) + k].tool = pending[order[k]]
             /\ messages'[Len(messages) + k].turn = turn
             /\ messages'[Len(messages) + k].result = results[order[k]]
  <2>1. Len(messages) + k \in DOMAIN messages'
      BY <1>0, <1>1, <1>3
  <2>2. messages'[Len(messages) + k] =
            ToolMessage(asks, order[k], pending[order[k]], results[order[k]])
      BY <1>1, <1>3
  <2> QED BY <2>1, <2>2 DEF ToolMessage
<1>7. ASSUME "create_chart" \in fresh', NEW i \in DOMAIN messages', IsChart(messages'[i])
      PROVE  \E j \in DOMAIN messages' :
                 j >= i /\ IsChart(messages'[j]) /\ messages'[j].turn = turn
  <2>1. CASE i > Len(messages)
    <3>1. PICK k \in 1..n : i = Len(messages) + k
      <4>1. i - Len(messages) \in 1..n /\ i = Len(messages) + (i - Len(messages))
          BY <1>0, <1>1, <1>3, <1>7, <2>1
      <4> QED BY <4>1
    <3> QED BY <1>0, <1>1, <1>3, <1>6, <1>7, <3>1
  <2>2. CASE i \in DOMAIN messages /\ "create_chart" \in fresh
    <3>1. IsChart(messages[i])
        BY <1>0, <1>1, <1>7, <2>2
    <3>2. PICK j \in DOMAIN messages :
              j >= i /\ IsChart(messages[j]) /\ messages[j].turn = turn
        BY <2>2, <3>1 DEF FreshIsLast
    <3>3. j \in DOMAIN messages' /\ messages'[j] = messages[j]
        BY <1>0, <1>1, <1>3
    <3> QED BY <3>2, <3>3
  <2>3. CASE i \in DOMAIN messages /\ "create_chart" \notin fresh
    <3>1. PICK p \in DOMAIN pending : pending[p] = "create_chart" /\ results[p].ok
        BY <1>5, <1>7, <2>3
    <3>2. results[p] \in Object
        BY <1>5, <3>1, ConversationConstants DEF Places
    <3>3. PICK k \in 1..n : order[k] = p
        BY <1>4
    <3>4. IsChart(messages'[Len(messages) + k])
        BY <1>6, <3>1, <3>2, <3>3 DEF IsChart, IsTool, Object
    <3>5. Len(messages) + k >= i
        BY <1>0, <2>3
    <3> QED BY <1>6, <3>4, <3>5
  <2> QED BY <1>0, <1>1, <1>3, <2>1, <2>2, <2>3
<1> QED BY <1>5, <1>7 DEF FreshIsLast, IsChart, IsTool

LEMMA StepFreshIsLast ==
    ASSUME Inv, Places, FreshIsLast, Next
    PROVE  FreshIsLast'
<1>0. DOMAIN messages = 1..Len(messages) /\ Len(messages) \in Nat
    BY MessagesOf
<1>1. ASSUME UNCHANGED <<messages, turn, fresh>> PROVE FreshIsLast'
    BY <1>1 DEF FreshIsLast, IsChart, IsTool
<1>2. ASSUME NEW text, NEW index, Query(text, index) PROVE FreshIsLast'
    BY <1>2 DEF Query, FreshIsLast
<1>3. CASE BeforeModel
  <2>1. messages' = CondenseResults(messages) /\ UNCHANGED <<turn, fresh>>
      BY <1>3 DEF BeforeModel, counts, history
  <2>2. /\ DOMAIN messages' = DOMAIN messages
        /\ \A i \in DOMAIN messages :
              /\ IsTool(messages[i]) => messages'[i].turn = messages[i].turn
              /\ IsChart(messages'[i]) <=> IsChart(messages[i])
      BY <2>1, Rewritten
  <2>3. ASSUME "create_chart" \in fresh, NEW i \in DOMAIN messages, IsChart(messages'[i])
        PROVE  \E j \in DOMAIN messages :
                   j >= i /\ IsChart(messages'[j]) /\ messages'[j].turn = turn
      BY <2>2, <2>3 DEF FreshIsLast, IsChart
  <2> QED BY <2>1, <2>2, <2>3 DEF FreshIsLast, IsChart, IsTool
<1>4. ASSUME NEW i \in DOMAIN messages, Summarize(i) PROVE FreshIsLast'
  <2>1. UNCHANGED <<turn, fresh>> /\ i \in Nat /\ i > 2 /\ i <= Len(messages)
      BY <1>0, <1>4 DEF Summarize, counts
  <2>2. /\ DOMAIN messages' = 1..(Len(messages) - i + 2)
        /\ messages'[1] = Summary
        /\ \A j \in 2..(Len(messages) - i + 2) :
              j + i - 2 \in DOMAIN messages /\ messages'[j] = messages[j + i - 2]
      BY <1>4, Summarized
  <2>3. ASSUME "create_chart" \in fresh, NEW k \in DOMAIN messages', IsChart(messages'[k])
        PROVE  \E j \in DOMAIN messages' :
                   j >= k /\ IsChart(messages'[j]) /\ messages'[j].turn = turn
    <3>1. k \in 2..(Len(messages) - i + 2)
        BY <1>0, <2>1, <2>2, <2>3 DEF Summary, IsChart, IsTool
    <3>2. PICK l \in DOMAIN messages : l = k + i - 2 /\ messages'[k] = messages[l]
        BY <2>2, <3>1
    <3>3. PICK j \in DOMAIN messages :
              j >= l /\ IsChart(messages[j]) /\ messages[j].turn = turn
        BY <2>3, <3>2 DEF FreshIsLast
    <3>4. PICK n \in 2..(Len(messages) - i + 2) : n = j - i + 2 /\ n >= k
      <4>1. j - i + 2 \in 2..(Len(messages) - i + 2) /\ j - i + 2 >= k
          BY <1>0, <2>1, <3>1, <3>2, <3>3
      <4> QED BY <4>1
    <3>5. n \in DOMAIN messages' /\ messages'[n] = messages[j]
      <4>1. n + i - 2 = j
          BY <1>0, <2>1, <3>4
      <4> QED BY <2>2, <3>4, <4>1
    <3> QED BY <3>3, <3>4, <3>5
  <2> QED BY <2>1, <2>3 DEF FreshIsLast, IsChart, IsTool
<1>5. CASE ModelAnswers
  <2>1. /\ messages' = Append(messages, Answer) /\ UNCHANGED <<turn, fresh>>
        /\ Answer \in ToldMessage /\ ~IsChart(Answer)
      BY <1>5, NewMessages
      DEF ModelAnswers, counts, history, SeenMessage, Answer, IsChart, IsTool
  <2> QED BY <2>1, FreshAppended
<1>6. ASSUME NEW tools \in Asks, ModelAsks(tools) PROVE FreshIsLast'
  <2>1. messages' = Append(messages, Asking(asks + 1, tools)) /\ UNCHANGED <<turn, fresh>>
      BY <1>6 DEF ModelAsks, history
  <2>2. Asking(asks + 1, tools) \in ToldMessage
      BY NewMessages, ConversationConstants DEF SeenMessage, Inv, TypeOK
  <2>3. ~IsChart(Asking(asks + 1, tools))
      BY DEF Asking, IsChart, IsTool
  <2> QED BY <2>1, <2>2, <2>3, FreshAppended
<1>7. CASE Reject
  <2>1. PICK i \in DOMAIN pending :
            messages' = Append(messages, ToolMessage(asks, i, "query_database", Rejection))
      BY <1>7 DEF Reject
  <2>2. ToolMessage(asks, i, "query_database", Rejection) \in ToldMessage
    <3>1. i \in Nat /\ asks \in Nat /\ "query_database" \in Tools
        BY DEF Inv, TypeOK, Positioned, Tools
    <3> QED BY <3>1, NewToolMessage, RejectionIsTold DEF Inv
  <2>3. ~IsChart(ToolMessage(asks, i, "query_database", Rejection))
      BY DEF ToolMessage, IsChart
  <2>4. UNCHANGED <<turn, fresh>>
      BY <1>7 DEF Reject, counts
  <2> QED BY <2>1, <2>2, <2>3, <2>4, FreshAppended
<1>8. CASE AddResults
    BY <1>8, FreshAdded
<1> QED
    BY <1>1, <1>2, <1>3, <1>4, <1>5, <1>6, <1>7, <1>8
    DEF Next, Stopped, Approve, DecisionsDiffer, GoOn, CallReturns, CallRaises, BreaksOff,
        run, counts, history

\* A reply that is an answer has its chart from the thread of that moment.
LEMMA StepCharts ==
    ASSUME Inv, Places, Charts, Next
    PROVE  Charts'
<1>1. Unanswered'
    BY DEF Charts, Unanswered, Next, Idle, Stopped, Query, BeforeModel, Summarize, ModelAnswers,
           ModelAsks, Approve, Reject, DecisionsDiffer, GoOn, CallReturns, CallRaises, AddResults,
           BreaksOff, Replies, run
<1>2. ASSUME reply' = reply PROVE StaleOnlyIfNothingNew'
  <2>1. CASE UNCHANGED <<turn, fresh>>
      BY <1>2, <2>1 DEF Charts, StaleOnlyIfNothingNew
  <2>2. CASE ~UNCHANGED <<turn, fresh>>
    <3>1. (\E text, index : Query(text, index)) \/ AddResults
        BY <2>2 DEF Next, Stopped, BeforeModel, Summarize, ModelAnswers, ModelAsks, Approve,
           Reject, DecisionsDiffer, GoOn, CallReturns, CallRaises, BreaksOff, run, counts,
           history
    <3>2. reply' = NoReply
        BY <1>2, <3>1 DEF Query, AddResults, Charts, Unanswered
    <3> QED BY <3>2 DEF NoReply, StaleOnlyIfNothingNew
  <2> QED BY <2>1, <2>2
<1>3. ASSUME reply' # reply, reply'.kind = "answer" PROVE StaleOnlyIfNothingNew'
  <2>1. /\ reply'.chart \in {0, ChartData(messages)}
        /\ UNCHANGED <<turn, fresh>>
    <3>1. ModelAnswers \/ \E tools \in Asks : ModelAsks(tools)
      <4>1. ASSUME NEW text, NEW index, Stopped(text, index) PROVE FALSE
          BY <1>3, <4>1 DEF Stopped, Gate, ShortCircuit, MaybeGate
      <4>2. ASSUME NEW text, NEW index, Query(text, index) PROVE FALSE
          BY <1>3, <4>2 DEF Query, NoReply
      <4>3. ASSUME NEW i, Summarize(i) \/ CallReturns(i) \/ CallRaises(i) PROVE FALSE
          BY <1>3, <4>3 DEF Summarize, CallReturns, CallRaises, Replies
      <4>4. ASSUME BeforeModel \/ AddResults \/ BreaksOff PROVE FALSE
          BY <1>3, <4>4 DEF BeforeModel, AddResults, BreaksOff, Replies
      <4>5. ASSUME Approve \/ Reject \/ DecisionsDiffer \/ GoOn PROVE FALSE
          BY <1>3, <4>5 DEF Approve, Reject, DecisionsDiffer, GoOn, NoReply
      <4> QED BY <4>1, <4>2, <4>3, <4>4, <4>5 DEF Next
    <3>2. CASE ModelAnswers
        BY <3>2 DEF ModelAnswers, Replies, counts, history
    <3>3. ASSUME NEW tools \in Asks, ModelAsks(tools)
          PROVE  reply'.chart \in {0, ChartData(messages)} /\ UNCHANGED <<turn, fresh>>
      <4>1. reply' = InterruptReply(handler) /\ UNCHANGED <<turn, fresh>>
          BY <1>3, <3>3 DEF ModelAsks, Replies, history
      <4>2. handler # "query"
          BY <1>3, <4>1 DEF InterruptReply
      <4> QED BY <4>1, <4>2 DEF InterruptReply
    <3> QED BY <3>1, <3>2, <3>3
  <2>2. "create_chart" \in fresh => ChartData(messages) \in {0, turn}
      BY ChartDataOf DEF Charts
  <2> QED BY <2>1, <2>2 DEF StaleOnlyIfNothingNew
<1>4. ASSUME reply'.kind # "answer" PROVE StaleOnlyIfNothingNew'
    BY <1>4 DEF StaleOnlyIfNothingNew
<1> QED BY <1>1, <1>2, <1>3, <1>4, StepFreshIsLast DEF Charts

-----------------------------------------------------------------------------
(* ShownIsLogged: a call is logged before its result can be in the thread, *)
(* and is not made again once it is.                                       *)

IsLast(records, n, c, r) ==
    \E k \in DOMAIN records :
        /\ records[k].ask = n /\ records[k].call = c
        /\ records[k].view = ModelView(r)
        /\ \A l \in DOMAIN records :
              records[l].ask = n /\ records[l].call = c => l <= k

Logged ==
    /\ \A i \in DOMAIN messages :
          IsTool(messages[i]) =>
              /\ messages[i].ask <= asks
              /\ messages[i].ask = asks => messages[i].call \notin DOMAIN pending
              /\ IsRejection(messages[i])
                 \/ IsLast(log, messages[i].ask, messages[i].call, messages[i].raw)
    /\ \A i \in DOMAIN results : IsLast(log, asks, i, results[i])

LEMMA LastKept ==
    ASSUME NEW records \in Seq(LogRecord), NEW rec \in LogRecord, NEW n, NEW c, NEW r,
           rec.ask # n \/ rec.call # c, IsLast(records, n, c, r)
    PROVE  IsLast(Append(records, rec), n, c, r)
<1>1. PICK new : new = Append(records, rec)
    OBVIOUS
<1>2. PICK len \in Nat : len = Len(records)
    BY LenProperties
<1>3. /\ DOMAIN records = 1..len /\ DOMAIN new = 1..(len + 1)
      /\ new[len + 1] = rec /\ \A k \in 1..len : new[k] = records[k]
    BY <1>1, <1>2, AppendProperties, LenProperties
<1>4. PICK k \in 1..len :
          /\ records[k].ask = n /\ records[k].call = c /\ records[k].view = ModelView(r)
          /\ \A l \in 1..len : records[l].ask = n /\ records[l].call = c => l <= k
    BY <1>3 DEF IsLast
<1>5. ASSUME NEW l \in 1..(len + 1), new[l].ask = n, new[l].call = c PROVE l <= k
  <2>1. l # len + 1
      BY <1>3, <1>5
  <2>2. l \in 1..len
      BY <2>1
  <2> QED BY <1>3, <1>4, <1>5, <2>2
<1>6. k \in 1..(len + 1) /\ new[k] = records[k]
    BY <1>3
<1> QED BY <1>1, <1>3, <1>4, <1>5, <1>6 DEF IsLast

LEMMA LastNew ==
    ASSUME NEW records \in Seq(LogRecord), NEW rec \in LogRecord, NEW r,
           rec.view = ModelView(r)
    PROVE  IsLast(Append(records, rec), rec.ask, rec.call, r)
<1>1. PICK new : new = Append(records, rec)
    OBVIOUS
<1>2. PICK len \in Nat : len = Len(records)
    BY LenProperties
<1>3. DOMAIN new = 1..(len + 1) /\ new[len + 1] = rec
    BY <1>1, <1>2, AppendProperties, LenProperties
<1>4. len + 1 \in DOMAIN new /\ \A l \in DOMAIN new : l <= len + 1
    BY <1>3
<1> QED BY <1>1, <1>3, <1>4 DEF IsLast

\* Steps after which each result in the thread was there before, and none has come
\* from a tool.
LEMMA LoggedOn ==
    ASSUME Inv, Logged, UNCHANGED log,
           \/ UNCHANGED asks /\ DOMAIN pending' \subseteq DOMAIN pending
           \/ asks' = asks + 1 /\ DOMAIN results' = {},
           \A i \in DOMAIN results' : i \in DOMAIN results /\ results'[i] = results[i],
           \A i \in DOMAIN messages' : IsTool(messages'[i]) =>
               \E j \in DOMAIN messages :
                   /\ IsTool(messages[j])
                   /\ messages'[i].ask = messages[j].ask /\ messages'[i].call = messages[j].call
                   /\ messages'[i].raw = messages[j].raw
    PROVE  Logged'
<1>1. ASSUME NEW i \in DOMAIN messages', IsTool(messages'[i])
      PROVE  /\ messages'[i].ask <= asks'
             /\ messages'[i].ask = asks' => messages'[i].call \notin DOMAIN pending'
             /\ \/ IsTool(messages'[i]) /\ messages'[i].raw = Rejection
                \/ IsLast(log', messages'[i].ask, messages'[i].call, messages'[i].raw)
  <2>1. PICK j \in DOMAIN messages :
            /\ IsTool(messages[j])
            /\ messages'[i].ask = messages[j].ask /\ messages'[i].call = messages[j].call
            /\ messages'[i].raw = messages[j].raw
      BY <1>1
  <2>2. messages[j] \in Message
      BY MessagesOf
  <2>3. messages[j].ask \in Nat /\ asks \in Nat
      BY <2>1, <2>2 DEF Message, IsTool, Inv, TypeOK
  <2>4. /\ messages[j].ask <= asks
        /\ messages[j].ask = asks => messages[j].call \notin DOMAIN pending
        /\ \/ messages[j].raw = Rejection
           \/ IsLast(log, messages[j].ask, messages[j].call, messages[j].raw)
      BY <2>1 DEF Logged, IsRejection
  <2> QED BY <1>1, <2>1, <2>3, <2>4
<1>2. ASSUME NEW i \in DOMAIN results' PROVE IsLast(log', asks', i, results'[i])
    BY <1>2 DEF Logged
<1> QED BY <1>1, <1>2 DEF Logged, IsRejection

LEMMA StepLogged ==
    ASSUME Inv, Places, Logged, Next
    PROVE  Logged'
<1>0. /\ DOMAIN messages = 1..Len(messages) /\ Len(messages) \in Nat /\ DOMAIN <<>> = {}
      /\ asks \in Nat /\ log \in Seq(LogRecord)
    BY MessagesOf DEF Inv, TypeOK
<1>1. ASSUME UNCHANGED <<messages, pending, asks, log>>,
             \A i \in DOMAIN results' : i \in DOMAIN results /\ results'[i] = results[i]
      PROVE  Logged'
    BY <1>1, LoggedOn
<1>2. ASSUME NEW m \in ToldMessage, messages' = Append(messages, m), ~IsTool(m)
      PROVE  \A i \in DOMAIN messages' : IsTool(messages'[i]) =>
                 i \in DOMAIN messages /\ messages'[i] = messages[i] /\ IsTool(messages[i])
  <2>1. /\ DOMAIN messages' = 1..(Len(messages) + 1)
        /\ \A i \in 1..Len(messages) : messages'[i] = messages[i]
        /\ messages'[Len(messages) + 1] = m
      BY <1>2, Appended
  <2>2. ASSUME NEW i \in DOMAIN messages', IsTool(messages'[i])
        PROVE  i \in DOMAIN messages /\ messages'[i] = messages[i] /\ IsTool(messages[i])
    <3>1. i # Len(messages) + 1
        BY <1>2, <2>1, <2>2
    <3>2. i \in 1..Len(messages)
        BY <1>0, <2>1, <3>1
    <3> QED BY <1>0, <2>1, <2>2, <3>2
  <2> QED BY <2>2
<1>3. ASSUME NEW text, NEW index, Query(text, index) PROVE Logged'
  <2>1. /\ messages' = Append(messages, User) /\ UNCHANGED <<log, asks>>
        /\ pending' = <<>> /\ results' = <<>> /\ User \in ToldMessage /\ ~IsTool(User)
      BY <1>3, NewMessages DEF Query, SeenMessage, User, IsTool
  <2> QED BY <1>0, <1>2, <2>1, LoggedOn
<1>4. CASE BeforeModel
  <2>1. /\ messages' = CondenseResults(messages) /\ UNCHANGED <<log, asks, pending, results>>
      BY <1>4 DEF BeforeModel, counts
  <2> QED BY <2>1, Rewritten, LoggedOn
<1>5. CASE ModelAnswers
  <2>1. /\ messages' = Append(messages, Answer) /\ UNCHANGED <<log, asks, pending, results>>
        /\ Answer \in ToldMessage /\ ~IsTool(Answer)
      BY <1>5, NewMessages DEF ModelAnswers, SeenMessage, Answer, IsTool, counts
  <2> QED BY <1>2, <2>1, LoggedOn
<1>6. ASSUME NEW tools \in Asks, ModelAsks(tools) PROVE Logged'
  <2>1. /\ messages' = Append(messages, Asking(asks + 1, tools)) /\ UNCHANGED log
        /\ asks' = asks + 1 /\ results' = <<>>
      BY <1>6 DEF ModelAsks
  <2>2. Asking(asks + 1, tools) \in ToldMessage
      BY NewMessages, ConversationConstants DEF SeenMessage, Inv, TypeOK
  <2>3. ~IsTool(Asking(asks + 1, tools))
      BY DEF Asking, IsTool
  <2> QED BY <1>0, <1>2, <2>1, <2>2, <2>3, LoggedOn
<1>7. CASE Approve \/ DecisionsDiffer \/ BreaksOff
    BY <1>1, <1>7 DEF Approve, DecisionsDiffer, BreaksOff, run, counts
<1>8. CASE GoOn
  <2>1. PICK kept \in SUBSET DOMAIN results : results' = [i \in kept |-> results[i]]
      BY <1>8 DEF GoOn
  <2> QED BY <1>1, <1>8, <2>1 DEF GoOn, counts
<1>9. ASSUME NEW i \in DOMAIN messages, Summarize(i) PROVE Logged'
  <2>1. /\ DOMAIN messages' = 1..(Len(messages) - i + 2)
        /\ messages'[1] = Summary
        /\ \A j \in 2..(Len(messages) - i + 2) :
              j + i - 2 \in DOMAIN messages /\ messages'[j] = messages[j + i - 2]
      BY <1>9, Summarized
  <2>2. ASSUME NEW j \in DOMAIN messages', IsTool(messages'[j])
        PROVE  \E l \in DOMAIN messages : messages'[j] = messages[l]
    <3>1. j # 1
        BY <2>1, <2>2 DEF Summary, IsTool
    <3>2. j \in 2..(Len(messages) - i + 2)
        BY <1>0, <2>1, <3>1
    <3> QED BY <2>1, <3>2
  <2>3. UNCHANGED <<log, asks, pending, results>>
      BY <1>9 DEF Summarize, run, counts
  <2> QED BY <2>2, <2>3, LoggedOn DEF IsTool
<1>10. CASE Reject
  <2>1. PICK i \in DOMAIN pending :
            /\ messages' = Append(messages, ToolMessage(asks, i, "query_database", Rejection))
            /\ pending' = Without(pending, i)
      BY <1>10 DEF Reject
  <2>2. UNCHANGED <<log, asks, results>> /\ DOMAIN pending' = DOMAIN pending \ {i}
      BY <1>10, <2>1 DEF Reject, counts, Without
  <2>3. PICK m \in ToldMessage : m = ToolMessage(asks, i, "query_database", Rejection)
    <3>1. i \in Nat /\ "query_database" \in Tools
        BY DEF Inv, TypeOK, Positioned, Tools
    <3> QED BY <1>0, <3>1, NewToolMessage, RejectionIsTold DEF Inv
  <2>4. m.ask = asks /\ m.call = i /\ IsRejection(m)
      BY <2>3 DEF ToolMessage, IsRejection, IsTool
  <2>5. /\ DOMAIN messages' = 1..(Len(messages) + 1)
        /\ \A j \in 1..Len(messages) : messages'[j] = messages[j]
        /\ messages'[Len(messages) + 1] = m
      BY <2>1, <2>3, Appended
  <2>6. ASSUME NEW j \in DOMAIN messages', IsTool(messages'[j])
        PROVE  /\ messages'[j].ask <= asks
               /\ messages'[j].ask = asks => messages'[j].call \notin DOMAIN pending'
               /\ \/ messages'[j].raw = Rejection
                  \/ IsLast(log, messages'[j].ask, messages'[j].call, messages'[j].raw)
    <3>1. CASE j = Len(messages) + 1
        BY <1>0, <2>2, <2>4, <2>5, <3>1 DEF IsRejection
    <3>2. CASE j \in 1..Len(messages)
        BY <1>0, <2>2, <2>5, <2>6, <3>2 DEF Logged, IsRejection
    <3> QED BY <1>0, <2>5, <3>1, <3>2
  <2> QED BY <2>2, <2>6 DEF Logged, IsRejection
<1>11. ASSUME NEW i \in DOMAIN pending, CallReturns(i) \/ CallRaises(i) PROVE Logged'
  <2>1. PICK rec \in LogRecord : log' = Append(log, rec) /\ rec.ask = asks /\ rec.call = i
      BY <1>11, CallIsLogged DEF Inv
  <2>2. UNCHANGED <<messages, pending, asks>> /\ i \notin DOMAIN results
      BY <1>11 DEF CallReturns, CallRaises, counts
  <2>3. ASSUME NEW n, NEW c, NEW r, n # asks \/ c # i, IsLast(log, n, c, r)
        PROVE  IsLast(log', n, c, r)
      BY <1>0, <2>1, <2>3, LastKept
  <2>4. ASSUME NEW j \in DOMAIN messages', IsTool(messages'[j])
        PROVE  /\ messages'[j].ask <= asks
               /\ messages'[j].ask = asks => messages'[j].call \notin DOMAIN pending
               /\ \/ messages'[j].raw = Rejection
                  \/ IsLast(log', messages'[j].ask, messages'[j].call, messages'[j].raw)
    <3>1. messages'[j] = messages[j] /\ j \in DOMAIN messages
        BY <2>2
    <3>2. /\ messages[j].ask <= asks
          /\ messages[j].ask = asks => messages[j].call \notin DOMAIN pending
          /\ \/ messages[j].raw = Rejection
             \/ IsLast(log, messages[j].ask, messages[j].call, messages[j].raw)
        BY <2>4, <3>1 DEF Logged, IsRejection
    <3>3. messages[j].ask # asks \/ messages[j].call # i
        BY <3>2
    <3> QED BY <2>3, <3>1, <3>2, <3>3
  <2>5. ASSUME NEW j \in DOMAIN results' PROVE IsLast(log', asks, j, results'[j])
    <3>1. CASE j \in DOMAIN results /\ results'[j] = results[j]
      <4>1. IsLast(log, asks, j, results[j]) /\ j # i
          BY <2>2, <3>1 DEF Logged
      <4> QED BY <2>3, <3>1, <4>1
    <3>2. CASE ~(j \in DOMAIN results /\ results'[j] = results[j])
      <4>1. CallReturns(i)
          BY <1>11, <3>2 DEF CallRaises
      <4>2. PICK r : /\ results' = [k \in DOMAIN results \cup {i} |->
                                       IF k = i THEN r ELSE results[k]]
                     /\ log' = Append(log, Record(i, r)) /\ r \in Results[pending[i]]
          BY <4>1 DEF CallReturns, LogCall
      <4>3. j = i /\ results'[j] = r
          BY <2>2, <3>2, <4>2
      <4>4. PICK own : /\ own = Record(i, r)
                       /\ own.ask = asks /\ own.call = i /\ own.view = ModelView(r)
        <5>1. PICK v : v = ModelView(r)
            OBVIOUS
        <5>2. Record(i, r) = [ask |-> asks, call |-> i, success |-> TRUE, view |-> v]
            BY <5>1 DEF Record
        <5> QED BY <5>1, <5>2
      <4>5. own \in LogRecord
        <5>1. pending[i] \in Tools
            BY DEF Inv, TypeOK, Positioned
        <5>2. r \in Result
            BY <4>2, <5>1, ConversationConstants, RawIsTold DEF ToldResult
        <5>3. ModelView(r) \in Result
            BY <5>2, ReprOf, CondenseOf DEF ModelView
        <5>4. i \in Nat
            BY DEF Inv, TypeOK, Positioned
        <5> QED BY <1>0, <4>4, <5>3, <5>4 DEF Record, LogRecord
      <4> QED BY <1>0, <4>2, <4>3, <4>4, <4>5, LastNew
    <3> QED BY <3>1, <3>2
  <2> QED BY <2>2, <2>4, <2>5 DEF Logged, IsRejection
<1>12. CASE AddResults
  <2>1. /\ DOMAIN pending = DOMAIN results /\ pending' = <<>> /\ results' = <<>>
        /\ UNCHANGED <<asks, log>>
      BY <1>12 DEF AddResults, counts
  <2>2. PICK order \in Orders(DOMAIN pending) :
            /\ DOMAIN messages' = 1..(Len(messages) + Cardinality(DOMAIN pending))
            /\ \A i \in 1..Len(messages) : messages'[i] = messages[i]
            /\ \A k \in 1..Cardinality(DOMAIN pending) :
                  messages'[Len(messages) + k] =
                      ToolMessage(asks, order[k], pending[order[k]], results[order[k]])
      BY <1>12, Added
  <2>3. PICK n \in Nat : n = Cardinality(DOMAIN pending)
      BY OrdersOf DEF Inv, TypeOK, Positioned
  <2>4. order \in [1..n -> DOMAIN pending]
      BY <2>3 DEF Orders
  <2>5. ASSUME NEW j \in DOMAIN messages', IsTool(messages'[j])
        PROVE  /\ messages'[j].ask <= asks
               /\ \/ messages'[j].raw = Rejection
                  \/ IsLast(log, messages'[j].ask, messages'[j].call, messages'[j].raw)
    <3>1. CASE j \in 1..Len(messages)
        BY <1>0, <2>2, <2>5, <3>1 DEF Logged, IsRejection
    <3>2. CASE j \notin 1..Len(messages)
      <4>1. PICK k \in 1..n : j = Len(messages) + k
        <5>1. j \in 1..(Len(messages) + n)
            BY <2>2, <2>3
        <5>2. j - Len(messages) \in 1..n
            BY <1>0, <3>2, <5>1
        <5> QED BY <1>0, <5>1, <5>2
      <4>2. messages'[j] = ToolMessage(asks, order[k], pending[order[k]], results[order[k]])
          BY <2>2, <2>3, <4>1
      <4>3. messages'[j].ask = asks /\ messages'[j].call = order[k]
            /\ messages'[j].raw = results[order[k]]
          BY <4>2 DEF ToolMessage
      <4>4. order[k] \in DOMAIN results
          BY <2>1, <2>4
      <4> QED BY <1>0, <4>3, <4>4 DEF Logged
    <3> QED BY <3>1, <3>2
  <2> QED BY <1>0, <2>1, <2>5 DEF Logged, IsRejection
<1> QED
    BY <1>1, <1>3, <1>4, <1>5, <1>6, <1>7, <1>8, <1>9, <1>10, <1>11, <1>12
    DEF Next, Stopped, run, counts

-----------------------------------------------------------------------------

\* All of it holds of all states that are reached.
LEMMA InitAll ==
    ASSUME Init
    PROVE  Places /\ Owed /\ Charts /\ Logged
<1>1. DOMAIN <<>> = {} /\ Len(<<>>) = 0
    OBVIOUS
<1>2. Places /\ Owed /\ Charts
    BY <1>1 DEF Init, Places, Owed, Charts, FreshIsLast, Unanswered, StaleOnlyIfNothingNew, Idle,
                NoReply
<1>3. Logged
    BY <1>1 DEF Init, Logged
<1> QED BY <1>2, <1>3

LEMMA StepAll ==
    ASSUME Inv, Places, Owed, Charts, Logged, [Next]_vars
    PROVE  Places' /\ Owed' /\ Charts' /\ Logged'
<1>1. CASE UNCHANGED vars
  <2>1. /\ UNCHANGED <<messages, phase, handler, pending, results, turn, asks, breaks, reply>>
        /\ UNCHANGED <<fresh, abandoned, log>>
      BY <1>1 DEF vars, run, counts, history
  <2>2. Places' /\ Owed'
      BY <2>1 DEF Places, Owed, AnswersLater, IsTool
  <2>3. Charts'
      BY <2>1 DEF Charts, FreshIsLast, IsChart, IsTool, Unanswered, StaleOnlyIfNothingNew, Idle
  <2>4. Logged'
      BY <2>1 DEF Logged, IsTool, IsRejection
  <2> QED BY <2>2, <2>3, <2>4
<1>2. CASE Next
    BY <1>2, StepPlaces, StepOwed, StepCharts, StepLogged
<1> QED BY <1>1, <1>2

LEMMA AllInvariance == Spec => [](Inv /\ Places /\ Owed /\ Charts /\ Logged)
<1>1. Init => Places /\ Owed /\ Charts /\ Logged
    BY InitAll
<1>2. Inv /\ Places /\ Owed /\ Charts /\ Logged /\ [Next]_vars
          => Places' /\ Owed' /\ Charts' /\ Logged'
    BY StepAll
<1> QED BY <1>1, <1>2, Invariance, PTL DEF Spec

-----------------------------------------------------------------------------

(* Every variable keeps its type. *)
THEOREM Typing == Spec => []TypeOK
<1>1. Inv => TypeOK
    BY DEF Inv
<1> QED BY <1>1, Invariance, PTL

(* A table that lacks rows says how many, however often it is condensed    *)
(* (middleware/truncation.py:79-95), in a note that is cut itself only     *)
(* where cells may not be as long as it is (:86-87).                       *)
THEOREM WhatIsCutIsTold == Spec => []CutIsTold
<1>1. ASSUME Inv, NEW m \in Shown, m.result.kind = "table"
      PROVE  /\ m.result.note.rows = m.result.total - m.result.shown
             /\ m.result.note.text.says # 0 =>
                   /\ m.result.shown < m.result.total
                   /\ Noted(m.result.total).text.len > MaxCell
  <2>1. IsTold(m.result)
      BY <1>1, ShownOf DEF Inv, Told, ToldMessage
  <2>2. Noted(m.result.total).text.says = 0
      BY DEF Noted
  <2>3. m.result.shown = m.result.total \/ m.result.shown < m.result.total
      BY <1>1, <2>1 DEF IsTold
  <2> QED BY <1>1, <2>1, <2>2, <2>3 DEF IsTold
<1>2. Inv => CutIsTold
    BY <1>1 DEF CutIsTold
<1> QED BY <1>2, Invariance, PTL

(* Whenever the model is called, the tables and the texts it is shown are  *)
(* within the limits but for the marks (agent/analyst_agent.py, the        *)
(* before_model hook that condenses them all), also where the thread has   *)
(* been summarized.                                                        *)
THEOREM ViewIsBounded == Spec => []TablesAndTextsAreBounded
<1>1. ASSUME Inv, phase = "model", NEW m \in Shown
      PROVE  IsBounded(m.result)
    BY <1>1, ShownOf DEF Inv, Seen, SeenMessage
<1>2. Inv => TablesAndTextsAreBounded
    BY <1>1 DEF TablesAndTextsAreBounded, IsBounded
<1> QED BY <1>2, Invariance, PTL

(* Four condensings of a result are enough, whatever the limits are: the   *)
(* fifth changes nothing (middleware/truncation.py:46-97, applied again    *)
(* before every call of the model).                                        *)
THEOREM RewritingEnds == Spec => []RewritingSettles
<1>1. ASSUME Inv, NEW m \in Shown, m.passes = 4
      PROVE  Condense(m.result) = m.result
    BY <1>1, ShownOf DEF Inv, Told, ToldMessage, Passed
<1>2. Inv => RewritingSettles
    BY <1>1 DEF RewritingSettles
<1> QED BY <1>2, Invariance, PTL

(* When the model is called all calls it has made before are answered,     *)
(* however the runs broke off, resumed or were rejected and whatever was   *)
(* summarized, except those of an abandoned turn (api/routes.py, /query on *)
(* a thread that waits).                                                   *)
THEOREM AllAreAnswered == Spec => []AnsweredUnlessAbandoned
<1>1. ASSUME Inv, Places, Owed, phase = "model", NEW i \in DOMAIN messages,
             messages[i].type = "ai", messages[i].ask \notin abandoned,
             NEW c \in DOMAIN messages[i].tools
      PROVE  \E m \in Shown : m.ask = messages[i].ask /\ m.call = c
  <2>1. DOMAIN pending = {}
      BY <1>1 DEF Places
  <2>2. PICK j \in DOMAIN messages :
            /\ IsTool(messages[j])
            /\ messages[j].ask = messages[i].ask /\ messages[j].call = c
      BY <1>1, <2>1 DEF Owed, AnswersLater
  <2> QED BY <2>2 DEF Shown
<1>2. Inv /\ Places /\ Owed => AnsweredUnlessAbandoned
    BY <1>1 DEF AnsweredUnlessAbandoned
<1> QED BY <1>2, AllInvariance, PTL

(* The chart of a reply is that of an earlier turn only if this turn has   *)
(* made none, although the whole thread is searched                        *)
(* (api/routes.py:226-255).                                                *)
THEOREM ChartIsOfThisTurn == Spec => []StaleOnlyIfNothingNew
<1>1. Charts => StaleOnlyIfNothingNew
    BY DEF Charts
<1> QED BY <1>1, AllInvariance, PTL

(* What the model sees of a tool is in tool_calls.jsonl, with the view of  *)
(* the result that is in the thread as the last one of its call, however   *)
(* calls overlapped, runs broke off and went on and the thread was         *)
(* condensed and summarized (middleware/logging_wrapper.py:42-52).         *)
THEOREM LogTells == Spec => []ShownIsLogged
<1>1. ASSUME Inv, Logged, NEW m \in Shown, ~IsRejection(m)
      PROVE  IsLast(log, m.ask, m.call, m.raw)
  <2>1. PICK i \in DOMAIN messages : IsTool(messages[i]) /\ m = messages[i]
      BY DEF Shown
  <2> QED BY <1>1, <2>1 DEF Logged
<1>2. Inv /\ Logged => ShownIsLogged
    BY <1>1 DEF ShownIsLogged, IsLast, Rebuilt
<1> QED BY <1>2, AllInvariance, PTL
=============================================================================
