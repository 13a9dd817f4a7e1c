---------------------------- MODULE DnsMessages -----------------------------
(***************************************************************************)
(* vzctl dns query: one request over UDP and the decoding of its answer,   *)
(* byte by byte, with compressed names. The answer is whatever one datagram *)
(* holds: a good answer, one cut short, one of another request, or one      *)
(* whose name pointers lead anywhere, into themselves too. A name is the    *)
(* text of its labels, a sequence of bytes; so is the name that is asked.   *)
(***************************************************************************)
EXTENDS Integers, FiniteSets, SequencesExt

CONSTANTS DmTypes,    \* the types that are asked for, of A (1), PTR (12) and AAAA (28)
          MaxAnswers, \* bound: answers announced by a packet
          NoDm        \* no result yet, and a name that cannot be read

VARIABLE dm  \* [name, type, packet, pc, offset, cursor, jumped, jumps, labels, left, rec, answers, result]

DNS_HEADER_LENGTH == 12
DmId == 7
DmDot == 46

-----------------------------------------------------------------------------
(* The request.                                                            *)

DmAt(p, i) == p[i + 1]
DmHas(p, i) == i >= 0 /\ i < Len(p)
read_u16(p, i) == IF DmHas(p, i + 1) /\ DmHas(p, i) THEN DmAt(p, i) * 256 + DmAt(p, i + 1) ELSE -1
DmU16(n) == <<n \div 256, n % 256>>

\* Text and its labels.
RECURSIVE DmSplit(_)
DmSplit(text) ==
  IF \A i \in DOMAIN text : text[i] # DmDot THEN <<text>>
  ELSE LET i == CHOOSE i \in DOMAIN text : text[i] = DmDot /\ \A j \in 1..(i - 1) : text[j] # DmDot
       IN  <<SubSeq(text, 1, i - 1)>> \o DmSplit(SubSeq(text, i + 1, Len(text)))
DmJoin(labels) == IF labels = << >> THEN << >> ELSE Tail(FlattenSeq([i \in DOMAIN labels |-> <<DmDot>> \o labels[i]]))
to_ascii_lowercase(text) == [i \in DOMAIN text |-> IF text[i] \in 65..90 THEN text[i] + 32 ELSE text[i]]

\* from_utf8, as far as the packets have it: a byte, or a lead byte and the one it announces.
from_utf8(bytes) ==
  \A i \in DOMAIN bytes :
    \/ bytes[i] < 128
    \/ bytes[i] \in 194..223 /\ i < Len(bytes) /\ bytes[i + 1] \in 128..191
    \/ bytes[i] \in 128..191 /\ i > 1 /\ bytes[i - 1] \in 194..223

\* A length and the bytes of each label, and a zero byte.
DmName(labels) == FlattenSeq([i \in DOMAIN labels |-> <<Len(labels[i])>> \o labels[i]]) \o <<0>>

\* In lower case, without the dots at the end.
DmCanonical(typed) ==
  to_ascii_lowercase(SubSeq(typed, 1, Len(typed) - Cardinality({i \in DOMAIN typed : \A j \in i..Len(typed) : typed[j] = DmDot})))

\* Names have at least one label, and no empty one.
validate_query_name(canonical) == canonical # << >> /\ \A i \in DOMAIN DmSplit(canonical) : DmSplit(canonical)[i] # << >>

build_query(name, type) ==
  DmU16(DmId) \o DmU16(256) \o DmU16(1) \o DmU16(0) \o DmU16(0) \o DmU16(0) \o DmName(DmSplit(name)) \o DmU16(type) \o DmU16(1)

-----------------------------------------------------------------------------
(* What comes back.                                                        *)

DmHeader(id, qr, qd, an) == DmU16(id) \o <<IF qr THEN 128 ELSE 0, 0>> \o DmU16(qd) \o DmU16(an) \o DmU16(0) \o DmU16(0)
DmQuestion(name, type, class) == name \o DmU16(type) \o DmU16(class)

\* Names of answers: in full, a label with a dot in it and one that is no
\* text, a pointer to the question, a label and a pointer, a pointer to
\* itself, past the end, and a label and a pointer back.
DmAnswerNames(at) ==
  {DmName(<<<<97>>>>), DmName(<<<<97, 46, 195, 164>>>>), DmName(<<<<195>>>>), <<192, 12>>, <<1, 98, 192, 12>>, <<192, at>>,
   <<192, 250>>, <<1, 97, 192, at>>, <<64, 0>>, <<192, 2>>}

\* Addresses, addresses of a wrong length, names in full and compressed, text.
DmAnswerData(at) ==
  {<<1, <<10, 0, 0, 1>>>>, <<1, <<10, 0>>>>, <<28, [i \in 1..16 |-> i]>>, <<28, <<10, 0, 0, 1>>>>, <<12, DmName(<<<<98>>>>)>>,
   <<5, <<192, 12>>>>, <<2, <<192, at>>>>, <<16, <<1, 97>>>>}

DmAnswer(name, rr) == name \o DmU16(rr[1]) \o DmU16(1) \o <<0, 0, 0, 60>> \o DmU16(Len(rr[2])) \o rr[2]

DmPackets(name, type) ==
  LET wire == DmName(DmSplit(name))
      q == DmHeader(DmId, TRUE, 1, 0) \o DmQuestion(wire, type, 1)
      one == {DmHeader(DmId, TRUE, 1, n) \o DmQuestion(wire, type, 1) \o DmAnswer(a, rr) :
                n \in 0..MaxAnswers, a \in DmAnswerNames(Len(q)), rr \in DmAnswerData(Len(q))}
      cut == {SubSeq(p, 1, n) : p \in one, n \in {Len(q) - 3, Len(q) + 1, Len(q) + 5, Len(q) + 11, Len(q) + 13}}
      \* Questions: another name, the same text in one label, in upper case, no
      \* text, a pointer to itself, and another type or class.
      questions == {DmQuestion(DmName(<<<<99>>>>), type, 1), DmQuestion(DmName(<<name>>), type, 1), DmQuestion(DmName(<<<<195>>>>), type, 1),
                    DmQuestion(DmName(DmSplit([i \in DOMAIN name |-> IF name[i] = DmDot THEN DmDot ELSE name[i] - 32])), type, 1),
                    DmQuestion(<<192, 12>>, type, 1), DmQuestion(wire, type + 1, 1), DmQuestion(wire, type, 3)}
  IN  one \cup cut \cup {DmHeader(DmId, TRUE, 1, 0) \o x : x \in questions} \cup
      {DmHeader(DmId + 1, TRUE, 1, 0) \o DmQuestion(wire, type, 1), DmHeader(DmId, FALSE, 1, 0) \o DmQuestion(wire, type, 1),
       DmHeader(DmId, TRUE, 2, 0) \o DmQuestion(wire, type, 1), <<0, DmId>>}

\* What is typed: nothing, a dot, one label, two, with a dot at the end or an empty label.
DmNames == {<< >>, <<46>>, <<97>>, <<65, 46, 66, 46>>, <<97, 46, 46, 98>>}

DmStart(name, type) ==
  [name |-> name, type |-> type, packet |-> build_query(name, type), pc |-> "ask", offset |-> 0, cursor |-> 0, jumped |-> FALSE,
   jumps |-> 0, labels |-> << >>, left |-> 0, rec |-> << >>, answers |-> << >>, result |-> NoDm]
DmInit == \E typed \in DmNames, type \in DmTypes : dm = DmStart(DmCanonical(typed), type)

-----------------------------------------------------------------------------
(* Decoding.                                                               *)

DmEnd(result) == dm' = [dm EXCEPT !.pc = "done", !.result = result]
DmFail == DmEnd([ok |-> FALSE, sent |-> dm.pc # "ask", answers |-> << >>])

\* Begin a name at an offset; pc says what it is the name of.
DmBegin(s, pc, at) == [s EXCEPT !.pc = pc, !.offset = at, !.cursor = at, !.jumped = FALSE, !.jumps = 0, !.labels = << >>]

\* The name is checked before anything is sent; one datagram is received, or
\* the timeout ends the query.
execute_query ==
  /\ dm.pc = "ask"
  /\ IF ~validate_query_name(dm.name) THEN DmFail
     ELSE DmFail \/ \E p \in DmPackets(dm.name, dm.type) : dm' = [dm EXCEPT !.packet = p, !.pc = "header"]

\* The header: this request's, a response, one question.
parse_response ==
  /\ dm.pc = "header"
  /\ IF \/ Len(dm.packet) < DNS_HEADER_LENGTH
        \/ read_u16(dm.packet, 0) # DmId
        \/ read_u16(dm.packet, 2) < 32768
        \/ read_u16(dm.packet, 4) # 1
     THEN DmFail
     ELSE dm' = DmBegin([dm EXCEPT !.left = read_u16(dm.packet, 6)], "qname", DNS_HEADER_LENGTH)

DmLabel(length) == SubSeq(dm.packet, dm.cursor + 2, dm.cursor + 1 + length)

\* Mutant: the offset follows a pointer.
decode_nameFollows(pc, next) ==
  /\ dm.pc = pc
  /\ IF ~DmHas(dm.packet, dm.cursor) THEN DmFail
     ELSE LET length == DmAt(dm.packet, dm.cursor)
              to == IF DmHas(dm.packet, dm.cursor + 1) THEN (length % 64) * 256 + DmAt(dm.packet, dm.cursor + 1) ELSE -1
          IN  CASE length = 0 -> dm' = [dm EXCEPT !.pc = next, !.offset = dm.cursor + 1]
                [] length >= 192 -> IF to = -1 \/ dm.jumps + 1 > Len(dm.packet) THEN DmFail
                                    ELSE dm' = [dm EXCEPT !.cursor = to, !.jumped = TRUE, !.jumps = @ + 1]
                [] length \in 64..191 -> DmFail
                [] OTHER -> IF ~DmHas(dm.packet, dm.cursor + length) THEN DmFail
                            ELSE dm' = [dm EXCEPT !.labels = Append(@, DmLabel(length)), !.cursor = @ + 1 + length]

\* One turn of the loop. The offset stays behind the first pointer; a loop of
\* pointers is cut when there were more jumps than bytes.
decode_name(pc, next) ==
  /\ dm.pc = pc
  /\ IF ~DmHas(dm.packet, dm.cursor) THEN DmFail
     ELSE LET length == DmAt(dm.packet, dm.cursor)
              to == IF DmHas(dm.packet, dm.cursor + 1) THEN (length % 64) * 256 + DmAt(dm.packet, dm.cursor + 1) ELSE -1
              past(n) == IF dm.jumped THEN dm.offset ELSE n
          IN  CASE length = 0 -> dm' = [dm EXCEPT !.pc = next, !.offset = past(dm.cursor + 1)]
                [] length >= 192 -> IF to = -1 \/ dm.jumps + 1 > Len(dm.packet) THEN DmFail
                                    ELSE dm' = [dm EXCEPT !.offset = past(dm.cursor + 2), !.cursor = to, !.jumped = TRUE, !.jumps = @ + 1]
                [] length \in 64..191 -> DmFail
                [] OTHER -> IF ~DmHas(dm.packet, dm.cursor + length) \/ ~from_utf8(DmLabel(length)) THEN DmFail
                            ELSE dm' = [dm EXCEPT !.labels = Append(@, DmLabel(length)), !.cursor = @ + 1 + length,
                                                  !.offset = past(dm.cursor + 1 + length)]

\* The question reads like the one that was asked, wherever its labels end.
parse_question ==
  /\ dm.pc = "question"
  /\ IF \/ read_u16(dm.packet, dm.offset + 2) = -1 \/ to_ascii_lowercase(DmJoin(dm.labels)) # dm.name
        \/ read_u16(dm.packet, dm.offset) # dm.type \/ read_u16(dm.packet, dm.offset + 2) # 1
     THEN DmFail
     ELSE dm' = [dm EXCEPT !.pc = "answers", !.offset = @ + 4]

parse_answers ==
  /\ dm.pc = "answers"
  /\ IF dm.left = 0 THEN DmEnd([ok |-> TRUE, sent |-> TRUE, answers |-> dm.answers]) ELSE dm' = DmBegin([dm EXCEPT !.left = @ - 1], "aname", dm.offset)

DmWithNames == {2, 5, 12}   \* NS, CNAME and PTR

\* Names, addresses of their length, and bytes for everything else.
decode_record_data(s, type, at, length) ==
  LET form == CASE type = 1 /\ length = 4 -> "ipv4" [] type = 28 /\ length = 16 -> "ipv6" [] OTHER -> "hex"
  IN  IF type \in DmWithNames THEN DmBegin(s, "rname", at)
      ELSE [s EXCEPT !.pc = "answers", !.offset = at + length,
              !.answers = Append(@, [name |-> s.rec[1], type |-> type, form |-> form, data |-> SubSeq(s.packet, at + 1, at + length)])]

\* Ten bytes of fixed fields, then the data within the packet.
parse_answer ==
  /\ dm.pc = "answer"
  /\ LET type == read_u16(dm.packet, dm.offset)
         length == read_u16(dm.packet, dm.offset + 8)
         at == dm.offset + 10
     IN  IF length = -1 \/ at + length > Len(dm.packet) THEN DmFail
         ELSE dm' = decode_record_data([dm EXCEPT !.rec = <<DmJoin(dm.labels), at + length, type>>], type, at, length)

\* A name in the data; the next record begins after the announced length.
parse_rname ==
  /\ dm.pc = "rdone"
  /\ dm' = [dm EXCEPT !.pc = "answers", !.offset = dm.rec[2],
                      !.answers = Append(@, [name |-> dm.rec[1], type |-> dm.rec[3], form |-> "name", data |-> DmJoin(dm.labels)])]

DmNext ==
  \/ execute_query \/ parse_response \/ parse_question \/ parse_answers \/ parse_answer \/ parse_rname
  \/ decode_name("qname", "question") \/ decode_name("aname", "answer") \/ decode_name("rname", "rdone")

DmSpec == DmInit /\ [][DmNext]_dm

-----------------------------------------------------------------------------
(* Correctness.                                                            *)

\* A name by its definition: labels of text up to the zero byte, a pointer
\* standing for the name it points to; no name when a byte is missing or a
\* pointer is met twice.
RECURSIVE DmRefName(_, _, _)
DmRefName(p, i, met) ==
  IF ~DmHas(p, i) \/ i \in met THEN NoDm
  ELSE LET n == DmAt(p, i)
           label == SubSeq(p, i + 2, i + 1 + n)
           rest == IF n >= 192 THEN (IF DmHas(p, i + 1) THEN DmRefName(p, (n - 192) * 256 + DmAt(p, i + 1), met \cup {i}) ELSE NoDm)
                   ELSE IF n \in 1..63 THEN DmRefName(p, i + 1 + n, met) ELSE NoDm
       IN  CASE n = 0 -> << >>
             [] n >= 192 -> rest
             [] n \in 1..63 -> IF rest = NoDm \/ ~from_utf8(label) THEN NoDm ELSE <<label>> \o rest
             [] OTHER -> NoDm

\* Where a name's own bytes end.
RECURSIVE DmRefEnd(_, _)
DmRefEnd(p, i) == CASE DmAt(p, i) = 0 -> i + 1 [] DmAt(p, i) >= 192 -> i + 2 [] OTHER -> DmRefEnd(p, i + 1 + DmAt(p, i))

\* What is shown of a record's data of a type: form and content.
DmRefData(p, type, at, length) ==
  LET name == DmRefName(p, at, {})
      bytes == SubSeq(p, at + 1, at + length)
  IN  CASE type \in {2, 5, 12}           -> IF name = NoDm THEN NoDm ELSE <<"name", DmJoin(name)>>
        [] type = 1 /\ length = 4         -> <<"ipv4", bytes>>
        [] type = 28 /\ length = 16       -> <<"ipv6", bytes>>
        [] OTHER                          -> <<"hex", bytes>>

\* The records of a packet from an offset on, as the format defines them.
RECURSIVE DmRefAnswers(_, _, _)
DmRefAnswers(p, i, n) ==
  IF n = 0 THEN << >>
  ELSE IF DmRefName(p, i, {}) = NoDm THEN NoDm
  ELSE LET f == DmRefEnd(p, i)
           type == read_u16(p, f)
           length == read_u16(p, f + 8)
           at == f + 10
       IN  IF length = -1 \/ at + length > Len(p) THEN NoDm
           ELSE LET data == DmRefData(p, type, at, length)
                    rest == DmRefAnswers(p, at + length, n - 1)
                IN  IF data = NoDm \/ rest = NoDm THEN NoDm
                    ELSE <<[name |-> DmJoin(DmRefName(p, i, {})), type |-> type, form |-> data[1], data |-> data[2]]>> \o rest

DmRefPacket(p) ==
  IF Len(p) < 12 \/ read_u16(p, 0) # DmId \/ read_u16(p, 2) < 32768 \/ read_u16(p, 4) # 1 \/ DmRefName(p, 12, {}) = NoDm THEN NoDm
  ELSE LET e == DmRefEnd(p, 12)
       IN  IF \/ to_ascii_lowercase(DmJoin(DmRefName(p, 12, {}))) # dm.name
              \/ read_u16(p, e) # dm.type \/ read_u16(p, e + 2) # 1
           THEN NoDm ELSE DmRefAnswers(p, e + 4, read_u16(p, 6))

\* An answer is decoded exactly when the packet's format defines one, and to
\* what it defines, for every packet that comes back: cut anywhere, with
\* pointers into the header, past the end or into themselves, and with data of
\* every form vzctl shows. What is not an answer to this request is refused;
\* a question is this request's when its text is, as names are compared as
\* text and not label by label.
DecodeAgrees ==
  dm.pc = "done" /\ dm.result.sent =>
    /\ dm.result.ok <=> DmRefPacket(dm.packet) # NoDm
    /\ dm.result.ok => dm.result.answers = DmRefPacket(dm.packet)
=============================================================================
