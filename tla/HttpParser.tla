----------------------------- MODULE HttpParser -----------------------------
(***************************************************************************)
(* How gr_http.c recognizes a request in what a connection has received    *)
(* (http_check) and takes it apart for the module (http_proc), and how the *)
(* module looks things up in it (server_object.c).                         *)
(*                                                                         *)
(* Text is a sequence of units: a character, or a word in which no other   *)
(* character is ever looked for.  http_proc works in place and lets C      *)
(* strings end where it writes '\0'; here a string is the text before it.  *)
(* HTTP replies are not taken apart, because http_proc writes through a    *)
(* NULL pointer for each of them (gr_http.c:715).                          *)
(***************************************************************************)
EXTENDS Integers, Sequences, SequencesExt

CONSTANTS
  HeaderWrap,   \* http_header_offset has 11 bits: 2048 in the code
  BodyWrap,     \* http_body_offset has 16 bits: 65536 in the code
  ParamMax      \* header_max, query_max and form_max: 100 in the code

ASSUME HttpParserAssumption ==
  /\ HeaderWrap \in Nat \ {0} /\ BodyWrap \in Nat \ {0} /\ ParamMax \in Nat

CR == "\r"
LF == "\n"
SP == " "
CL == "Content-Length"
FormType == <<"application/x-www-form-urlencoded">>

\* strchr, strrchr: 0 when there is none
Find(s, u) == SelectInSeq(s, LAMBDA x : x = u)
FindLast(s, u) == SelectLastInSeq(s, LAMBDA x : x = u)

Before(s, i) == SubSeq(s, 1, i - 1)
After(s, i) == SubSeq(s, i + 1, Len(s))

-----------------------------------------------------------------------------
(* http_check                                                              *)

\* Seeded slip: the word must be there as a whole.
Begins_Whole(buf, word) == Len(word) <= Len(buf) /\ \A i \in 1 .. Len(word) : buf[i] = word[i]

\* What there is of buf agrees with the word.
Begins(buf, word) == \A i \in 1 .. Len(word) : i <= Len(buf) => buf[i] = word[i]

RequestWords == {<<"G", "E", "T", " ">>, <<"P", "O", "S", "T", " ">>,
                 <<"H", "E", "A", "D", " ">>, <<"C", "O", "N", "N", "E">>}

\* check_http_packet_type: a single H is taken for a request.
PacketType(buf) ==
  IF Len(buf) > 1 /\ Begins(buf, <<"H", "T", "T", "P", "/">>) THEN "reply"
  ELSE IF buf # <<>> /\ \E w \in RequestWords : Begins(buf, w) THEN "request"
  ELSE "error"

\* The line feeds behind which is_http_full_packet sees the empty line, or that
\* are it, in headers that begin at h.
HeaderEnds(buf, h) ==
  {p \in h .. Len(buf) :
     /\ buf[p] = LF
     /\ \/ p = h
        \/ p = h + 1 /\ buf[h] = CR
        \/ p < Len(buf) /\ buf[p + 1] \in {CR, LF}}

\* Where the body begins, counted from 0, when p is the first of those.
BodyBegin(buf, h, p) ==
  IF p = h \/ (p = h + 1 /\ buf[h] = CR) THEN p
  ELSE IF buf[p + 1] = CR THEN p + 2
  ELSE p + 1

\* parser_ignore_spaces, and the leading spaces str_trim removes
Unspaced(s) == LET i == SelectInSeq(s, LAMBDA u : u \notin {SP, CR, LF})
               IN  IF i = 0 THEN <<>> ELSE SubSeq(s, i, Len(s))

Digits == <<"0", "1", "2", "3", "4", "5", "6", "7", "8", "9">>
IsDigit(u) == \E i \in DOMAIN Digits : Digits[i] = u

\* atol, atoi: the digits s begins with
Number(s) ==
  LET stop == SelectInSeq(s \o <<SP>>, LAMBDA u : ~ IsDigit(u))
  IN  FoldLeft(LAMBDA n, u : 10 * n + Find(Digits, u) - 1, 0, Before(s, stop))

\* Content-Length as is_http_full_packet reads it out of the headers, -1 when it
\* finds no number behind such a name.
ContentLength(headers) ==
  LET at     == {i \in 1 .. Len(headers) - 1 : headers[i] = CL /\ headers[i + 1] = ":"}
      number == Unspaced(After(headers, Min(at) + 1))
  IN  IF at = {} \/ number = <<>> THEN -1
      ELSE IF IsDigit(number[1]) THEN Number(number) ELSE -1

Verdict(is, header, body, content) ==
  [is |-> is, header |-> header, body |-> body, content |-> content]
NotFull == Verdict("more", 0, 0, 0)

\* is_http_full_packet, of everything received so far.  The body of a packet
\* whose last unit is a CR begins one unit behind it.
Packet(buf) ==
  LET h       == Find(buf, LF) + 1
      ends    == HeaderEnds(buf, h)
      body    == BodyBegin(buf, h, Min(ends))
      content == ContentLength(SubSeq(buf, h, IF body > Len(buf) THEN Len(buf) ELSE body - 1))
  IN  IF PacketType(buf) = "error" THEN Verdict("error", 0, 0, 0)
      ELSE IF h = 1 \/ ends = {} THEN NotFull
      ELSE IF content > Len(buf) - body \/ body > Len(buf) THEN NotFull
      ELSE Verdict("full", h - 1, body, IF content = -1 THEN 0 ELSE content)

\* http_check: the offsets go into bit fields.
HttpCheck(buf) ==
  [Packet(buf) EXCEPT !.header = @ % HeaderWrap, !.body = @ % BodyWrap]

-----------------------------------------------------------------------------
(* http_decode                                                             *)

HexDigits == Digits \o <<"A", "B", "C", "D", "E", "F">>
IsHex(u) == \E i \in DOMAIN HexDigits : HexDigits[i] = u

\* The characters the model writes in hexadecimal, and x2c
Code == << <<"+", 43>>, <<"&", 38>>, <<"=", 61>>, <<"?", 63>>, <<"%", 37>>, <<"/", 47>> >>
FromHex(high, low) ==
  LET n == 16 * (Find(HexDigits, high) - 1) + Find(HexDigits, low) - 1
  IN  (CHOOSE i \in DOMAIN Code : Code[i][2] = n)

\* A + becomes a space, %xx the character it stands for, any other % stays.
Decoded(s) ==
  LET t == [i \in DOMAIN s |-> IF s[i] = "+" THEN SP ELSE s[i]]
      rest[i \in 1 .. Len(t) + 1] ==
        IF i > Len(t) THEN <<>>
        ELSE IF t[i] = "%" /\ i + 2 <= Len(t) /\ IsHex(t[i + 1]) /\ IsHex(t[i + 2])
        THEN <<Code[FromHex(t[i + 1], t[i + 2])][1]>> \o rest[i + 3]
        ELSE <<t[i]>> \o rest[i + 1]
  IN  rest[1]

-----------------------------------------------------------------------------
(* http_proc.  A result is a record with code 0, or the negative             *)
(* processed_len it stops with.                                            *)

\* The pieces of s between the units sep, a last one that is empty left out.  The
\* k-th begins behind the cut that has k - 1 cuts before it.
Pieces(s, sep) ==
  LET cuts == {0} \cup {i \in DOMAIN s : s[i] = sep /\ i < Len(s)}
      from(k) == CHOOSE i \in cuts : Cardinality({j \in cuts : j < i}) = k - 1
      to(k) == SelectInSubSeq(s, from(k) + 1, Len(s), LAMBDA x : x = sep)
  IN  IF s = <<>> THEN <<>>
      ELSE [k \in 1 .. Cardinality(cuts) |->
              IF to(k) = 0 THEN After(s, from(k)) ELSE SubSeq(s, from(k) + 1, to(k) - 1)]

Unpaired(pieces, sep) == \E i \in DOMAIN pieces : Find(pieces[i], sep) = 0

\* str_trim
Trimmed(s) == Reverse(Unspaced(Reverse(Unspaced(s))))

\* Names and values of the pieces, split where sep first occurs; the value of a
\* header is trimmed first.
Params(pieces, sep) ==
  [i \in DOMAIN pieces |->
     LET at    == Find(pieces[i], sep)
         value == After(pieces[i], at)
     IN  [name  |-> Decoded(Before(pieces[i], at)),
          value |-> Decoded(IF sep = ":" THEN Trimmed(value) ELSE value)]]

\* The code http_proc stops with when it finds too many pieces, or one without sep
Stop(pieces, sep, tooMany, unpaired) ==
  IF Len(pieces) > ParamMax THEN tooMany
  ELSE IF Unpaired(pieces, sep) THEN unpaired
  ELSE 0

\* The first of the values with this name, as a sequence of at most one
Lookup(params, name) ==
  LET i == SelectInSeq(params, LAMBDA p : p.name = <<name>>)
  IN  IF i = 0 THEN <<>> ELSE <<params[i].value>>

\* The first line behind the method: GET is followed by one space, so are HEAD and
\* POST, CONNECT must be.
FirstLine(text) ==
  LET first == CASE text[1] = "G" -> 5 [] text[1] \in {"H", "P"} -> 6 [] OTHER -> 9
  IN  SubSeq(text, first, Find(text, LF) - 1)

\* What the module reads between the method and the version, up to the first space
Target(text) == LET line == FirstLine(text) \o <<SP>> IN Before(line, Find(line, SP))

\* Without a version the CR at the end of the line belongs to the target.
EndsInCR(text) ==
  LET line == FirstLine(text) IN line # <<>> /\ Find(line, SP) = 0 /\ Last(line) = CR

\* http_proc cuts that CR off after it has decoded the target (gr_http.c:867): from the
\* string it ends, unless escapes have made that shorter and the CR has moved.
LastDecoded(text, s) ==
  LET d == Decoded(s)
  IN  IF EndsInCR(text) /\ Len(d) = Len(s) THEN Front(d) ELSE d

\* Other than CONNECT no method is compared beyond its first character.
BadMethod(text) == text[1] = "C" /\ SubSeq(text, 6, 8) # <<"C", "T", SP>>

\* The lines from h up to the first that begins with CR or LF
Lines(text, h) ==
  LET begins == {h} \cup {i + 1 : i \in {j \in h .. Len(text) : text[j] = LF}}
      stop   == Min({i \in begins : i > Len(text) \/ text[i] \in {CR, LF}})
  IN  Pieces(SubSeq(text, h, stop - 1), LF)

Result(code, directory, object, params, header, form, body) ==
  [code |-> code, directory |-> directory, object |-> object, params |-> params,
   header |-> header, form |-> form, body |-> body]
Failed(code) == Result(code, <<>>, <<>>, <<>>, <<>>, <<>>, <<>>)

\* A body without a type, or with that of a form, is taken apart as a form.
IsForm(text, v) ==
  /\ v.content > 0
  /\ Lookup(Params(Lines(text, v.header + 1), ":"), "Content-Type")
       \in {<<>>, << <<>> >>, <<FormType>>}

\* A form is read up to the '\0' behind it, not up to Content-Length.
FormText(text, v) == After(text, v.body)

\* Seeded slip: so is any other body.
BodyText_AllOfIt(text, v) == After(text, v.body)

BodyText(text, v) == SubSeq(text, v.body + 1, v.body + v.content)

\* Names and values of the query: the last value ends the target.
QueryParams(text, pieces) ==
  LET params == Params(pieces, "=")
      last   == Last(pieces)
  IN  IF EndsInCR(text) /\ pieces # <<>>
      THEN [params EXCEPT ![Len(pieces)].value = LastDecoded(text, After(last, Find(last, "=")))]
      ELSE params

\* http_proc up to http_execute.  text is the request and all that was received
\* behind it, v what http_check found.
Parsed(text, v) ==
  LET target == Target(text)
      ask    == Find(target, "?")
      path   == IF ask = 0 THEN target ELSE Before(target, ask)
      slash  == FindLast(path, "/")
      object == After(path, slash)
      query  == IF ask = 0 THEN <<>> ELSE Pieces(After(target, ask), "&")
      lines  == Lines(text, v.header + 1)
      header == Params(lines, ":")
      form   == IF IsForm(text, v) THEN Pieces(FormText(text, v), "&") ELSE <<>>
      stops  == <<IF BadMethod(text) THEN -1 ELSE 0,
                  IF ask # 0 /\ slash = 0 THEN -6 ELSE 0,
                  Stop(query, "=", -7, -8),
                  Stop(lines, ":", -10, -11),
                  Stop(form, "=", -12, -13)>>
      first  == SelectInSeq(stops, LAMBDA code : code # 0)
      dir    == IF slash = 0 THEN LastDecoded(text, path) ELSE Decoded(Before(path, slash))
  IN  IF first # 0 THEN Failed(stops[first])
      ELSE Result(0,
                  IF dir = <<>> THEN <<"/">> ELSE dir,
                  IF slash = 0 THEN <<>>
                  ELSE IF ask = 0 THEN LastDecoded(text, object) ELSE Decoded(object),
                  QueryParams(text, query), header, Params(form, "="),
                  IF IsForm(text, v) THEN <<>> ELSE BodyText(text, v))

\* A first line of HeaderWrap units or more: the headers are looked for inside
\* of it, and what is found there is left open.
Results(text, v) ==
  IF v.header = Find(text, LF) THEN {Parsed(text, v)} ELSE {Failed(-11), Failed(0)}

-----------------------------------------------------------------------------
(* What the module asks for, by server_object.c.  Names have no case here. *)

\* http_get_req: the query before the form
GetReq(r, name) ==
  LET inQuery == Lookup(r.params, name)
  IN  IF inQuery # <<>> THEN inQuery ELSE Lookup(r.form, name)

\* http_get_header
GetHeader(r, name) == Lookup(r.header, name)

\* http_get_req_int
GetReqInt(r, name, default) ==
  LET v == GetReq(r, name)
  IN  IF v \in {<<>>, << <<>> >>} THEN default
      ELSE IF IsDigit(v[1][1]) THEN Number(v[1])
      ELSE IF v[1][1] = "-" THEN 0 - Number(Tail(v[1]))
      ELSE default

\* http_get_req_int64 knows no sign.
GetReqInt64(r, name, default) ==
  LET v == GetReq(r, name)
  IN  IF v \in {<<>>, << <<>> >>} THEN default
      ELSE IF IsDigit(v[1][1]) THEN Number(v[1]) ELSE default

\* http_get_req_bool
GetReqBool(r, name, default) ==
  LET v == GetReq(r, name)
  IN  IF v \in { << <<u>> >> : u \in {"true", "yes", "1"}} THEN TRUE
      ELSE IF v \in { << <<u>> >> : u \in {"false", "no", "0"}} THEN FALSE
      ELSE default
=============================================================================
