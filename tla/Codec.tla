------------------------------- MODULE Codec -------------------------------
(***************************************************************************)
(* The OUCH 4.2 and ITCH 5.0 codecs.  A message is a function from its     *)
(* fields to numbers and character strings; a layout says at which offset  *)
(* and over how many bytes a field is written or read.  Every encoder and  *)
(* every decoder has offsets of its own in the code, so it has a layout of *)
(* its own here.                                                           *)
(*                                                                         *)
(* A byte of a number is a digit of Base, so that a field of w bytes wraps *)
(* at Base^w; blanks and letters have their codes, which no digit equals,  *)
(* and the digit d of a decimal number is written as d.                    *)
(***************************************************************************)
EXTENDS Integers, Sequences, SequencesExt, TLC

CONSTANT Base

ASSUME BaseAssumption == Base \in 10 .. 32

Letter ==
  [A |-> 65, B |-> 66, C |-> 67, D |-> 68, E |-> 69, F |-> 70, H |-> 72,
   I |-> 73, J |-> 74, K |-> 75, L |-> 76, N |-> 78, O |-> 79, P |-> 80,
   Q |-> 81, R |-> 82, S |-> 83, U |-> 85, V |-> 86, W |-> 87, X |-> 88,
   Y |-> 89, h |-> 104]

Blank == 32

(* A byte of the encoder's buffer that it has not written. *)
Unwritten == -1

(* The fields that hold integers; the others hold characters. *)
Integer ==
  {"shares", "price", "tif", "min_qty", "timestamp", "order_ref", "match_number",
   "executed_shares", "execution_price", "decrement_shares", "canceled_shares",
   "stock_locate", "tracking", "round_lot_size", "etp_leverage",
   "original_ref", "new_ref"}

----------------------------------------------------------------------------
(* Byte order, and the conversions of names *)

(* put_be16, put_be32, put_be48 and put_be64: the low bytes of v. *)
PutBe(v, width) == [i \in 1 .. width |-> (v \div Base^(width - i)) % Base]

GetBe(bytes) == FoldLeft(LAMBDA v, byte : Base * v + byte, 0, bytes)

(* make_token, make_symbol and append_alpha: cut or padded with blanks. *)
Padded(name, width) ==
  [i \in 1 .. width |-> IF i <= Len(name) THEN name[i] ELSE Blank]

(* token_view and symbol_view: without the blanks at the end. *)
View(chars) == SubSeq(chars, 1, SelectLastInSeq(chars, LAMBDA c : c # Blank))

(* trim_field: without the blanks at either end. *)
Trimmed(chars) == Reverse(View(Reverse(View(chars))))

----------------------------------------------------------------------------
(* The login request of SoupBinTCP *)

(* to_string *)
Decimal[n \in Nat] == IF n < 10 THEN <<n>> ELSE Append(Decimal[n \div 10], n % 10)

AppendSeq(seq, width) == Reverse(Padded(Reverse(Decimal[seq]), width))

LoginRequest(req) ==
  Padded(req.username, 6) \o Padded(req.password, 10)
    \o Padded(req.requested_session, 10) \o AppendSeq(req.requested_seq, 20)

(* A decoder returns a set with the message, or with nothing. *)
DecodeLoginRequest(p) ==
  LET seq == Trimmed(SubSeq(p, 27, 46))
      req == [username |-> Trimmed(SubSeq(p, 1, 6)),
              password |-> Trimmed(SubSeq(p, 7, 16)),
              requested_session |-> Trimmed(SubSeq(p, 17, 26)),
              requested_seq |-> FoldLeft(LAMBDA n, c : 10 * n + c, 0, seq)]
  IN  IF Len(p) = 46 /\ ToSet(seq) \subseteq 0 .. 9 THEN {req} ELSE {}

----------------------------------------------------------------------------
(* Encoding and decoding with a layout *)

Chars(value, field, width) ==
  IF field \in Integer THEN PutBe(value, width) ELSE value

(* The bytes of message m of type t in a buffer of its size. *)
Encode(t, size, layout, m) ==
  [i \in 1 .. size |->
     LET here == {f \in DOMAIN layout : i - layout[f][1] \in 1 .. layout[f][2]}
         f == CHOOSE g \in here : TRUE
     IN  IF i = 1 THEN Letter[t]
         ELSE IF here = {} THEN Unwritten
         ELSE Chars(m[f], f, layout[f][2])[i - layout[f][1]]]

(* What is read behind the message, or was never written, may be anything. *)
Unknown == -1

FieldAt(p, field, at) ==
  LET bytes == [i \in 1 .. at[2] |-> IF at[1] + i <= Len(p) THEN p[at[1] + i] ELSE Unwritten]
  IN  IF field \notin Integer THEN bytes
      ELSE IF Unwritten \in ToSet(bytes) THEN Unknown
      ELSE GetBe(bytes)

(* Every decoder wants the exact size and its own type. *)
Decode(p, sizes, layouts) ==
  {[type |-> t, fields |-> [f \in DOMAIN layouts[t] |-> FieldAt(p, f, layouts[t][f])]] :
     t \in {u \in DOMAIN layouts : Len(p) = sizes[u] /\ p[1] = Letter[u]}}

----------------------------------------------------------------------------
(* OUCH: offset and width of every field, as the encoder puts it and as    *)
(* the decoder gets it                                                     *)

EnterOrderPut ==
  [token |-> <<1, 14>>, side |-> <<15, 1>>, shares |-> <<16, 4>>,
   stock |-> <<20, 8>>, price |-> <<28, 4>>, tif |-> <<32, 4>>,
   firm |-> <<36, 4>>, display |-> <<40, 1>>, capacity |-> <<41, 1>>,
   intermarket_sweep |-> <<42, 1>>, min_qty |-> <<43, 4>>,
   cross_type |-> <<47, 1>>, customer_type |-> <<48, 1>>]
EnterOrderGet ==
  [token |-> <<1, 14>>, side |-> <<15, 1>>, shares |-> <<16, 4>>,
   stock |-> <<20, 8>>, price |-> <<28, 4>>, tif |-> <<32, 4>>,
   firm |-> <<36, 4>>, display |-> <<40, 1>>, capacity |-> <<41, 1>>,
   intermarket_sweep |-> <<42, 1>>, min_qty |-> <<43, 4>>,
   cross_type |-> <<47, 1>>, customer_type |-> <<48, 1>>]

CancelOrderPut == [token |-> <<1, 14>>, shares |-> <<15, 4>>]
CancelOrderGet == [token |-> <<1, 14>>, shares |-> <<15, 4>>]

ReplaceOrderPut ==
  [existing_token |-> <<1, 14>>, replacement_token |-> <<15, 14>>,
   shares |-> <<29, 4>>, price |-> <<33, 4>>, tif |-> <<37, 4>>,
   display |-> <<41, 1>>, intermarket_sweep |-> <<42, 1>>, min_qty |-> <<43, 4>>]
ReplaceOrderGet ==
  [existing_token |-> <<1, 14>>, replacement_token |-> <<15, 14>>,
   shares |-> <<29, 4>>, price |-> <<33, 4>>, tif |-> <<37, 4>>,
   display |-> <<41, 1>>, intermarket_sweep |-> <<42, 1>>, min_qty |-> <<43, 4>>]

SystemEventPut == [timestamp |-> <<1, 8>>, event_code |-> <<9, 1>>]
SystemEventGet == [timestamp |-> <<1, 8>>, event_code |-> <<9, 1>>]

AcceptedPut ==
  [timestamp |-> <<1, 8>>, token |-> <<9, 14>>, side |-> <<23, 1>>,
   shares |-> <<24, 4>>, stock |-> <<28, 8>>, price |-> <<36, 4>>,
   tif |-> <<40, 4>>, firm |-> <<44, 4>>, display |-> <<48, 1>>,
   order_ref |-> <<49, 8>>, capacity |-> <<57, 1>>,
   intermarket_sweep |-> <<58, 1>>, min_qty |-> <<59, 4>>,
   cross_type |-> <<63, 1>>, order_state |-> <<64, 1>>,
   bbo_weight_indicator |-> <<65, 1>>]
AcceptedGet ==
  [timestamp |-> <<1, 8>>, token |-> <<9, 14>>, side |-> <<23, 1>>,
   shares |-> <<24, 4>>, stock |-> <<28, 8>>, price |-> <<36, 4>>,
   tif |-> <<40, 4>>, firm |-> <<44, 4>>, display |-> <<48, 1>>,
   order_ref |-> <<49, 8>>, capacity |-> <<57, 1>>,
   intermarket_sweep |-> <<58, 1>>, min_qty |-> <<59, 4>>,
   cross_type |-> <<63, 1>>, order_state |-> <<64, 1>>,
   bbo_weight_indicator |-> <<65, 1>>]

(* The body of an Accepted, whose token is the replacement's. *)
ReplacedPut == AcceptedPut @@ [previous_token |-> <<66, 14>>]

(* Mutant: the token of the body is taken for the previous one. *)
ReplacedGetBodyToken == AcceptedGet @@ [previous_token |-> <<9, 14>>]

ReplacedGet == AcceptedGet @@ [previous_token |-> <<66, 14>>]

ExecutedPut ==
  [timestamp |-> <<1, 8>>, token |-> <<9, 14>>, executed_shares |-> <<23, 4>>,
   execution_price |-> <<27, 4>>, liquidity_flag |-> <<31, 1>>,
   match_number |-> <<32, 8>>]
ExecutedGet ==
  [timestamp |-> <<1, 8>>, token |-> <<9, 14>>, executed_shares |-> <<23, 4>>,
   execution_price |-> <<27, 4>>, liquidity_flag |-> <<31, 1>>,
   match_number |-> <<32, 8>>]

CanceledPut ==
  [timestamp |-> <<1, 8>>, token |-> <<9, 14>>, decrement_shares |-> <<23, 4>>,
   reason |-> <<27, 1>>]
CanceledGet ==
  [timestamp |-> <<1, 8>>, token |-> <<9, 14>>, decrement_shares |-> <<23, 4>>,
   reason |-> <<27, 1>>]

RejectedPut ==
  [timestamp |-> <<1, 8>>, token |-> <<9, 14>>, reason |-> <<23, 1>>]
RejectedGet ==
  [timestamp |-> <<1, 8>>, token |-> <<9, 14>>, reason |-> <<23, 1>>]

InSize == [O |-> 49, X |-> 19, U |-> 47]
InPut == [O |-> EnterOrderPut, X |-> CancelOrderPut, U |-> ReplaceOrderPut]
InGet == [O |-> EnterOrderGet, X |-> CancelOrderGet, U |-> ReplaceOrderGet]

OutSize == [S |-> 10, A |-> 66, U |-> 80, E |-> 40, C |-> 28, J |-> 24]
OutPut == [S |-> SystemEventPut, A |-> AcceptedPut, U |-> ReplacedPut,
           E |-> ExecutedPut, C |-> CanceledPut, J |-> RejectedPut]
OutGet == [S |-> SystemEventGet, A |-> AcceptedGet, U |-> ReplacedGet,
           E |-> ExecutedGet, C |-> CanceledGet, J |-> RejectedGet]

----------------------------------------------------------------------------
(* ITCH *)

HeaderPut == [stock_locate |-> <<1, 2>>, tracking |-> <<3, 2>>, timestamp |-> <<5, 6>>]

AddOrderPut ==
  HeaderPut @@ [order_ref |-> <<11, 8>>, side |-> <<19, 1>>,
                shares |-> <<20, 4>>, stock |-> <<24, 8>>, price |-> <<32, 4>>]
OrderExecutedPut ==
  HeaderPut @@ [order_ref |-> <<11, 8>>, executed_shares |-> <<19, 4>>,
                match_number |-> <<23, 8>>]

(* An F and a C are encoded as an A and an E that the rest is laid over. *)
ItchPut ==
  [S |-> HeaderPut @@ [event_code |-> <<11, 1>>],
   R |-> HeaderPut @@ [stock |-> <<11, 8>>, market_category |-> <<19, 1>>,
                       financial_status |-> <<20, 1>>,
                       round_lot_size |-> <<21, 4>>,
                       round_lots_only |-> <<25, 1>>,
                       issue_classification |-> <<26, 1>>,
                       issue_subtype |-> <<27, 2>>, authenticity |-> <<29, 1>>,
                       short_sale_threshold |-> <<30, 1>>,
                       ipo_flag |-> <<31, 1>>, luld_tier |-> <<32, 1>>,
                       etp_flag |-> <<33, 1>>, etp_leverage |-> <<34, 4>>,
                       inverse_indicator |-> <<38, 1>>],
   H |-> HeaderPut @@ [stock |-> <<11, 8>>, trading_state |-> <<19, 1>>,
                       reserved |-> <<20, 1>>, reason |-> <<21, 4>>],
   A |-> AddOrderPut,
   F |-> AddOrderPut @@ [attribution |-> <<36, 4>>],
   E |-> OrderExecutedPut,
   C |-> OrderExecutedPut @@ [printable |-> <<31, 1>>, execution_price |-> <<32, 4>>],
   X |-> HeaderPut @@ [order_ref |-> <<11, 8>>, canceled_shares |-> <<19, 4>>],
   D |-> HeaderPut @@ [order_ref |-> <<11, 8>>],
   U |-> HeaderPut @@ [original_ref |-> <<11, 8>>, new_ref |-> <<19, 8>>,
                       shares |-> <<27, 4>>, price |-> <<31, 4>>],
   P |-> HeaderPut @@ [order_ref |-> <<11, 8>>, side |-> <<19, 1>>,
                       shares |-> <<20, 4>>, stock |-> <<24, 8>>,
                       price |-> <<32, 4>>, match_number |-> <<40, 8>>]]

HeaderGet == [stock_locate |-> <<1, 2>>, tracking |-> <<3, 2>>, timestamp |-> <<5, 6>>]

ItchGet ==
  [S |-> HeaderGet @@ [event_code |-> <<11, 1>>],
   R |-> HeaderGet @@ [stock |-> <<11, 8>>, market_category |-> <<19, 1>>,
                       financial_status |-> <<20, 1>>,
                       round_lot_size |-> <<21, 4>>,
                       round_lots_only |-> <<25, 1>>,
                       issue_classification |-> <<26, 1>>,
                       issue_subtype |-> <<27, 2>>, authenticity |-> <<29, 1>>,
                       short_sale_threshold |-> <<30, 1>>,
                       ipo_flag |-> <<31, 1>>, luld_tier |-> <<32, 1>>,
                       etp_flag |-> <<33, 1>>, etp_leverage |-> <<34, 4>>,
                       inverse_indicator |-> <<38, 1>>],
   H |-> HeaderGet @@ [stock |-> <<11, 8>>, trading_state |-> <<19, 1>>,
                       reserved |-> <<20, 1>>, reason |-> <<21, 4>>],
   A |-> HeaderGet @@ [order_ref |-> <<11, 8>>, side |-> <<19, 1>>,
                       shares |-> <<20, 4>>, stock |-> <<24, 8>>,
                       price |-> <<32, 4>>],
   F |-> HeaderGet @@ [order_ref |-> <<11, 8>>, side |-> <<19, 1>>,
                       shares |-> <<20, 4>>, stock |-> <<24, 8>>,
                       price |-> <<32, 4>>, attribution |-> <<36, 4>>],
   E |-> HeaderGet @@ [order_ref |-> <<11, 8>>, executed_shares |-> <<19, 4>>,
                       match_number |-> <<23, 8>>],
   C |-> HeaderGet @@ [order_ref |-> <<11, 8>>, executed_shares |-> <<19, 4>>,
                       match_number |-> <<23, 8>>, printable |-> <<31, 1>>,
                       execution_price |-> <<32, 4>>],
   X |-> HeaderGet @@ [order_ref |-> <<11, 8>>, canceled_shares |-> <<19, 4>>],
   D |-> HeaderGet @@ [order_ref |-> <<11, 8>>],
   U |-> HeaderGet @@ [original_ref |-> <<11, 8>>, new_ref |-> <<19, 8>>,
                       shares |-> <<27, 4>>, price |-> <<31, 4>>],
   P |-> HeaderGet @@ [order_ref |-> <<11, 8>>, side |-> <<19, 1>>,
                       shares |-> <<20, 4>>, stock |-> <<24, 8>>,
                       price |-> <<32, 4>>, match_number |-> <<40, 8>>]]

(* The sizes of the messages that decode() knows ... *)
ItchSize ==
  [S |-> 12, R |-> 39, H |-> 25, A |-> 36, F |-> 40, E |-> 31, C |-> 36,
   X |-> 23, D |-> 19, U |-> 35, P |-> 44]

(* ... and of every type of ITCH 5.0; 0 for any other byte. *)
OtherSize ==
  [Y |-> 20, L |-> 26, V |-> 35, W |-> 12, K |-> 28, J |-> 35, h |-> 21,
   Q |-> 40, B |-> 19, I |-> 50, N |-> 20, O |-> 48]

MessageSize(byte) ==
  LET sizes == ItchSize @@ OtherSize
      named == {t \in DOMAIN sizes : Letter[t] = byte}
  IN  IF named = {} THEN 0 ELSE sizes[CHOOSE t \in named : TRUE]

============================================================================
