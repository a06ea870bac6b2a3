--------------------------- MODULE CheckoutProofs ---------------------------
(* Proofs about Checkout, for every value of its constants: any number of  *)
(* customers, plans, servers, keys, codes and handlers, any prices.        *)
EXTENDS Checkout, FiniteSetTheorems, TLAPS

(***************************************************************************)
(* Money                                                                   *)
(***************************************************************************)

(* Rounding gives a natural number. *)
LEMMA Rounded ==
    ASSUME NEW n \in Nat
    PROVE  Quantized(n) \in Nat
BY DEF Quantized

(* So does the product of two, rounded. *)
LEMMA RoundedProduct ==
    ASSUME NEW m \in Nat, NEW n \in Nat
    PROVE  Quantized(m * n) \in Nat
<1>1. m * n \in Nat
  OBVIOUS
<1> QED
  BY <1>1, Rounded

(* No price is below the minimum. *)
LEMMA PriceInBounds ==
    ASSUME NEW p \in Plans, NEW mode
    PROVE  Price(p, mode) \in Nat /\ Price(p, mode) >= MinAmount
<1>1. BasePrice[p] \in Nat /\ 100 + Markup(mode) \in Nat /\ MinAmount \in Nat
  BY CheckoutAssumption DEF Markup
<1>2. Quantized(BasePrice[p] * (100 + Markup(mode))) \in Nat
  BY <1>1, RoundedProduct
<1> QED
  BY <1>1, <1>2 DEF Price, AtLeast

(* A discount takes an amount neither up nor below the minimum. *)
LEMMA DiscountInBounds ==
    ASSUME NEW amount \in Nat, amount >= MinAmount, NEW terms \in Terms \cup {NoTerms}
    PROVE  /\ Due(amount, terms) \in MinAmount..amount
           /\ terms # NoTerms => /\ Discount(amount, terms) \in Nat
                                 /\ \/ Due(amount, terms) = amount - Discount(amount, terms)
                                    \/ Due(amount, terms) = MinAmount
           /\ terms = NoTerms => Due(amount, terms) = amount
<1>1. MinAmount \in Nat
  BY CheckoutAssumption
<1>2. CASE terms = NoTerms
  BY <1>1, <1>2 DEF Due
<1>3. CASE terms # NoTerms
  <2>1. terms \in [type : {"percent"}, value : 1..95] \cup [type : {"fixed"}, value : Nat \ {0}]
    BY <1>3, CheckoutAssumption
  <2>2. Discount(amount, terms) \in Nat
    <3>1. CASE terms.type = "percent"
      <4>1. terms.value \in Nat
        BY <2>1
      <4> QED
        BY <3>1, <4>1, RoundedProduct DEF Discount
    <3>2. CASE terms.type # "percent"
      <4>1. terms.value \in Nat
        BY <2>1
      <4> QED
        BY <1>1, <3>2, <4>1 DEF Discount, AtMost
    <3> QED
      BY <3>1, <3>2
  <2> QED
    BY <1>1, <1>3, <2>2 DEF Due, AtLeast
<1> QED
  BY <1>2, <1>3

(***************************************************************************)
(* Types                                                                   *)
(***************************************************************************)

(* The values that chats, rows and handlers start with. *)
LEMMA InitialTypes ==
    /\ SomePlan \in Plans /\ FirstSlot \in Slots /\ Menu \in Message
    /\ NoOrder \in OrderRow /\ Cleared \in Data
    /\ \A kept \in SUBSET Keys : [Idle EXCEPT !.pc = "more", !.kept = kept] \in Local
    /\ Idle \in Local
<1>1. SomePlan \in Plans /\ FirstSlot \in Slots
  BY CheckoutAssumption DEF SomePlan, FirstSlot
<1>2. Menu \in Message
  BY <1>1 DEF Menu, Showing, Message
<1>3. NoOrder \in OrderRow
  BY <1>1, <1>2 DEF NoOrder, OrderRow
<1>4. Cleared \in Data
  BY <1>1 DEF Cleared, Data
<1>5. Idle \in Local
  BY <1>1, <1>3, CheckoutAssumption DEF Idle, Local
<1>6. ASSUME NEW kept \in SUBSET Keys
      PROVE  [Idle EXCEPT !.pc = "more", !.kept = kept] \in Local
  BY <1>5 DEF Local
<1> QED
  BY <1>1, <1>2, <1>3, <1>4, <1>5, <1>6

(* Messages of every kind. *)
LEMMA ShowingType ==
    ASSUME NEW kind \in {"other", "modes", "servers", "confirm"}, NEW p \in Plans
    PROVE  Showing(kind, p) \in Message
BY DEF Showing, Message

(* A confirmation is a message. *)
LEMMA ConfirmationType ==
    ASSUME NEW p \in Plans, NEW mode \in Modes \cup {NoMode}, NEW v \in Servers \cup {NoServer}
    PROVE  Confirmation(p, mode, v) \in Message
<1>1. Showing("confirm", p) \in Message
  BY ShowingType
<1>2. Price(p, mode) \in Nat
  BY PriceInBounds
<1> QED
  BY <1>1, <1>2 DEF Confirmation, Message

(***************************************************************************)
(* The dialogues                                                           *)
(***************************************************************************)

(* A confirmation names a mode, the server that goes with it, and the      *)
(* price with the discount it shows.                                       *)
MessageFits(m) ==
    m.kind = "confirm" =>
        /\ m.mode \in Modes
        /\ m.mode = "server" <=> m.server # NoServer
        /\ m.code = NoCode => m.terms = NoTerms
        /\ m.total = Due(Price(m.plan, m.mode), m.terms)

(* So does what a Telegram chat remembers. *)
DataFits(d) ==
    /\ d.mode = "server" <=> d.server # NoServer
    /\ d.asked => d.mode # NoMode

Agrees(d, m) ==
    m.kind = "confirm" => d.mode = m.mode /\ d.server = m.server /\ d.code = m.code

(* The newest confirmation of a Telegram chat says what the FSM data says; *)
(* buttons of VK and WhatsApp carry no promo code.                         *)
DialogueSound ==
    /\ \A u \in Users : \A s \in Slots : MessageFits(screen[u][s])
    /\ \A u \in ChatUsers : \A s \in Slots : screen[u][s].code = NoCode
    /\ \A u \in TelegramUsers : DataFits(fsm[u]) /\ Agrees(fsm[u], screen[u][newest[u]])

(* A customer is shown a message, and the chat's data goes with it. *)
Speaks(u) ==
    \E s \in Slots, m \in Message :
        /\ MessageFits(m)
        /\ screen' = [screen EXCEPT ![u][s] = m]
        /\ newest' = [newest EXCEPT ![u] = s]
        /\ \/ u \in ChatUsers /\ m.code = NoCode /\ fsm' = fsm
           \/ /\ u \in TelegramUsers
              /\ \E d \in Data : /\ DataFits(d) /\ Agrees(d, m)
                                 /\ fsm' = [fsm EXCEPT ![u] = d]

(* Speaking keeps dialogues sound, and their types. *)
LEMMA SpeakingIsSound ==
    ASSUME TypeOK, DialogueSound, NEW u \in Users, Speaks(u)
    PROVE  /\ DialogueSound'
           /\ screen' \in [Users -> [Slots -> Message]]
           /\ newest' \in [Users -> Slots]
           /\ fsm' \in [TelegramUsers -> Data]
<1>1. PICK s \in Slots, m \in Message :
          /\ MessageFits(m)
          /\ screen' = [screen EXCEPT ![u][s] = m]
          /\ newest' = [newest EXCEPT ![u] = s]
          /\ \/ u \in ChatUsers /\ m.code = NoCode /\ fsm' = fsm
             \/ /\ u \in TelegramUsers
                /\ \E d \in Data : /\ DataFits(d) /\ Agrees(d, m)
                                   /\ fsm' = [fsm EXCEPT ![u] = d]
  BY DEF Speaks
<1>2. screen' \in [Users -> [Slots -> Message]] /\ newest' \in [Users -> Slots]
  BY <1>1 DEF TypeOK
<1>3. /\ \A w \in Users : \A t \in Slots :
            screen'[w][t] = IF w = u /\ t = s THEN m ELSE screen[w][t]
      /\ \A w \in Users : newest'[w] = IF w = u THEN s ELSE newest[w]
  BY <1>1 DEF TypeOK
<1>4. TelegramUsers \subseteq Users /\ ChatUsers \subseteq Users /\ TelegramUsers \cap ChatUsers = {}
  BY CheckoutAssumption DEF Users
<1>5. (\A w \in Users : \A t \in Slots : MessageFits(screen[w][t]))'
  <2> SUFFICES ASSUME NEW w \in Users, NEW t \in Slots PROVE MessageFits(screen[w][t])'
    OBVIOUS
  <2>1. MessageFits(screen'[w][t])
    BY <1>1, <1>3 DEF DialogueSound
  <2> QED
    BY <2>1 DEF MessageFits
<1>6. CASE u \in ChatUsers /\ m.code = NoCode /\ fsm' = fsm
  <2>1. fsm' \in [TelegramUsers -> Data]
    BY <1>6 DEF TypeOK
  <2>2. (\A w \in ChatUsers : \A t \in Slots : screen[w][t].code = NoCode)'
    BY <1>3, <1>4, <1>6 DEF DialogueSound
  <2>3. ASSUME NEW w \in TelegramUsers PROVE (DataFits(fsm[w]) /\ Agrees(fsm[w], screen[w][newest[w]]))'
    <3>1. w # u /\ newest[w] \in Slots
      BY <1>4, <1>6 DEF TypeOK
    <3>2. screen'[w][newest'[w]] = screen[w][newest[w]]
      BY <1>3, <1>4, <3>1
    <3> QED
      BY <1>6, <3>2 DEF DialogueSound, DataFits, Agrees
  <2> QED
    BY <1>2, <1>5, <2>1, <2>2, <2>3 DEF DialogueSound
<1>7. CASE u \in TelegramUsers
  <2>1. PICK d \in Data : DataFits(d) /\ Agrees(d, m) /\ fsm' = [fsm EXCEPT ![u] = d]
    BY <1>1, <1>4, <1>7
  <2>2. fsm' \in [TelegramUsers -> Data]
    BY <2>1 DEF TypeOK
  <2>3. (\A w \in ChatUsers : \A t \in Slots : screen[w][t].code = NoCode)'
    BY <1>3, <1>4, <1>7 DEF DialogueSound
  <2>4. ASSUME NEW w \in TelegramUsers PROVE (DataFits(fsm[w]) /\ Agrees(fsm[w], screen[w][newest[w]]))'
    <3>1. newest[w] \in Slots
      BY <1>4 DEF TypeOK
    <3>2. CASE w = u
      <4>1. fsm'[w] = d /\ screen'[w][newest'[w]] = m
        BY <1>3, <1>4, <2>1, <3>2 DEF TypeOK
      <4> QED
        BY <2>1, <4>1 DEF DataFits, Agrees
    <3>3. CASE w # u
      <4>1. fsm'[w] = fsm[w] /\ screen'[w][newest'[w]] = screen[w][newest[w]]
        BY <1>3, <1>4, <2>1, <3>1, <3>3 DEF TypeOK
      <4> QED
        BY <4>1 DEF DialogueSound, DataFits, Agrees
    <3> QED
      BY <3>2, <3>3
  <2> QED
    BY <1>2, <1>5, <2>2, <2>3, <2>4 DEF DialogueSound
<1> QED
  BY <1>1, <1>6, <1>7

(* A confirmation without a code fits; so does anything else. *)
LEMMA ConfirmationFits ==
    ASSUME NEW p \in Plans, NEW mode \in Modes, NEW v \in Servers \cup {NoServer},
           mode = "server" <=> v # NoServer
    PROVE  /\ Confirmation(p, mode, v) \in Message
           /\ MessageFits(Confirmation(p, mode, v))
           /\ Confirmation(p, mode, v).kind = "confirm"
           /\ Confirmation(p, mode, v).plan = p
           /\ Confirmation(p, mode, v).mode = mode
           /\ Confirmation(p, mode, v).server = v
           /\ Confirmation(p, mode, v).code = NoCode
<1>1. Confirmation(p, mode, v) \in Message
  BY ConfirmationType
<1>2. /\ Confirmation(p, mode, v).kind = "confirm" /\ Confirmation(p, mode, v).plan = p
      /\ Confirmation(p, mode, v).mode = mode /\ Confirmation(p, mode, v).server = v
      /\ Confirmation(p, mode, v).code = NoCode /\ Confirmation(p, mode, v).terms = NoTerms
      /\ Confirmation(p, mode, v).total = Price(p, mode)
  BY DEF Confirmation, Showing
<1>3. Due(Price(p, mode), NoTerms) = Price(p, mode)
  BY DEF Due
<1> HIDE DEF Confirmation
<1> QED
  BY <1>1, <1>2, <1>3 DEF MessageFits

(* A message that asks for nothing yet. *)
LEMMA OtherFits ==
    ASSUME NEW kind \in {"other", "modes", "servers"}, NEW p \in Plans, NEW offered \in SUBSET Modes
    PROVE  LET m == [Showing(kind, p) EXCEPT !.offered = offered]
           IN  /\ Showing(kind, p) \in Message /\ m \in Message
               /\ Showing(kind, p).kind = kind /\ m.kind = kind
               /\ Showing(kind, p).code = NoCode /\ m.code = NoCode
               /\ MessageFits(Showing(kind, p)) /\ MessageFits(m)
<1>1. Showing(kind, p) \in Message
  BY ShowingType
<1>2. Showing(kind, p).kind = kind /\ Showing(kind, p).code = NoCode
  BY DEF Showing
<1> QED
  BY <1>1, <1>2 DEF Message, MessageFits

(* The answer to the choice of a plan. *)
LEMMA AnswerFits ==
    ASSUME TypeOK, NEW p \in Plans
    PROVE  /\ Answer(p) \in Message /\ MessageFits(Answer(p)) /\ Answer(p).code = NoCode
           /\ Answer(p).kind \in {"modes", "confirm"}
           /\ Answer(p).kind = "confirm" =>
                 Answer(p).mode \in Modes
                 /\ (Answer(p).mode = "server" <=> Answer(p).server # NoServer)
<1> DEFINE only == OfferedModes(p)
<1>1. only \subseteq Modes
  BY DEF OfferedModes
<1>2. CASE only \in {{"inventory"}, {"mtproxy"}}
  <2>1. (CHOOSE m \in only : TRUE) \in {"inventory", "mtproxy"}
    BY <1>2
  <2>2. PICK mode \in {"inventory", "mtproxy"} : mode = CHOOSE m \in only : TRUE
    BY <2>1
  <2>3. Answer(p) = Confirmation(p, mode, NoServer)
    BY <1>2, <2>2 DEF Answer
  <2> QED
    BY <2>3, ConfirmationFits DEF Modes, MessageFits
<1>3. CASE only \notin {{"inventory"}, {"mtproxy"}} /\ only = {"server"}
           /\ Cardinality(ServerOptions(p)) = 1
  <2>1. ServerOptions(p) \subseteq Servers /\ ServerOptions(p) # {}
    <3>1. ServerOptions(p) \subseteq Servers
      BY DEF ServerOptions, TypeOK
    <3>2. Cardinality({}) = 0
      BY FS_EmptySet
    <3> QED
      BY <1>3, <3>1, <3>2
  <2>2. PICK v \in Servers : v = CHOOSE w \in ServerOptions(p) : TRUE
    BY <2>1
  <2>3. Answer(p) = Confirmation(p, "server", v)
    BY <1>3, <2>2 DEF Answer
  <2>4. v # NoServer
    BY CheckoutAssumption
  <2> QED
    BY <2>3, <2>4, ConfirmationFits DEF Modes, MessageFits
<1>4. CASE only \notin {{"inventory"}, {"mtproxy"}}
           /\ ~ (only = {"server"} /\ Cardinality(ServerOptions(p)) = 1)
  <2>1. Answer(p) = [Showing("modes", p) EXCEPT !.offered = only]
    BY <1>4 DEF Answer
  <2> HIDE DEF only
  <2> QED
    BY <1>1, <2>1, OtherFits
<1> QED
  BY <1>2, <1>3, <1>4

(* What a confirmation leaves in the FSM data agrees with it. *)
LEMMA ChosenFits ==
    ASSUME NEW u, NEW m \in Message, m.kind = "confirm", MessageFits(m), m.code = NoCode
    PROVE  Chosen(u, m) \in Data /\ DataFits(Chosen(u, m)) /\ Agrees(Chosen(u, m), m)
BY DEF Chosen, Data, DataFits, Agrees, MessageFits, Message

(* Data with another plan, and what may change with it. *)
LEMMA ClearedFits ==
    ASSUME NEW p \in Plans
    PROVE  [Cleared EXCEPT !.plan = p] \in Data /\ DataFits([Cleared EXCEPT !.plan = p])
           /\ Cleared \in Data /\ DataFits(Cleared)
<1>1. Cleared \in Data
  BY InitialTypes
<1>2. Cleared.mode = NoMode /\ Cleared.server = NoServer /\ Cleared.asked = FALSE
  BY DEF Cleared
<1>3. NoMode # "server"
  BY CheckoutAssumption DEF Modes
<1> QED
  BY <1>1, <1>2, <1>3 DEF Data, DataFits

-----------------------------------------------------------------------------
(* The actions of the Telegram dialogue.                                   *)

(* The choice of a plan. *)
LEMMA BuySpeaks ==
    ASSUME TypeOK, NEW u \in TelegramUsers, NEW s \in Slots, NEW p \in Plans, Buy(u, s, p)
    PROVE  Speaks(u)
<1>1. PICK m : m = Answer(p)
  OBVIOUS
<1>2. /\ screen' = [screen EXCEPT ![u][s] = m]
      /\ newest' = [newest EXCEPT ![u] = s]
      /\ fsm' = [fsm EXCEPT ![u] = IF m.kind = "confirm" THEN Chosen(u, m)
                                   ELSE [Cleared EXCEPT !.plan = p]]
  BY <1>1 DEF Buy, Show, Remember
<1>3. m \in Message /\ MessageFits(m) /\ m.code = NoCode
  BY <1>1, AnswerFits
<1>4. CASE m.kind = "confirm"
  BY <1>2, <1>3, <1>4, ChosenFits DEF Speaks
<1>5. CASE m.kind # "confirm"
  <2>1. Agrees([Cleared EXCEPT !.plan = p], m)
    BY <1>5 DEF Agrees
  <2>2. [Cleared EXCEPT !.plan = p] \in Data /\ DataFits([Cleared EXCEPT !.plan = p])
    BY ClearedFits
  <2> QED
    BY <1>2, <1>3, <1>5, <2>1, <2>2, Zenon DEF Speaks
<1> QED
  BY <1>4, <1>5

(* A message of a chat. *)
LEMMA MessageType ==
    ASSUME TypeOK, NEW u \in Users, NEW s \in Slots
    PROVE  /\ screen[u][s] \in Message /\ screen[u][s].plan \in Plans
           /\ screen[u][s].offered \subseteq Modes
BY DEF TypeOK, Message

(* The choice of a mode. *)
LEMMA BuyModeSpeaks ==
    ASSUME TypeOK, NEW u \in TelegramUsers, NEW s \in Slots, NEW mode \in Modes, BuyMode(u, s, mode)
    PROVE  Speaks(u)
<1>1. PICK p \in Plans : p = screen[u][s].plan
  BY MessageType DEF Users
<1>2. PICK m : m = Confirmation(p, mode, NoServer)
  OBVIOUS
<1>3. mode # "server"
  BY DEF BuyMode
<1>4. /\ screen' = [screen EXCEPT ![u][s] = m]
      /\ newest' = [newest EXCEPT ![u] = s]
      /\ fsm' = [fsm EXCEPT ![u] = Chosen(u, m)]
  BY <1>1, <1>2 DEF BuyMode, Show, Remember
<1>5. m \in Message /\ MessageFits(m) /\ m.code = NoCode /\ m.kind = "confirm"
  BY <1>2, <1>3, ConfirmationFits
<1> QED
  BY <1>4, <1>5, ChosenFits DEF Speaks

(* The list of servers keeps what the chat remembers of mode and server. *)
LEMMA BuyFromServersSpeaks ==
    ASSUME TypeOK, DialogueSound, NEW u \in TelegramUsers, NEW s \in Slots, BuyFromServers(u, s)
    PROVE  Speaks(u)
<1>1. PICK p \in Plans : p = screen[u][s].plan
  BY MessageType DEF Users
<1>2. PICK m : m = Showing("servers", p)
  OBVIOUS
<1>3. PICK d : d = [fsm[u] EXCEPT !.plan = p, !.code = NoCode, !.asked = FALSE]
  OBVIOUS
<1>4. /\ screen' = [screen EXCEPT ![u][s] = m]
      /\ newest' = [newest EXCEPT ![u] = s]
      /\ fsm' = [fsm EXCEPT ![u] = d]
  BY <1>1, <1>2, <1>3 DEF BuyFromServers, Show, TypeOK
<1>5. m \in Message /\ MessageFits(m) /\ m.code = NoCode /\ m.kind = "servers"
  BY <1>2, OtherFits
<1>6. d \in Data /\ DataFits(d)
  <2>1. fsm[u] \in Data /\ DataFits(fsm[u])
    BY DEF TypeOK, DialogueSound
  <2>2. d \in Data /\ d.mode = fsm[u].mode /\ d.server = fsm[u].server /\ d.asked = FALSE
    BY <1>3, <2>1 DEF Data
  <2> QED
    BY <2>1, <2>2 DEF DataFits
<1>7. Agrees(d, m)
  BY <1>5 DEF Agrees
<1> QED
  BY <1>4, <1>5, <1>6, <1>7 DEF Speaks

(* The choice of a server. *)
LEMMA BuyServerSpeaks ==
    ASSUME TypeOK, NEW u \in TelegramUsers, NEW s \in Slots, NEW v \in Servers, BuyServer(u, s, v)
    PROVE  Speaks(u)
<1>1. PICK p \in Plans : p = screen[u][s].plan
  BY MessageType DEF Users
<1>2. PICK m : m = Confirmation(p, "server", v)
  OBVIOUS
<1>3. v # NoServer
  BY CheckoutAssumption
<1>4. /\ screen' = [screen EXCEPT ![u][s] = m]
      /\ newest' = [newest EXCEPT ![u] = s]
      /\ fsm' = [fsm EXCEPT ![u] = Chosen(u, m)]
  BY <1>1, <1>2 DEF BuyServer, Show, Remember
<1>5. m \in Message /\ MessageFits(m) /\ m.code = NoCode /\ m.kind = "confirm"
  BY <1>2, <1>3, ConfirmationFits DEF Modes
<1> QED
  BY <1>4, <1>5, ChosenFits DEF Speaks

(* The question for a promo code. *)
LEMMA AskPromoSpeaks ==
    ASSUME TypeOK, DialogueSound, NEW u \in TelegramUsers, NEW s \in Slots, AskPromo(u, s)
    PROVE  Speaks(u)
<1>1. PICK p \in Plans : p = screen[u][s].plan
  BY MessageType DEF Users
<1>2. PICK t \in Slots : Show(u, t, Menu)
  BY DEF AskPromo
<1>3. PICK d : d = [fsm[u] EXCEPT !.plan = p, !.asked = TRUE]
  OBVIOUS
<1>4. /\ screen' = [screen EXCEPT ![u][t] = Menu]
      /\ newest' = [newest EXCEPT ![u] = t]
      /\ fsm' = [fsm EXCEPT ![u] = d]
  BY <1>1, <1>2, <1>3 DEF AskPromo, Show, TypeOK
<1>5. Menu \in Message /\ MessageFits(Menu) /\ Menu.kind = "other"
  BY InitialTypes, OtherFits DEF Menu
<1>6. d \in Data /\ DataFits(d)
  <2>1. fsm[u] \in Data /\ DataFits(fsm[u]) /\ fsm[u].mode # NoMode
    BY DEF AskPromo, TypeOK, DialogueSound
  <2>2. d \in Data /\ d.mode = fsm[u].mode /\ d.server = fsm[u].server
    BY <1>3, <2>1 DEF Data
  <2> QED
    BY <2>1, <2>2 DEF DataFits
<1>7. Agrees(d, Menu)
  BY <1>5 DEF Agrees
<1> QED
  BY <1>4, <1>5, <1>6, <1>7 DEF Speaks

(* The code is typed in: the newest confirmation shows its discount. *)
LEMMA EnterPromoSpeaks ==
    ASSUME TypeOK, DialogueSound, NEW u \in TelegramUsers, NEW c \in Codes, EnterPromo(u, c)
    PROVE  Speaks(u)
<1>1. PICK p \in Plans, mode \in Modes \cup {NoMode}, v \in Servers \cup {NoServer} :
          p = fsm[u].plan /\ mode = fsm[u].mode /\ v = fsm[u].server
  BY DEF TypeOK, Data
<1>2. mode \in Modes /\ (mode = "server" <=> v # NoServer)
  BY <1>1 DEF EnterPromo, DialogueSound, DataFits
<1>3. PICK terms \in Terms : terms = promos[c].terms
  BY DEF TypeOK
<1>4. PICK m : m = [Confirmation(p, mode, v) EXCEPT !.code = c, !.terms = terms,
                                                  !.total = Due(Price(p, mode), terms)]
  OBVIOUS
<1>5. PICK d : d = [fsm[u] EXCEPT !.code = c, !.asked = FALSE]
  OBVIOUS
<1>6. /\ screen' = [screen EXCEPT ![u][newest[u]] = m]
      /\ newest' = [newest EXCEPT ![u] = newest[u]]
      /\ fsm' = [fsm EXCEPT ![u] = d]
  <2>1. /\ Show(u, newest[u], m)
        /\ fsm' = [fsm EXCEPT ![u].code = c, ![u].asked = FALSE]
    BY <1>1, <1>3, <1>4 DEF EnterPromo
  <2> QED
    BY <1>5, <2>1 DEF Show, TypeOK
<1>7. Due(Price(p, mode), terms) \in Nat
  <2>1. Price(p, mode) \in Nat /\ Price(p, mode) >= MinAmount /\ MinAmount \in Nat
    BY PriceInBounds, CheckoutAssumption
  <2>2. Due(Price(p, mode), terms) \in MinAmount..Price(p, mode)
    BY <2>1, DiscountInBounds
  <2> QED
    BY <2>1, <2>2
<1>8. m \in Message /\ m.kind = "confirm" /\ m.plan = p /\ m.mode = mode /\ m.server = v
      /\ m.code = c /\ m.terms = terms /\ m.total = Due(Price(p, mode), terms)
  <2>1. /\ Confirmation(p, mode, v) \in Message
        /\ Confirmation(p, mode, v).kind = "confirm" /\ Confirmation(p, mode, v).plan = p
        /\ Confirmation(p, mode, v).mode = mode /\ Confirmation(p, mode, v).server = v
    BY <1>2, ConfirmationFits
  <2> QED
    BY <1>4, <1>7, <2>1 DEF Message
<1>9. MessageFits(m)
  <2>1. c # NoCode
    BY CheckoutAssumption
  <2> QED
    BY <1>2, <1>8, <2>1 DEF MessageFits
<1>10. d \in Data /\ DataFits(d) /\ Agrees(d, m)
  BY <1>1, <1>2, <1>5, <1>8 DEF TypeOK, Data, DataFits, Agrees
<1>11. newest[u] \in Slots
  BY DEF TypeOK, Users
<1> QED
  BY <1>6, <1>8, <1>9, <1>10, <1>11 DEF Speaks

(* The dialogue of VK and WhatsApp. *)
LEMMA ReplySpeaks ==
    ASSUME NEW u \in ChatUsers, NEW m \in Message, MessageFits(m), m.code = NoCode, Reply(u, m)
    PROVE  Speaks(u)
<1>1. FirstSlot \in Slots
  BY InitialTypes
<1> QED
  BY <1>1 DEF Reply, Show, Speaks

(* What a mode is answered with. *)
LEMMA AfterModeFits ==
    ASSUME NEW m \in Message, NEW mode \in Modes
    PROVE  AfterMode(m, mode) \in Message /\ MessageFits(AfterMode(m, mode))
           /\ AfterMode(m, mode).code = NoCode
<1>1. m.plan \in Plans
  BY DEF Message
<1>2. CASE mode = "server"
  BY <1>1, <1>2, OtherFits DEF AfterMode
<1>3. CASE mode # "server"
  <2>1. AfterMode(m, mode) = Confirmation(m.plan, mode, NoServer)
    BY <1>3 DEF AfterMode
  <2> QED
    BY <1>1, <1>3, <2>1, ConfirmationFits
<1> QED
  BY <1>2, <1>3

(* The presses of VK and WhatsApp on anything but a confirm button. *)
LEMMA ChatSpeaks ==
    ASSUME TypeOK, NEW u \in ChatUsers,
           \/ \E p \in Plans : VkPlanEntry(u, p) \/ WhatsappPlanEntry(u, p)
           \/ \E mode \in Modes : VkBuyMode(u, mode) \/ WhatsappBuyMode(u, mode)
           \/ \E v \in Servers : VkServerConfirmation(u, v) \/ WhatsappServerConfirmation(u, v)
    PROVE  Speaks(u)
<1>1. FirstSlot \in Slots /\ u \in Users
  BY InitialTypes DEF Users
<1>2. Shown(u) \in Message /\ Shown(u).plan \in Plans
  BY <1>1, MessageType DEF Shown
<1>3. ASSUME NEW p \in Plans, VkPlanEntry(u, p) PROVE Speaks(u)
  BY <1>3, AnswerFits, ReplySpeaks DEF VkPlanEntry
<1>4. ASSUME NEW p \in Plans, WhatsappPlanEntry(u, p) PROVE Speaks(u)
  <2>1. PICK m : m = Answer(p)
    OBVIOUS
  <2>2. PICK n : n = [m EXCEPT !.offered = ThreeButtons(@)]
    OBVIOUS
  <2>3. m \in Message /\ MessageFits(m) /\ m.code = NoCode
    BY <2>1, AnswerFits
  <2>4. n \in Message /\ MessageFits(n) /\ n.code = NoCode
    <3>1. ThreeButtons(m.offered) \subseteq Modes
      BY <2>3 DEF ThreeButtons, Message
    <3> QED
      BY <2>2, <2>3, <3>1 DEF Message, MessageFits
  <2>5. Reply(u, n)
    BY <1>4, <2>1, <2>2 DEF WhatsappPlanEntry
  <2> QED
    BY <2>4, <2>5, ReplySpeaks
<1>5. ASSUME NEW mode \in Modes, VkBuyMode(u, mode) \/ WhatsappBuyMode(u, mode) PROVE Speaks(u)
  BY <1>2, <1>5, AfterModeFits, ReplySpeaks DEF VkBuyMode, WhatsappBuyMode
<1>6. ASSUME NEW v \in Servers, VkServerConfirmation(u, v) \/ WhatsappServerConfirmation(u, v)
      PROVE  Speaks(u)
  <2>1. v # NoServer
    BY CheckoutAssumption
  <2>2. PICK p \in Plans : p = Shown(u).plan
    BY <1>2
  <2>3. Reply(u, Confirmation(p, "server", v))
    BY <1>6, <2>2 DEF VkServerConfirmation, WhatsappServerConfirmation
  <2> QED
    BY <2>1, <2>3, ConfirmationFits, ReplySpeaks DEF Modes
<1> QED
  BY <1>3, <1>4, <1>5, <1>6
-----------------------------------------------------------------------------
(***************************************************************************)
(* The row of a handler, from the press on the button to the commit        *)
(***************************************************************************)

(* What the row has of the message its customer confirmed. *)
AsConfirmed(r) ==
    r.shown.kind = "confirm" =>
        /\ r.plan = r.shown.plan /\ r.server = r.shown.server /\ r.code = r.shown.code
        /\ r.mode = r.shown.mode \/ (r.mode = "mtproxy" /\ r.shown.mode = "inventory")

(* A row as the button asks for it ... *)
Fresh(r) ==
    /\ r.terms = NoTerms /\ r.discount = 0 /\ r.key = NoKey
    /\ r.mode = "server" <=> r.server # NoServer
    /\ MessageFits(r.shown) /\ AsConfirmed(r)
    /\ r.shown.kind = "confirm" => r.mode = r.shown.mode

(* ... with its mode, its server and its price ... *)
Resolved(r) ==
    /\ r.mode \in Modes /\ Allows(r.plan, r.mode)
    /\ r.mode = "inventory" => Provisioning[r.plan] # "mtproxy"
    /\ r.mode = "server" <=> r.server # NoServer
    /\ r.original = Price(r.plan, r.mode)
    /\ MessageFits(r.shown) /\ AsConfirmed(r)

(* ... and with its discount. *)
Charged(r) ==
    /\ r.amount = Due(r.original, r.terms)
    /\ r.terms # NoTerms => r.discount = Discount(r.original, r.terms)
    /\ r.terms = NoTerms => r.discount = 0
    /\ r.code = NoCode => r.terms = NoTerms

(* A row of prepared keys has one of its plan, and no other row has any. *)
Filled(r) ==
    /\ r.mode = "inventory" => r.key \in Keys /\ PlanOf[r.key] = r.plan
    /\ r.mode # "inventory" => r.key = NoKey

(* What a handler has at each of its steps. *)
LocalSound(l) ==
    /\ l.pc \in {"resolve", "redeem", "write", "commit", "tell"} =>
          l.user \in Users /\ l.row.user = l.user
    /\ l.pc = "resolve" => Fresh(l.row)
    /\ l.pc \in {"redeem", "write", "commit", "tell"} => Resolved(l.row) /\ Charged(l.row)
    /\ l.pc = "redeem" => l.row.terms = NoTerms /\ l.row.code # NoCode
    /\ l.pc = "commit" => Filled(l.row)
    /\ l.pc \notin {"commit", "tell"} => l.row.key = NoKey
    /\ l.user \in TelegramUsers => l.kept = {}

(* The keys the session of a handler has locked. *)
Locks(l) == l.kept \cup ({l.row.key} \ {NoKey})

(* A handler that has redeemed a code has the only use of it under way. *)
HoldsCode(h, l) ==
    l.pc \in {"write", "commit"} /\ l.row.code # NoCode =>
        /\ l.used = promos[l.row.code].used + 1
        /\ l.row.terms = promos[l.row.code].terms
        /\ Usable(l.row.user, l.row.code)
        /\ \A g \in Handlers \ {h} :
              run[g].pc \in {"write", "commit"} => run[g].row.code # l.row.code

RunsSound == \A h \in Handlers : LocalSound(run[h])

CodesHeld == \A h \in Handlers : HoldsCode(h, run[h])

KeysHeld ==
    /\ \A h \in Handlers : \A k \in Locks(run[h]) : keyOf[k] = 0
    /\ \A g, h \in Handlers : g # h => Locks(run[g]) \cap Locks(run[h]) = {}

OrdersSound ==
    \A i \in Committed :
        /\ orders[i].user \in Users
        /\ Resolved(orders[i]) /\ Charged(orders[i]) /\ Filled(orders[i])

(* An id is given to one order. *)
NumbersKept ==
    /\ \A i \in Committed : i <= lastId
    /\ \A h \in Handlers :
          /\ run[h].pc \in {"commit", "tell"} => run[h].id \in 1..lastId
          /\ run[h].pc = "commit" => orders[run[h].id] = NoOrder
          /\ run[h].pc = "tell" /\ run[h].user \in TelegramUsers =>
                orders[run[h].id].user = run[h].user
    /\ \A g, h \in Handlers :
          g # h /\ run[g].pc = "commit" /\ run[h].pc = "commit" => run[g].id # run[h].id

OrdersKept ==
    /\ RunsSound /\ CodesHeld /\ KeysHeld /\ OrdersSound /\ NumbersKept
    /\ UsesAreCounted /\ OneKeyEach /\ TelegramToldExists

CheckoutInv == TypeOK /\ DialogueSound /\ OrdersKept

-----------------------------------------------------------------------------
(* A handler goes on to l, which reserves nothing more. *)
Quiet(h, l) ==
    /\ l \in Local /\ LocalSound(l)
    /\ l.pc # "commit"
    /\ l.pc = "tell" => l.user \in ChatUsers /\ l.id \in 1..lastId
    /\ Locks(l) \subseteq Locks(run[h])
    /\ HoldsCode(h, l)
    /\ run' = [run EXCEPT ![h] = l]
    /\ UNCHANGED <<keyOf, promos, orders>>
    /\ lastId' \in lastId..MaxOrders

(* A customer is told the number of an order. *)
Tells ==
    \/ told' = told
    \/ \E u \in Users, i \in 1..lastId :
          /\ told' = told \cup {<<u, i>>}
          /\ u \in TelegramUsers => orders[i].user = u

(* Locks are keys. *)
LEMMA LocksType ==
    ASSUME NEW l \in Local
    PROVE  Locks(l) \subseteq Keys
BY DEF Local, OrderRow, Locks

(* A handler that goes on quietly disturbs nobody. *)
LEMMA QuietKeeps ==
    ASSUME TypeOK, OrdersKept, NEW h \in Handlers, NEW l, Quiet(h, l), Tells
    PROVE  /\ OrdersKept' /\ run' \in [Handlers -> Local] /\ lastId' \in 0..MaxOrders
           /\ told' \subseteq Users \X OrderIds
<1>1. /\ l \in Local /\ LocalSound(l) /\ l.pc # "commit"
      /\ l.pc = "tell" => l.user \in ChatUsers /\ l.id \in 1..lastId
      /\ Locks(l) \subseteq Locks(run[h]) /\ HoldsCode(h, l)
      /\ run' = [run EXCEPT ![h] = l]
      /\ keyOf' = keyOf /\ promos' = promos /\ orders' = orders
      /\ lastId' \in lastId..MaxOrders
  BY DEF Quiet
<1>2. run' \in [Handlers -> Local] /\ lastId' \in 0..MaxOrders /\ lastId' >= lastId
      /\ lastId \in Nat /\ lastId' \in Nat
  BY <1>1, CheckoutAssumption DEF TypeOK
<1>3. \A g \in Handlers : run'[g] = IF g = h THEN l ELSE run[g]
  BY <1>1 DEF TypeOK
<1>4. Committed' = Committed
  BY <1>1 DEF Committed
<1>5. RunsSound'
  <2> SUFFICES ASSUME NEW g \in Handlers PROVE LocalSound(run'[g])
    BY DEF RunsSound, LocalSound, Fresh, Resolved, Charged, Filled, AsConfirmed, MessageFits
  <2> QED
    BY <1>1, <1>3 DEF OrdersKept, RunsSound
<1>6. CodesHeld'
  <2> SUFFICES ASSUME NEW g \in Handlers,
                      run'[g].pc \in {"write", "commit"}, run'[g].row.code # NoCode
               PROVE  /\ run'[g].used = promos[run'[g].row.code].used + 1
                      /\ run'[g].row.terms = promos[run'[g].row.code].terms
                      /\ Usable(run'[g].row.user, run'[g].row.code)
                      /\ \A f \in Handlers \ {g} :
                            run'[f].pc \in {"write", "commit"} => run'[f].row.code # run'[g].row.code
    BY <1>1, <1>4 DEF CodesHeld, HoldsCode, Usable, RedeemedBy
  <2>1. CASE g = h
    BY <1>1, <1>3, <2>1 DEF HoldsCode
  <2>2. CASE g # h
    <3>1. /\ run'[g] = run[g] /\ HoldsCode(g, run[g])
      BY <1>3, <2>2 DEF OrdersKept, CodesHeld
    <3>2. ASSUME NEW f \in Handlers \ {g}, run'[f].pc \in {"write", "commit"}
          PROVE  run'[f].row.code # run'[g].row.code
      <4>1. CASE f = h
        <5>1. run'[f] = l
          BY <1>3, <4>1
        <5>2. CASE l.row.code = NoCode
          BY <5>1, <5>2
        <5>3. CASE l.row.code # NoCode
          BY <1>1, <2>2, <3>1, <3>2, <5>1, <5>3 DEF HoldsCode
        <5> QED
          BY <5>2, <5>3
      <4>2. CASE f # h
        BY <1>3, <3>1, <3>2, <4>2 DEF HoldsCode
      <4> QED
        BY <4>1, <4>2
    <3> QED
      BY <3>1, <3>2 DEF HoldsCode
  <2> QED
    BY <2>1, <2>2
<1>7. KeysHeld'
  <2>1. \A g \in Handlers : Locks(run'[g]) \subseteq Locks(run[g])
    BY <1>1, <1>3
  <2>2. KeysHeld
    BY DEF OrdersKept
  <2>3. /\ \A g \in Handlers : \A k \in Locks(run'[g]) : keyOf[k] = 0
        /\ \A f, g \in Handlers : f # g => Locks(run'[f]) \cap Locks(run'[g]) = {}
    BY <2>1, <2>2 DEF KeysHeld
  <2> QED
    BY <1>1, <2>3 DEF KeysHeld, Locks
<1>8. OrdersSound' /\ UsesAreCounted' /\ OneKeyEach'
  BY <1>1, <1>4 DEF OrdersKept, OrdersSound, UsesAreCounted, OneKeyEach, Resolved, Charged,
     Filled, AsConfirmed, MessageFits
<1>9. NumbersKept'
  <2>1. \A i \in Committed : i \in Nat /\ i <= lastId'
    BY <1>2 DEF OrdersKept, NumbersKept, Committed, OrderIds
  <2>2. ASSUME NEW g \in Handlers
        PROVE  /\ run'[g].pc \in {"commit", "tell"} => run'[g].id \in 1..lastId'
               /\ run'[g].pc = "commit" => orders[run'[g].id] = NoOrder
               /\ run'[g].pc = "tell" /\ run'[g].user \in TelegramUsers =>
                     orders[run'[g].id].user = run'[g].user
    <3>1. CASE g = h
      <4>1. 1..lastId \subseteq 1..lastId' /\ TelegramUsers \cap ChatUsers = {}
        BY <1>2, CheckoutAssumption
      <4> QED
        BY <1>1, <1>3, <3>1, <4>1
    <3>2. CASE g # h
      BY <1>2, <1>3, <3>2 DEF OrdersKept, NumbersKept
    <3> QED
      BY <3>1, <3>2
  <2>3. \A f, g \in Handlers :
          f # g /\ run'[f].pc = "commit" /\ run'[g].pc = "commit" => run'[f].id # run'[g].id
    BY <1>1, <1>3 DEF OrdersKept, NumbersKept
  <2> QED
    BY <1>1, <1>4, <2>1, <2>2, <2>3 DEF NumbersKept
<1>10. TelegramToldExists' /\ told' \subseteq Users \X OrderIds
  <2>1. TelegramToldExists /\ told \subseteq Users \X OrderIds
    BY DEF OrdersKept, TypeOK
  <2>2. CASE told' = told
    BY <1>1, <2>1, <2>2 DEF TelegramToldExists
  <2>3. ASSUME NEW u \in Users, NEW i \in 1..lastId, told' = told \cup {<<u, i>>},
               u \in TelegramUsers => orders[i].user = u
        PROVE  TelegramToldExists' /\ told' \subseteq Users \X OrderIds
    <3>1. i \in OrderIds
      BY CheckoutAssumption DEF TypeOK, OrderIds
    <3> QED
      BY <1>1, <2>1, <2>3, <3>1 DEF TelegramToldExists
  <2> QED
    BY <2>2, <2>3 DEF Tells
<1> QED
  BY <1>2, <1>5, <1>6, <1>7, <1>8, <1>9, <1>10 DEF OrdersKept

-----------------------------------------------------------------------------
(* The steps of a handler.                                                 *)

(* A handler that has nothing to do, or waits for the next message. *)
LEMMA RestingSound ==
    /\ Idle \in Local /\ LocalSound(Idle) /\ Locks(Idle) = {} /\ Idle.pc = "idle"
    /\ \A keys \in SUBSET Keys :
          LET l == [Idle EXCEPT !.pc = "more", !.kept = keys]
          IN  l \in Local /\ LocalSound(l) /\ Locks(l) = keys /\ l.pc = "more"
<1>1. NoUser \notin TelegramUsers
  BY CheckoutAssumption DEF Users
<1>2. Idle \in Local /\ LocalSound(Idle) /\ Locks(Idle) = {} /\ Idle.pc = "idle"
  BY <1>1, InitialTypes DEF Idle, NoOrder, LocalSound, Locks
<1>3. ASSUME NEW keys \in SUBSET Keys, NEW l, l = [Idle EXCEPT !.pc = "more", !.kept = keys]
      PROVE  l \in Local /\ LocalSound(l) /\ Locks(l) = keys /\ l.pc = "more"
  <2>1. l \in Local
    BY <1>3, InitialTypes
  <2>2. l.pc = "more" /\ l.kept = keys /\ l.row = Idle.row /\ l.user = NoUser
    BY <1>3 DEF Idle
  <2>3. Idle.row.key = NoKey
    BY DEF Idle, NoOrder
  <2> QED
    BY <1>1, <2>1, <2>2, <2>3 DEF LocalSound, Locks
<1> QED
  BY <1>2, <1>3

(* A step that writes nothing to the tables. *)
LEMMA StoredSame ==
    ASSUME TypeOK, UNCHANGED stored
    PROVE  UNCHANGED <<keyOf, promos, orders>> /\ lastId' \in lastId..MaxOrders
BY CheckoutAssumption DEF stored, TypeOK

(* The end of a session. *)
LEMMA EndQuiet ==
    ASSUME TypeOK, NEW h \in Handlers, End(h), UNCHANGED <<keyOf, promos, orders>>,
           lastId' \in lastId..MaxOrders
    PROVE  \E l : Quiet(h, l)
<1>1. HoldsCode(h, Idle)
  BY RestingSound DEF HoldsCode
<1> QED
  BY <1>1, RestingSound DEF End, Quiet

(* The end of a message's handling, whose keys stay locked. *)
LEMMA AnsweredQuiet ==
    ASSUME TypeOK, NEW h \in Handlers, NEW keys, keys \subseteq Locks(run[h]), Answered(h, keys),
           UNCHANGED <<keyOf, promos, orders>>, lastId' \in lastId..MaxOrders
    PROVE  \E l : Quiet(h, l)
<1>1. CASE End(h)
  BY <1>1, EndQuiet
<1>2. CASE run' = [run EXCEPT ![h] = [Idle EXCEPT !.pc = "more", !.kept = keys]]
  <2>1. PICK l : l = [Idle EXCEPT !.pc = "more", !.kept = keys]
    OBVIOUS
  <2>2. keys \in SUBSET Keys
    BY LocksType DEF TypeOK
  <2>3. l \in Local /\ LocalSound(l) /\ Locks(l) = keys /\ l.pc = "more"
    BY <2>1, <2>2, RestingSound
  <2>4. HoldsCode(h, l)
    BY <2>3 DEF HoldsCode
  <2>5. run' = [run EXCEPT ![h] = l]
    BY <1>2, <2>1
  <2> QED
    BY <2>3, <2>4, <2>5 DEF Quiet
<1> QED
  BY <1>1, <1>2 DEF Answered

(* The press on a confirm button. *)
LEMMA ConfirmQuiet ==
    ASSUME TypeOK, DialogueSound, RunsSound, NEW h \in Handlers, NEW u \in Users, NEW s \in Slots,
           NEW asked \in Data, Confirm(h, u, s, asked),
           asked.mode = "server" <=> asked.server # NoServer,
           s = newest[u] \/ u \in ChatUsers => Agrees(asked, screen[u][s]),
           run[h] = Idle \/ (run[h].pc = "more" /\ u \in ChatUsers)
    PROVE  \E l : Quiet(h, l)
<1>1. PICK m \in Message : m = screen[u][s] /\ MessageFits(m) /\ m.kind = "confirm"
  BY MessageType DEF DialogueSound, Confirm
<1>2. PICK shown : shown = IF s = newest[u] /\ ~ Busy(u) THEN m ELSE Menu
  OBVIOUS
<1>3. /\ shown \in Message /\ MessageFits(shown)
      /\ shown.kind = "confirm" => shown.plan = m.plan /\ Agrees(asked, shown)
  <2>1. Menu \in Message /\ Menu.kind = "other"
    BY InitialTypes DEF Menu, Showing
  <2>2. CASE shown = Menu
    BY <2>1, <2>2 DEF MessageFits
  <2>3. CASE shown = m /\ s = newest[u]
    BY <1>1, <2>3
  <2> QED
    BY <1>2, <2>2, <2>3
<1>4. PICK r : r = [NoOrder EXCEPT !.user = u, !.plan = m.plan, !.mode = asked.mode,
                      !.server = asked.server, !.code = asked.code, !.shown = shown]
  OBVIOUS
<1>5. r \in OrderRow /\ r.user = u /\ r.plan = m.plan /\ r.mode = asked.mode
      /\ r.server = asked.server /\ r.code = asked.code /\ r.shown = shown
      /\ r.terms = NoTerms /\ r.discount = 0 /\ r.key = NoKey
  <2>1. NoOrder \in OrderRow /\ m.plan \in Plans
    BY InitialTypes DEF Message
  <2>2. /\ u \in Users /\ asked.mode \in Modes \cup {NoMode} /\ shown \in Message
        /\ asked.server \in Servers \cup {NoServer} /\ asked.code \in Codes \cup {NoCode}
    BY <1>3 DEF Data
  <2>3. r \in OrderRow
    BY <1>4, <2>1, <2>2 DEF OrderRow
  <2> QED
    BY <1>4, <2>3 DEF NoOrder
<1>6. Fresh(r)
  BY <1>3, <1>5 DEF Fresh, AsConfirmed, Agrees
<1>7. PICK l : l = [run[h] EXCEPT !.pc = "resolve", !.user = u, !.slot = s, !.row = r]
  OBVIOUS
<1>8. run[h] \in Local
  BY DEF TypeOK
<1>9. l \in Local /\ l.pc = "resolve" /\ l.user = u /\ l.row = r /\ l.kept = run[h].kept
  BY <1>5, <1>7, <1>8 DEF Local
<1>10. u \in TelegramUsers => run[h].kept = {}
  BY CheckoutAssumption DEF Idle
<1>11. LocalSound(l)
  BY <1>5, <1>6, <1>9, <1>10 DEF LocalSound
<1>12. Locks(l) \subseteq Locks(run[h])
  BY <1>5, <1>9 DEF Locks
<1>13. HoldsCode(h, l)
  BY <1>9 DEF HoldsCode
<1>14. run' = [run EXCEPT ![h] = l]
  BY <1>1, <1>2, <1>4, <1>7, <1>8 DEF Confirm, TypeOK
<1>15. UNCHANGED <<keyOf, promos, orders>> /\ lastId' \in lastId..MaxOrders
  BY StoredSame DEF Confirm
<1> QED
  BY <1>9, <1>11, <1>12, <1>13, <1>14, <1>15 DEF Quiet

(* The mode a row gets is one of the modes, and the one asked for if it    *)
(* is not prepared keys on a plan of MTProxy.                              *)
LEMMA RequestedMode ==
    ASSUME NEW p \in Plans, NEW mode \in Modes \cup {NoMode}, NEW v
    PROVE  /\ Requested(p, mode, v) \in Modes
           /\ Requested(p, mode, v) = "inventory" => Provisioning[p] # "mtproxy"
           /\ mode # NoMode => \/ Requested(p, mode, v) = mode
                               \/ Requested(p, mode, v) = "mtproxy" /\ mode = "inventory"
<1>1. DefaultMode(p, v) \in Modes
  BY DEF DefaultMode, Modes
<1> QED
  BY <1>1 DEF Requested, Modes

(* The server a row gets is the one asked for, or the only one. *)
LEMMA AssignedServer ==
    ASSUME TypeOK, NEW p \in Plans, NEW mode \in Modes, NEW v \in Servers \cup {NoServer},
           NEW w \in Assigned(p, mode, v)
    PROVE  /\ w \in Servers \cup {NoServer}
           /\ mode = "server" <=> w # NoServer
           /\ mode = "server" /\ v # NoServer => w = v
<1>1. active \subseteq Servers /\ NoServer \notin Servers
  BY CheckoutAssumption DEF TypeOK
<1>2. CASE mode = "mtproxy"
  BY <1>2 DEF Assigned
<1>3. CASE mode = "inventory"
  BY <1>3 DEF Assigned
<1>4. CASE mode = "superkey"
  BY <1>4 DEF Assigned
<1>5. CASE mode = "server"
  BY <1>1, <1>5 DEF Assigned
<1> QED
  BY <1>2, <1>3, <1>4, <1>5 DEF Modes

(* What LocalSound says of the row of a handler that has not committed. *)
LEMMA RowsSound ==
    ASSUME TypeOK, RunsSound, NEW h \in Handlers
    PROVE  /\ run[h] \in Local /\ LocalSound(run[h]) /\ run[h].row \in OrderRow
           /\ run[h].row.plan \in Plans /\ run[h].row.mode \in Modes \cup {NoMode}
           /\ run[h].row.server \in Servers \cup {NoServer}
           /\ run[h].kept \subseteq Locks(run[h]) /\ run[h].kept \subseteq Keys
<1>1. run[h] \in Local
  BY DEF TypeOK
<1>2. run[h].row \in OrderRow /\ run[h].kept \subseteq Keys
  BY <1>1 DEF Local
<1> QED
  BY <1>1, <1>2 DEF OrderRow, RunsSound, Locks

(* The mode, the server and the price. *)
LEMMA ResolveQuiet ==
    ASSUME TypeOK, RunsSound, NEW h \in Handlers, Resolve(h)
    PROVE  \E l : Quiet(h, l)
<1>0. UNCHANGED <<keyOf, promos, orders>> /\ lastId' \in lastId..MaxOrders
  <2>1. UNCHANGED stored
    BY DEF Resolve
  <2> QED
    BY <2>1, StoredSame
<1>1. PICK r \in OrderRow, p \in Plans, asked \in Modes \cup {NoMode}, v \in Servers \cup {NoServer} :
          r = run[h].row /\ p = r.plan /\ asked = r.mode /\ v = r.server
  BY RowsSound
<1>2. PICK mode \in Modes : /\ mode = Requested(p, asked, v)
                            /\ mode = "inventory" => Provisioning[p] # "mtproxy"
  BY RequestedMode
<1>3. CASE ~ (Allows(p, mode) /\ Assigned(p, mode, v) # {})
  <2>1. Answered(h, run[h].kept)
    BY <1>1, <1>2, <1>3 DEF Resolve
  <2> QED
    BY <1>0, <2>1, RowsSound, AnsweredQuiet
<1>4. ASSUME Allows(p, mode), NEW w \in Assigned(p, mode, v), NEW price, price = Price(p, mode),
             NEW pc, pc = IF r.code = NoCode THEN "write" ELSE "redeem",
             run' = [run EXCEPT ![h].pc = pc,
                                ![h].row = [r EXCEPT !.mode = mode, !.server = w,
                                              !.original = price, !.amount = price]]
      PROVE  \E l : Quiet(h, l)
  <2>1. Fresh(r) /\ run[h].pc = "resolve" /\ run[h].user \in Users /\ r.user = run[h].user
    BY <1>1, RowsSound DEF LocalSound, Resolve
  <2>2. /\ w \in Servers \cup {NoServer} /\ (mode = "server" <=> w # NoServer)
        /\ mode = "server" /\ v # NoServer => w = v
    BY AssignedServer
  <2>3. price \in Nat
    BY <1>4, PriceInBounds
  <2>4. PICK q : q = [r EXCEPT !.mode = mode, !.server = w, !.original = price, !.amount = price]
    OBVIOUS
  <2>5. /\ q \in OrderRow /\ q.mode = mode /\ q.server = w /\ q.original = price
        /\ q.amount = price /\ q.user = r.user /\ q.plan = r.plan /\ q.code = r.code
        /\ q.terms = r.terms /\ q.discount = r.discount /\ q.key = r.key /\ q.shown = r.shown
    BY <2>2, <2>3, <2>4 DEF OrderRow
  <2>6. AsConfirmed(q)
    <3>1. SUFFICES ASSUME r.shown.kind = "confirm" PROVE AsConfirmed(q)
      BY <2>5 DEF AsConfirmed
    <3>2. /\ r.plan = r.shown.plan /\ v = r.shown.server /\ r.code = r.shown.code
          /\ asked = r.shown.mode /\ asked \in Modes /\ (asked = "server" <=> v # NoServer)
      BY <1>1, <2>1, <3>1 DEF Fresh, AsConfirmed, MessageFits
    <3>3. NoMode \notin Modes
      BY CheckoutAssumption
    <3>4. mode = asked \/ (mode = "mtproxy" /\ asked = "inventory")
      BY <1>2, <3>2, <3>3, RequestedMode
    <3>5. w = v
      BY <2>2, <3>2, <3>4
    <3> QED
      BY <2>5, <3>2, <3>4, <3>5 DEF AsConfirmed
  <2>7. Resolved(q)
    BY <1>1, <1>2, <1>4, <2>1, <2>2, <2>5, <2>6 DEF Resolved, Fresh
  <2>8. Charged(q) /\ q.key = NoKey /\ q.terms = NoTerms
    BY <2>1, <2>5 DEF Charged, Fresh, Due
  <2>9. PICK l : l = [run[h] EXCEPT !.pc = pc, !.row = q]
    OBVIOUS
  <2>10. l \in Local /\ l.pc = pc /\ l.row = q /\ l.user = run[h].user /\ l.kept = run[h].kept
    BY <1>4, <2>5, <2>9, RowsSound DEF Local
  <2>11. LocalSound(l)
    BY <1>4, <2>1, <2>5, <2>7, <2>8, <2>10, RowsSound DEF LocalSound
  <2>12. Locks(l) \subseteq Locks(run[h])
    BY <2>8, <2>10 DEF Locks
  <2>13. HoldsCode(h, l)
    BY <1>4, <2>5, <2>10 DEF HoldsCode
  <2>14. run' = [run EXCEPT ![h] = l]
    BY <1>4, <2>4, <2>9 DEF TypeOK
  <2> QED
    BY <1>0, <1>4, <2>10, <2>11, <2>12, <2>13, <2>14 DEF Quiet
<1>5. CASE Allows(p, mode) /\ Assigned(p, mode, v) # {}
  <2>1. PICK price, pc : /\ price = Price(p, mode)
                         /\ pc = IF r.code = NoCode THEN "write" ELSE "redeem"
    OBVIOUS
  <2>2. PICK w \in Assigned(p, mode, v) :
            run' = [run EXCEPT ![h].pc = pc,
                               ![h].row = [r EXCEPT !.mode = mode, !.server = w,
                                             !.original = price, !.amount = price]]
    <3>1. IF Allows(p, mode) /\ Assigned(p, mode, v) # {}
          THEN \E w \in Assigned(p, mode, v) :
                 run' = [run EXCEPT ![h].pc = IF r.code = NoCode THEN "write" ELSE "redeem",
                                    ![h].row = [r EXCEPT !.mode = mode, !.server = w,
                                                  !.original = Price(p, mode),
                                                  !.amount = Price(p, mode)]]
          ELSE Answered(h, run[h].kept)
      BY <1>1, <1>2, Zenon DEF Resolve
    <3> QED
      BY <1>5, <2>1, <3>1
  <2> QED
    BY <1>4, <1>5, <2>1, <2>2
<1> QED
  BY <1>3, <1>5

(* The promo code. *)
LEMMA RedeemQuiet ==
    ASSUME TypeOK, RunsSound, NEW h \in Handlers, Redeem(h)
    PROVE  \E l : Quiet(h, l)
<1>0. UNCHANGED <<keyOf, promos, orders>> /\ lastId' \in lastId..MaxOrders
  <2>1. UNCHANGED stored
    BY DEF Redeem
  <2> QED
    BY <2>1, StoredSame
<1>1. PICK r \in OrderRow : r = run[h].row
  BY RowsSound
<1>2. /\ run[h].pc = "redeem" /\ run[h].user \in Users /\ r.user = run[h].user
      /\ Resolved(r) /\ Charged(r) /\ r.terms = NoTerms /\ r.code # NoCode /\ r.key = NoKey
  BY <1>1, RowsSound DEF LocalSound, Redeem
<1>3. PICK c \in Codes : c = r.code
  BY <1>2 DEF OrderRow
<1>4. PICK terms \in Terms, used \in Nat : terms = promos[c].terms /\ used = promos[c].used + 1
  BY DEF TypeOK
<1>5. CASE ~ Usable(r.user, c)
  <2>1. End(h)
    BY <1>1, <1>3, <1>5 DEF Redeem
  <2> QED
    BY <1>0, <2>1, EndQuiet
<1>6. CASE Usable(r.user, c)
  <2>1. r.original \in Nat /\ r.original >= MinAmount /\ MinAmount \in Nat
    BY <1>2, PriceInBounds, CheckoutAssumption DEF Resolved, OrderRow
  <2>2. PICK discount \in Nat, due \in Nat :
            discount = Discount(r.original, terms) /\ due = Due(r.original, terms)
    <3>1. terms # NoTerms
      BY CheckoutAssumption
    <3> QED
      BY <2>1, <3>1, DiscountInBounds
  <2>3. PICK q : q = [r EXCEPT !.terms = terms, !.discount = discount, !.amount = due]
    OBVIOUS
  <2>4. /\ q \in OrderRow /\ q.terms = terms /\ q.discount = discount /\ q.amount = due
        /\ q.user = r.user /\ q.plan = r.plan /\ q.mode = r.mode /\ q.server = r.server
        /\ q.code = r.code /\ q.key = r.key /\ q.original = r.original /\ q.shown = r.shown
    BY <2>3 DEF OrderRow
  <2>5. Resolved(q)
    BY <1>2, <2>4 DEF Resolved, AsConfirmed
  <2>6. Charged(q)
    BY <1>2, <2>2, <2>4, CheckoutAssumption DEF Charged
  <2>7. PICK l : l = [run[h] EXCEPT !.pc = "write", !.used = used, !.row = q]
    OBVIOUS
  <2>8. /\ l \in Local /\ l.pc = "write" /\ l.used = used /\ l.row = q /\ l.user = run[h].user
        /\ l.kept = run[h].kept
    BY <2>4, <2>7, RowsSound DEF Local
  <2>9. LocalSound(l)
    BY <1>2, <2>4, <2>5, <2>6, <2>8, RowsSound DEF LocalSound
  <2>10. Locks(l) \subseteq Locks(run[h])
    BY <1>2, <2>4, <2>8 DEF Locks
  <2>11. HoldsCode(h, l)
    <3>1. RowFree(c)
      BY <1>1, <1>3 DEF Redeem
    <3> QED
      BY <1>3, <1>4, <1>6, <2>4, <2>8, <3>1 DEF HoldsCode, RowFree
  <2>12. run' = [run EXCEPT ![h] = l]
    <3>1. run' = [run EXCEPT ![h].pc = "write", ![h].used = used, ![h].row = q]
      BY <1>1, <1>3, <1>4, <1>6, <2>2, <2>3 DEF Redeem
    <3> QED
      BY <2>7, <3>1 DEF TypeOK
  <2> QED
    BY <1>0, <2>8, <2>9, <2>10, <2>11, <2>12 DEF Quiet
<1> QED
  BY <1>5, <1>6

(* Where nothing is written and no handler moves, nothing changes. *)
LEMMA StillKeeps ==
    ASSUME OrdersKept, UNCHANGED <<keyOf, promos, orders, lastId, run, told>>
    PROVE  OrdersKept'
<1>1. Committed' = Committed
  BY DEF Committed
<1>2. RunsSound'
  BY DEF OrdersKept, RunsSound, LocalSound, Fresh, Resolved, Charged, Filled, AsConfirmed, MessageFits
<1>3. CodesHeld'
  BY <1>1 DEF OrdersKept, CodesHeld, HoldsCode, Usable, RedeemedBy
<1>4. KeysHeld'
  BY DEF OrdersKept, KeysHeld, Locks
<1>5. OrdersSound' /\ UsesAreCounted' /\ OneKeyEach'
  BY <1>1 DEF OrdersKept, OrdersSound, UsesAreCounted, OneKeyEach, Resolved, Charged, Filled,
     AsConfirmed, MessageFits
<1>6. NumbersKept' /\ TelegramToldExists'
  BY <1>1 DEF OrdersKept, NumbersKept, TelegramToldExists
<1> QED
  BY <1>2, <1>3, <1>4, <1>5, <1>6 DEF OrdersKept

(* A handler goes on to l, with the next id and with keys nobody else has. *)
Reserves(h, l) ==
    /\ l \in Local /\ LocalSound(l)
    /\ run[h].pc = "write" /\ l.pc = "commit"
    /\ l.row.code = run[h].row.code /\ l.row.user = run[h].row.user /\ l.used = run[h].used
    /\ l.row.terms = run[h].row.terms
    /\ l.id = lastId + 1
    /\ \A k \in Locks(l) : keyOf[k] = 0 /\ \A g \in Handlers \ {h} : k \notin Locks(run[g])
    /\ run' = [run EXCEPT ![h] = l]
    /\ lastId < MaxOrders /\ lastId' = lastId + 1
    /\ UNCHANGED <<keyOf, promos, orders, told>>

(* The insert of an order. *)
LEMMA WriteReserves ==
    ASSUME TypeOK, RunsSound, KeysHeld, NEW h \in Handlers, Write(h), told' = told
    PROVE  \E l : Quiet(h, l) \/ Reserves(h, l)
<1>1. /\ UNCHANGED <<keyOf, promos, orders>> /\ run[h].pc = "write"
      /\ lastId < MaxOrders /\ lastId' = lastId + 1
  BY DEF Write
<1>2. /\ lastId + 1 \in 1..MaxOrders /\ lastId \in Nat /\ lastId' \in lastId..MaxOrders
      /\ lastId + 1 \in 0..MaxOrders
  BY <1>1, CheckoutAssumption DEF TypeOK
<1>3. PICK r \in OrderRow : r = run[h].row
  BY RowsSound
<1>4. /\ run[h].user \in Users /\ r.user = run[h].user /\ Resolved(r) /\ Charged(r)
      /\ r.key = NoKey /\ (run[h].user \in TelegramUsers => run[h].kept = {})
  BY <1>1, <1>3, RowsSound DEF LocalSound
<1>5. CASE r.mode # "inventory" /\ run' = [run EXCEPT ![h].pc = "commit", ![h].id = lastId']
  <2>1. PICK l : l = [run[h] EXCEPT !.pc = "commit", !.id = lastId + 1]
    OBVIOUS
  <2>2. /\ l \in Local /\ l.pc = "commit" /\ l.id = lastId + 1 /\ l.row = r
        /\ l.user = run[h].user /\ l.kept = run[h].kept /\ l.used = run[h].used
    BY <1>2, <1>3, <2>1, RowsSound DEF Local
  <2>3. LocalSound(l)
    BY <1>4, <1>5, <2>2 DEF LocalSound, Filled
  <2>4. Locks(l) = Locks(run[h])
    BY <1>3, <2>2 DEF Locks
  <2>5. \A k \in Locks(l) : keyOf[k] = 0 /\ \A g \in Handlers \ {h} : k \notin Locks(run[g])
    BY <2>4 DEF KeysHeld
  <2>6. run' = [run EXCEPT ![h] = l]
    BY <1>1, <1>5, <2>1 DEF TypeOK
  <2> QED
    BY <1>1, <1>3, <2>2, <2>3, <2>5, <2>6 DEF Reserves
<1>6. ASSUME r.mode = "inventory", NEW k \in Takable(h, r.plan),
             run' = [run EXCEPT ![h].pc = "commit", ![h].id = lastId',
                                ![h].row = [r EXCEPT !.key = k]]
      PROVE  \E l : Reserves(h, l)
  <2>1. /\ k \in Keys /\ keyOf[k] = 0 /\ PlanOf[k] = r.plan
        /\ \A g \in Handlers : k \notin run[g].kept \cup {run[g].row.key}
    BY <1>6 DEF Takable, Available, TypeOK
  <2>2. PICK q : q = [r EXCEPT !.key = k]
    OBVIOUS
  <2>3. /\ q \in OrderRow /\ q.key = k /\ q.user = r.user /\ q.plan = r.plan /\ q.mode = r.mode
        /\ q.server = r.server /\ q.code = r.code /\ q.terms = r.terms /\ q.shown = r.shown
        /\ q.original = r.original /\ q.discount = r.discount /\ q.amount = r.amount
    BY <2>1, <2>2 DEF OrderRow
  <2>4. Resolved(q) /\ Charged(q) /\ Filled(q)
    BY <1>4, <1>6, <2>1, <2>3 DEF Resolved, Charged, Filled, AsConfirmed
  <2>5. PICK l : l = [run[h] EXCEPT !.pc = "commit", !.id = lastId + 1, !.row = q]
    OBVIOUS
  <2>6. /\ l \in Local /\ l.pc = "commit" /\ l.id = lastId + 1 /\ l.row = q
        /\ l.user = run[h].user /\ l.kept = run[h].kept /\ l.used = run[h].used
    BY <1>2, <2>3, <2>5, RowsSound DEF Local
  <2>7. LocalSound(l)
    BY <1>4, <2>3, <2>4, <2>6 DEF LocalSound
  <2>8. \A j \in Locks(l) : keyOf[j] = 0 /\ \A g \in Handlers \ {h} : j \notin Locks(run[g])
    <3>1. \A j \in Locks(l) : j = k \/ j \in Locks(run[h])
      BY <2>3, <2>6 DEF Locks
    <3>2. \A g \in Handlers : k \notin Locks(run[g])
      BY <2>1 DEF Locks
    <3> QED
      BY <2>1, <3>1, <3>2 DEF KeysHeld
  <2>9. run' = [run EXCEPT ![h] = l]
    BY <1>1, <1>6, <2>2, <2>5 DEF TypeOK
  <2> QED
    BY <1>1, <1>3, <2>3, <2>6, <2>7, <2>8, <2>9 DEF Reserves
<1>7. CASE Answered(h, run[h].kept)
  BY <1>1, <1>2, <1>7, RowsSound, AnsweredQuiet
<1> QED
  BY <1>3, <1>5, <1>6, <1>7 DEF Write

(* A handler that reserves disturbs nobody. *)
LEMMA ReservesKeeps ==
    ASSUME TypeOK, OrdersKept, NEW h \in Handlers, NEW l, Reserves(h, l)
    PROVE  OrdersKept' /\ run' \in [Handlers -> Local] /\ lastId' \in 0..MaxOrders
<1>1. /\ l \in Local /\ LocalSound(l) /\ run[h].pc = "write" /\ l.pc = "commit"
      /\ l.row.code = run[h].row.code /\ l.row.user = run[h].row.user /\ l.used = run[h].used
      /\ l.row.terms = run[h].row.terms
      /\ l.id = lastId + 1 /\ lastId' = lastId + 1 /\ lastId < MaxOrders
      /\ \A k \in Locks(l) : keyOf[k] = 0 /\ \A g \in Handlers \ {h} : k \notin Locks(run[g])
      /\ run' = [run EXCEPT ![h] = l]
      /\ keyOf' = keyOf /\ promos' = promos /\ orders' = orders /\ told' = told
  BY DEF Reserves
<1>2. /\ run' \in [Handlers -> Local] /\ lastId' \in 0..MaxOrders /\ lastId \in Nat
      /\ lastId + 1 \in OrderIds
  BY <1>1, CheckoutAssumption DEF TypeOK, OrderIds
<1>3. \A g \in Handlers : run'[g] = IF g = h THEN l ELSE run[g]
  BY <1>1 DEF TypeOK
<1>4. Committed' = Committed
  BY <1>1 DEF Committed
<1>5. RunsSound'
  <2> SUFFICES ASSUME NEW g \in Handlers PROVE LocalSound(run'[g])
    BY DEF RunsSound, LocalSound, Fresh, Resolved, Charged, Filled, AsConfirmed, MessageFits
  <2> QED
    BY <1>1, <1>3 DEF OrdersKept, RunsSound
<1>6. CodesHeld'
  <2> SUFFICES ASSUME NEW g \in Handlers,
                      run'[g].pc \in {"write", "commit"}, run'[g].row.code # NoCode
               PROVE  /\ run'[g].used = promos[run'[g].row.code].used + 1
                      /\ run'[g].row.terms = promos[run'[g].row.code].terms
                      /\ Usable(run'[g].row.user, run'[g].row.code)
                      /\ \A f \in Handlers \ {g} :
                            run'[f].pc \in {"write", "commit"} => run'[f].row.code # run'[g].row.code
    BY <1>1, <1>4 DEF CodesHeld, HoldsCode, Usable, RedeemedBy
  <2>1. /\ run[g].pc \in {"write", "commit"} /\ run[g].row.code = run'[g].row.code
        /\ run[g].row.user = run'[g].row.user /\ run[g].used = run'[g].used
        /\ run[g].row.terms = run'[g].row.terms
    BY <1>1, <1>3
  <2>2. \A f \in Handlers : run'[f].pc \in {"write", "commit"} =>
            run[f].pc \in {"write", "commit"} /\ run[f].row.code = run'[f].row.code
    BY <1>1, <1>3
  <2>3. HoldsCode(g, run[g])
    BY DEF OrdersKept, CodesHeld
  <2> QED
    BY <2>1, <2>2, <2>3 DEF HoldsCode
<1>7. KeysHeld'
  <2>1. KeysHeld
    BY DEF OrdersKept
  <2>2. \A g \in Handlers : \A k \in Locks(run'[g]) : keyOf[k] = 0
    BY <1>1, <1>3, <2>1 DEF KeysHeld
  <2>3. ASSUME NEW f \in Handlers, NEW g \in Handlers, f # g
        PROVE  Locks(run'[f]) \cap Locks(run'[g]) = {}
    <3>1. CASE f = h
      BY <1>1, <1>3, <2>3, <3>1
    <3>2. CASE g = h
      BY <1>1, <1>3, <2>3, <3>2
    <3>3. CASE f # h /\ g # h
      BY <1>3, <2>1, <2>3, <3>3 DEF KeysHeld
    <3> QED
      BY <3>1, <3>2, <3>3
  <2> QED
    BY <1>1, <2>2, <2>3 DEF KeysHeld, Locks
<1>8. OrdersSound' /\ UsesAreCounted' /\ OneKeyEach'
  BY <1>1, <1>4 DEF OrdersKept, OrdersSound, UsesAreCounted, OneKeyEach, Resolved, Charged,
     Filled, AsConfirmed, MessageFits
<1>9. NumbersKept'
  <2>1. \A i \in Committed : i \in Nat /\ i <= lastId /\ i <= lastId'
    BY <1>1, <1>2 DEF OrdersKept, NumbersKept, Committed, OrderIds
  <2>2. orders[lastId + 1] = NoOrder
    <3>1. lastId + 1 \notin Committed
      BY <1>2, <2>1
    <3> QED
      BY <1>2, <3>1 DEF Committed
  <2>3. ASSUME NEW g \in Handlers
        PROVE  /\ run'[g].pc \in {"commit", "tell"} => run'[g].id \in 1..lastId'
               /\ run'[g].pc = "commit" => orders[run'[g].id] = NoOrder
               /\ run'[g].pc = "tell" /\ run'[g].user \in TelegramUsers =>
                     orders[run'[g].id].user = run'[g].user
    <3>1. CASE g = h
      BY <1>1, <1>2, <1>3, <2>2, <3>1
    <3>2. CASE g # h
      <4>1. 1..lastId \subseteq 1..lastId'
        BY <1>1, <1>2
      <4> QED
        BY <1>3, <3>2, <4>1 DEF OrdersKept, NumbersKept
    <3> QED
      BY <3>1, <3>2
  <2>4. \A g \in Handlers : run[g].pc = "commit" => run[g].id # lastId + 1
    BY <1>2 DEF OrdersKept, NumbersKept
  <2>5. \A f, g \in Handlers :
          f # g /\ run'[f].pc = "commit" /\ run'[g].pc = "commit" => run'[f].id # run'[g].id
    BY <1>1, <1>3, <2>4 DEF OrdersKept, NumbersKept
  <2> QED
    BY <1>1, <1>4, <2>1, <2>3, <2>5 DEF NumbersKept
<1>10. TelegramToldExists'
  BY <1>1 DEF OrdersKept, TelegramToldExists
<1> QED
  BY <1>2, <1>5, <1>6, <1>7, <1>8, <1>9, <1>10 DEF OrdersKept

(* The commit that a VK or WhatsApp session believes to be one. *)
LEMMA CommitQuiet ==
    ASSUME TypeOK, RunsSound, NumbersKept, NEW h \in Handlers, Commit(h),
           ~ Commits(run[h].row.user)
    PROVE  \E l : Quiet(h, l)
<1>1. /\ run[h].pc = "commit" /\ run' = [run EXCEPT ![h].pc = "tell"]
      /\ UNCHANGED <<keyOf, promos, orders, lastId>>
  BY DEF Commit
<1>2. PICK l : l = [run[h] EXCEPT !.pc = "tell"]
  OBVIOUS
<1>3. /\ l \in Local /\ l.pc = "tell" /\ l.row = run[h].row /\ l.user = run[h].user
      /\ l.kept = run[h].kept /\ l.id = run[h].id
  BY <1>2, RowsSound DEF Local
<1>4. LocalSound(l)
  BY <1>1, <1>3, RowsSound DEF LocalSound
<1>5. l.user \in ChatUsers /\ l.id \in 1..lastId
  <2>1. run[h].user \in Users /\ run[h].row.user = run[h].user
    BY <1>1, RowsSound DEF LocalSound
  <2> QED
    BY <1>1, <1>3, <2>1 DEF Commits, NumbersKept, Users
<1>6. Locks(l) = Locks(run[h]) /\ HoldsCode(h, l)
  BY <1>3 DEF Locks, HoldsCode
<1>7. lastId' \in lastId..MaxOrders
  BY <1>1, CheckoutAssumption DEF TypeOK
<1>8. run' = [run EXCEPT ![h] = l]
  BY <1>1, <1>2 DEF TypeOK
<1> QED
  BY <1>1, <1>3, <1>4, <1>5, <1>6, <1>7, <1>8 DEF Quiet

(* The commit of a Telegram session: the order, the use of its code and    *)
(* the reservation of its key, at once.                                    *)
LEMMA CommitKeeps ==
    ASSUME TypeOK, OrdersKept, NEW h \in Handlers, Commit(h), Commits(run[h].row.user)
    PROVE  /\ OrdersKept'
           /\ run' \in [Handlers -> Local] /\ orders' \in [OrderIds -> OrderRow]
           /\ promos' \in [Codes -> [terms : Terms, limit : Limits, used : Nat]]
           /\ keyOf' \in [Keys -> 0..MaxOrders]
<1>1. PICK r \in OrderRow, i \in 0..MaxOrders, used \in Nat, m \in Local :
          m = run[h] /\ r = m.row /\ i = m.id /\ used = m.used
  <2>1. run[h] \in Local
    BY DEF TypeOK
  <2> QED
    BY <2>1 DEF Local
<1>2. /\ m.pc = "commit"
      /\ orders' = [orders EXCEPT ![i] = r]
      /\ promos' = IF r.code = NoCode THEN promos ELSE [promos EXCEPT ![r.code].used = used]
      /\ keyOf' = IF r.key = NoKey THEN keyOf ELSE [keyOf EXCEPT ![r.key] = i]
      /\ run' = [run EXCEPT ![h].pc = "tell", ![h].row = [r EXCEPT !.key = NoKey]]
      /\ lastId' = lastId /\ told' = told
  BY <1>1 DEF Commit
<1>3. /\ LocalSound(m) /\ m.user \in Users /\ r.user = m.user /\ r.user \in TelegramUsers
      /\ Resolved(r) /\ Charged(r) /\ Filled(r) /\ m.kept = {}
  BY <1>1, <1>2 DEF OrdersKept, RunsSound, LocalSound, Commits
<1>4. /\ i \in 1..lastId /\ i \in OrderIds /\ i \in Nat /\ lastId \in Nat /\ i # 0
      /\ orders[i] = NoOrder
  <2>1. i \in 1..lastId /\ orders[i] = NoOrder
    BY <1>1, <1>2 DEF OrdersKept, NumbersKept
  <2> QED
    BY <2>1, CheckoutAssumption DEF TypeOK, OrderIds
<1>5. r # NoOrder /\ NoOrder.user \notin Users
  BY <1>3, CheckoutAssumption DEF NoOrder
<1>6. /\ \A j \in OrderIds : orders'[j] = IF j = i THEN r ELSE orders[j]
      /\ orders' \in [OrderIds -> OrderRow]
  BY <1>2, <1>4 DEF TypeOK
<1>7. Committed' = Committed \cup {i} /\ i \notin Committed
  BY <1>4, <1>5, <1>6 DEF Committed
<1>8. PICK l : l = [m EXCEPT !.pc = "tell", !.row = [r EXCEPT !.key = NoKey]]
  OBVIOUS
<1>9. PICK q : q = [r EXCEPT !.key = NoKey]
  OBVIOUS
<1>10. /\ q \in OrderRow /\ q.key = NoKey /\ q.user = r.user /\ q.plan = r.plan /\ q.mode = r.mode
       /\ q.server = r.server /\ q.code = r.code /\ q.terms = r.terms /\ q.shown = r.shown
       /\ q.original = r.original /\ q.discount = r.discount /\ q.amount = r.amount
  BY <1>9 DEF OrderRow
<1>11. /\ l \in Local /\ l.pc = "tell" /\ l.row = q /\ l.user = m.user /\ l.kept = {} /\ l.id = i
  BY <1>1, <1>3, <1>8, <1>9, <1>10 DEF Local
<1>12. LocalSound(l) /\ Locks(l) = {}
  <2>1. Resolved(q) /\ Charged(q)
    BY <1>3, <1>10 DEF Resolved, Charged, AsConfirmed
  <2> QED
    BY <1>3, <1>10, <1>11, <2>1 DEF LocalSound, Locks
<1>13. run' = [run EXCEPT ![h] = l]
  BY <1>1, <1>2, <1>8 DEF TypeOK
<1>14. /\ \A g \in Handlers : run'[g] = IF g = h THEN l ELSE run[g]
       /\ run' \in [Handlers -> Local]
  BY <1>11, <1>13 DEF TypeOK
<1>15. /\ \A k \in Keys : keyOf'[k] = IF k = r.key THEN i ELSE keyOf[k]
       /\ keyOf' \in [Keys -> 0..MaxOrders]
  <2>1. NoKey \notin Keys /\ r.key \in Keys \cup {NoKey}
    BY CheckoutAssumption DEF OrderRow
  <2> QED
    BY <1>2, <2>1 DEF TypeOK
<1>16. /\ \A c \in Codes : /\ promos'[c].used = IF c = r.code THEN used ELSE promos[c].used
                           /\ promos'[c].limit = promos[c].limit
                           /\ promos'[c].terms = promos[c].terms
       /\ promos' \in [Codes -> [terms : Terms, limit : Limits, used : Nat]]
  <2>1. NoCode \notin Codes /\ r.code \in Codes \cup {NoCode}
    BY CheckoutAssumption DEF OrderRow
  <2> QED
    BY <1>2, <2>1 DEF TypeOK
<1>17. HoldsCode(h, m)
  BY <1>1 DEF OrdersKept, CodesHeld
<1>18. RunsSound'
  <2> SUFFICES ASSUME NEW g \in Handlers PROVE LocalSound(run'[g])
    BY DEF RunsSound, LocalSound, Fresh, Resolved, Charged, Filled, AsConfirmed, MessageFits
  <2> QED
    BY <1>12, <1>14 DEF OrdersKept, RunsSound
<1>19. CodesHeld'
  <2> SUFFICES ASSUME NEW g \in Handlers,
                      run'[g].pc \in {"write", "commit"}, run'[g].row.code # NoCode
               PROVE  /\ run'[g].used = promos'[run'[g].row.code].used + 1
                      /\ run'[g].row.terms = promos'[run'[g].row.code].terms
                      /\ promos'[run'[g].row.code].used < promos'[run'[g].row.code].limit
                      /\ \A j \in Committed' : ~ (orders'[j].user = run'[g].row.user
                                                  /\ orders'[j].code = run'[g].row.code)
                      /\ \A f \in Handlers \ {g} :
                            run'[f].pc \in {"write", "commit"} => run'[f].row.code # run'[g].row.code
    BY DEF CodesHeld, HoldsCode, Usable, RedeemedBy
  <2>1. g # h /\ run'[g] = run[g] /\ HoldsCode(g, run[g])
    BY <1>11, <1>14 DEF OrdersKept, CodesHeld
  <2>2. PICK c \in Codes : c = run[g].row.code
    <3>1. run[g] \in Local
      BY DEF TypeOK
    <3> QED
      BY <2>1, <3>1 DEF Local, OrderRow
  <2>3. c # r.code
    BY <1>1, <1>2, <2>1, <2>2 DEF HoldsCode
  <2>4. /\ promos'[c].used = promos[c].used /\ promos'[c].limit = promos[c].limit
        /\ promos'[c].terms = promos[c].terms
    BY <1>16, <2>3
  <2>5. \A j \in Committed' : ~ (orders'[j].user = run[g].row.user /\ orders'[j].code = c)
    <3>1. \A j \in Committed : ~ (orders[j].user = run[g].row.user /\ orders[j].code = c)
      BY <2>1, <2>2 DEF HoldsCode, Usable, RedeemedBy
    <3>2. Committed \subseteq OrderIds
      BY DEF Committed
    <3> QED
      BY <1>4, <1>6, <1>7, <2>3, <3>1, <3>2
  <2>6. \A f \in Handlers \ {g} :
            run'[f].pc \in {"write", "commit"} => run'[f].row.code # c
    BY <1>11, <1>14, <2>1, <2>2 DEF HoldsCode
  <2> QED
    BY <2>1, <2>2, <2>4, <2>5, <2>6 DEF HoldsCode, Usable
<1>20. KeysHeld'
  <2>1. KeysHeld
    BY DEF OrdersKept
  <2>2. ASSUME NEW g \in Handlers, NEW k \in Locks(run'[g]) PROVE keyOf'[k] = 0
    <3>1. g # h /\ run'[g] = run[g] /\ k \in Locks(run[g]) /\ keyOf[k] = 0
      BY <1>12, <1>14, <2>1, <2>2 DEF KeysHeld
    <3>2. k \in Keys
      BY <3>1, LocksType DEF TypeOK
    <3>3. k # r.key
      <4>1. k \notin Locks(m)
        BY <1>1, <2>1, <3>1 DEF KeysHeld
      <4>2. k # NoKey
        BY <3>2, CheckoutAssumption
      <4> QED
        BY <1>1, <4>1, <4>2 DEF Locks
    <3> QED
      BY <1>15, <3>1, <3>2, <3>3
  <2>3. \A f, g \in Handlers : f # g => Locks(run'[f]) \cap Locks(run'[g]) = {}
    BY <1>12, <1>14, <2>1 DEF KeysHeld
  <2> QED
    BY <2>2, <2>3 DEF KeysHeld, Locks
<1>21. OrdersSound'
  <2> SUFFICES ASSUME NEW j \in Committed'
               PROVE  /\ orders'[j].user \in Users
                      /\ Resolved(orders'[j]) /\ Charged(orders'[j]) /\ Filled(orders'[j])
    BY DEF OrdersSound, Resolved, Charged, Filled, AsConfirmed, MessageFits
  <2>1. CASE j = i
    BY <1>3, <1>4, <1>6, <2>1
  <2>2. CASE j # i
    <3>1. j \in Committed /\ j \in OrderIds
      BY <1>7, <2>2 DEF Committed
    <3> QED
      BY <1>6, <2>2, <3>1 DEF OrdersKept, OrdersSound
  <2> QED
    BY <2>1, <2>2
<1>22. UsesAreCounted'
  <2> SUFFICES ASSUME NEW c \in Codes
               PROVE  promos'[c].used = Cardinality({j \in Committed' : orders'[j].code = c})
    BY DEF UsesAreCounted
  <2> DEFINE S == {j \in Committed : orders[j].code = c}
  <2>1. promos[c].used = Cardinality(S)
    BY DEF OrdersKept, UsesAreCounted
  <2>2. Committed \subseteq OrderIds
    BY DEF Committed
  <2>3. IsFiniteSet(S) /\ i \notin S
    <3>1. IsFiniteSet(OrderIds)
      BY CheckoutAssumption, FS_Interval DEF OrderIds
    <3> QED
      BY <1>7, <2>2, <3>1, FS_Subset
  <2>4. CASE c = r.code
    <3>1. {j \in Committed' : orders'[j].code = c} = S \cup {i}
      BY <1>4, <1>6, <1>7, <2>2, <2>4
    <3>2. Cardinality(S \cup {i}) = Cardinality(S) + 1
      BY <2>3, FS_AddElement
    <3>3. used = promos[c].used + 1
      BY <1>1, <1>2, <1>17, <2>4, CheckoutAssumption DEF HoldsCode
    <3>4. promos'[c].used = used
      BY <1>16, <2>4
    <3> QED
      BY <2>1, <3>1, <3>2, <3>3, <3>4
  <2>5. CASE c # r.code
    <3>1. {j \in Committed' : orders'[j].code = c} = S
      BY <1>4, <1>6, <1>7, <2>2, <2>5
    <3> QED
      BY <1>16, <2>1, <2>5, <3>1
  <2> QED
    BY <2>4, <2>5
<1>23. OneKeyEach'
  <2> SUFFICES ASSUME NEW j \in Committed', orders'[j].mode = "inventory"
               PROVE  /\ orders'[j].key \in Keys
                      /\ keyOf'[orders'[j].key] = j
                      /\ PlanOf[orders'[j].key] = orders'[j].plan
    BY DEF OneKeyEach
  <2>1. CASE j = i
    BY <1>3, <1>4, <1>6, <1>15, <2>1 DEF Filled
  <2>2. CASE j # i
    <3>1. j \in Committed /\ j \in OrderIds /\ orders'[j] = orders[j] /\ j # 0
      BY <1>6, <1>7, <2>2 DEF Committed, OrderIds
    <3>2. /\ orders[j].key \in Keys /\ keyOf[orders[j].key] = j
          /\ PlanOf[orders[j].key] = orders[j].plan
      BY <3>1 DEF OrdersKept, OneKeyEach
    <3>3. r.key \in Keys => keyOf[r.key] = 0
      BY <1>1, CheckoutAssumption DEF OrdersKept, KeysHeld, Locks
    <3>4. orders[j].key # r.key
      BY <3>1, <3>2, <3>3
    <3> QED
      BY <1>15, <3>1, <3>2, <3>4
  <2> QED
    BY <2>1, <2>2
<1>24. NumbersKept'
  <2>1. \A j \in Committed' : j <= lastId'
    BY <1>2, <1>4, <1>7 DEF OrdersKept, NumbersKept
  <2>2. ASSUME NEW g \in Handlers
        PROVE  /\ run'[g].pc \in {"commit", "tell"} => run'[g].id \in 1..lastId'
               /\ run'[g].pc = "commit" => orders'[run'[g].id] = NoOrder
               /\ run'[g].pc = "tell" /\ run'[g].user \in TelegramUsers =>
                     orders'[run'[g].id].user = run'[g].user
    <3>1. CASE g = h
      BY <1>2, <1>3, <1>4, <1>6, <1>11, <1>14, <3>1
    <3>2. CASE g # h
      <4>1. run'[g] = run[g]
        BY <1>14, <3>2
      <4>2. run[g].pc \in {"commit", "tell"} => run[g].id \in 1..lastId /\ run[g].id \in OrderIds
        <5>1. run[g].pc \in {"commit", "tell"} => run[g].id \in 1..lastId
          BY DEF OrdersKept, NumbersKept
        <5> QED
          BY <5>1, CheckoutAssumption DEF TypeOK, OrderIds
      <4>3. run[g].pc = "commit" => run[g].id # i /\ orders[run[g].id] = NoOrder
        BY <1>1, <1>2, <3>2 DEF OrdersKept, NumbersKept
      <4>4. run[g].pc = "tell" /\ run[g].user \in TelegramUsers =>
                orders[run[g].id].user = run[g].user /\ run[g].id # i
        <5>1. run[g].pc = "tell" /\ run[g].user \in TelegramUsers =>
                  orders[run[g].id].user = run[g].user
          BY DEF OrdersKept, NumbersKept
        <5> QED
          BY <1>4, <1>5, <5>1 DEF Users
      <4> QED
        BY <1>2, <1>6, <4>1, <4>2, <4>3, <4>4
    <3> QED
      BY <3>1, <3>2
  <2>3. \A f, g \in Handlers :
          f # g /\ run'[f].pc = "commit" /\ run'[g].pc = "commit" => run'[f].id # run'[g].id
    BY <1>11, <1>14 DEF OrdersKept, NumbersKept
  <2> QED
    BY <2>1, <2>2, <2>3 DEF NumbersKept
<1>25. TelegramToldExists'
  <2> SUFFICES ASSUME NEW t \in told, t[1] \in TelegramUsers PROVE orders'[t[2]].user = t[1]
    BY <1>2 DEF TelegramToldExists
  <2>1. orders[t[2]].user = t[1] /\ t[2] \in OrderIds
    BY DEF OrdersKept, TelegramToldExists, TypeOK
  <2>2. t[2] # i
    BY <1>4, <1>5, <2>1 DEF Users
  <2> QED
    BY <1>6, <2>1, <2>2
<1> QED
  BY <1>6, <1>14, <1>15, <1>16, <1>18, <1>19, <1>20, <1>21, <1>22, <1>23, <1>24, <1>25 DEF OrdersKept

-----------------------------------------------------------------------------
(***************************************************************************)
(* The steps of Next                                                       *)
(***************************************************************************)

(* A new message to a customer, or none. *)
Talks == UNCHANGED <<fsm, screen, newest>> \/ \E u \in Users : Speaks(u)

(* Talking keeps dialogues sound. *)
LEMMA TalksKeeps ==
    ASSUME TypeOK, DialogueSound, Talks
    PROVE  /\ DialogueSound'
           /\ screen' \in [Users -> [Slots -> Message]]
           /\ newest' \in [Users -> Slots]
           /\ fsm' \in [TelegramUsers -> Data]
<1>1. CASE UNCHANGED <<fsm, screen, newest>>
  BY <1>1 DEF DialogueSound, MessageFits, DataFits, Agrees, TypeOK
<1>2. CASE \E u \in Users : Speaks(u)
  BY <1>2, SpeakingIsSound
<1> QED
  BY <1>1, <1>2 DEF Talks

(* What a step leaves to every customer and operator is counted. *)
Counted ==
    /\ taps' \in [Users -> Nat] /\ edits' \in 0..MaxEdits /\ crashes' \in 0..MaxCrashes

(* The counters of a press, ... *)
LEMMA TapCounted ==
    ASSUME TypeOK, NEW u \in Users, Tap(u), UNCHANGED counters
    PROVE  Counted
<1>1. taps[u] \in Nat /\ taps[u] - 1 \in Nat
  BY DEF TypeOK, Tap
<1> QED
  BY <1>1 DEF Tap, Counted, counters, TypeOK

(* ... and of a step nobody asks for. *)
LEMMA RestCounted ==
    ASSUME TypeOK, UNCHANGED <<taps, counters>>
    PROVE  Counted
BY DEF Counted, counters, TypeOK

(* A press that only brings another message. *)
LEMMA DialogueStep ==
    ASSUME CheckoutInv, NEW u \in Users, Tap(u), Speaks(u), UNCHANGED <<stored, run, told, counters>>
    PROVE  CheckoutInv'
<1>1. TypeOK /\ DialogueSound /\ OrdersKept
  BY DEF CheckoutInv
<1>2. OrdersKept'
  BY <1>1, StillKeeps DEF stored
<1>3. /\ DialogueSound' /\ screen' \in [Users -> [Slots -> Message]]
      /\ newest' \in [Users -> Slots] /\ fsm' \in [TelegramUsers -> Data]
  BY <1>1, TalksKeeps DEF Talks
<1>4. Counted
  BY <1>1, TapCounted
<1>5. TypeOK'
  BY <1>1, <1>3, <1>4 DEF TypeOK, stored, Counted
<1> QED
  BY <1>2, <1>3, <1>5 DEF CheckoutInv

(* A step of a handler that commits nothing. *)
LEMMA HandlerStep ==
    ASSUME CheckoutInv, NEW h \in Handlers, \E l : Quiet(h, l) \/ Reserves(h, l), Tells, Talks,
           Counted, UNCHANGED <<imported, active>>
    PROVE  CheckoutInv'
<1>1. TypeOK /\ DialogueSound /\ OrdersKept
  BY DEF CheckoutInv
<1>2. PICK l : Quiet(h, l) \/ Reserves(h, l)
  OBVIOUS
<1>3. /\ OrdersKept' /\ run' \in [Handlers -> Local] /\ lastId' \in 0..MaxOrders
      /\ told' \subseteq Users \X OrderIds /\ UNCHANGED <<keyOf, promos, orders>>
  <2>1. CASE Quiet(h, l)
    <3>1. UNCHANGED <<keyOf, promos, orders>>
      BY <2>1 DEF Quiet
    <3> QED
      BY <1>1, <2>1, <3>1, QuietKeeps
  <2>2. CASE Reserves(h, l)
    <3>1. UNCHANGED <<keyOf, promos, orders, told>>
      BY <2>2 DEF Reserves
    <3>2. told' \subseteq Users \X OrderIds
      BY <1>1, <3>1 DEF TypeOK
    <3> QED
      BY <1>1, <2>2, <3>1, <3>2, ReservesKeeps
  <2> QED
    BY <1>2, <2>1, <2>2
<1>4. /\ DialogueSound' /\ screen' \in [Users -> [Slots -> Message]]
      /\ newest' \in [Users -> Slots] /\ fsm' \in [TelegramUsers -> Data]
  BY <1>1, TalksKeeps
<1>5. TypeOK'
  BY <1>1, <1>3, <1>4 DEF TypeOK, Counted
<1> QED
  BY <1>3, <1>4, <1>5 DEF CheckoutInv

(* The presses of Telegram. *)
LEMMA TelegramStep ==
    ASSUME CheckoutInv, NEW u \in TelegramUsers, NEW s \in Slots,
           \/ \E p \in Plans : Buy(u, s, p)
           \/ \E m \in Modes : BuyMode(u, s, m)
           \/ BuyFromServers(u, s)
           \/ \E v \in Servers : BuyServer(u, s, v)
           \/ AskPromo(u, s)
           \/ \E c \in Codes : EnterPromo(u, c)
    PROVE  CheckoutInv'
<1>1. TypeOK /\ DialogueSound /\ u \in Users
  BY DEF CheckoutInv, Users
<1>2. ASSUME NEW p \in Plans, Buy(u, s, p) PROVE CheckoutInv'
  <2>1. Tap(u) /\ UNCHANGED <<stored, run, told, counters>>
    BY <1>2 DEF Buy
  <2> QED
    BY <1>1, <1>2, <2>1, BuySpeaks, DialogueStep
<1>3. ASSUME NEW m \in Modes, BuyMode(u, s, m) PROVE CheckoutInv'
  <2>1. Tap(u) /\ UNCHANGED <<stored, run, told, counters>>
    BY <1>3 DEF BuyMode
  <2> QED
    BY <1>1, <1>3, <2>1, BuyModeSpeaks, DialogueStep
<1>4. CASE BuyFromServers(u, s)
  <2>1. Tap(u) /\ UNCHANGED <<stored, run, told, counters>>
    BY <1>4 DEF BuyFromServers
  <2> QED
    BY <1>1, <1>4, <2>1, BuyFromServersSpeaks, DialogueStep
<1>5. ASSUME NEW v \in Servers, BuyServer(u, s, v) PROVE CheckoutInv'
  <2>1. Tap(u) /\ UNCHANGED <<stored, run, told, counters>>
    BY <1>5 DEF BuyServer
  <2> QED
    BY <1>1, <1>5, <2>1, BuyServerSpeaks, DialogueStep
<1>6. CASE AskPromo(u, s)
  <2>1. Tap(u) /\ UNCHANGED <<stored, run, told, counters>>
    BY <1>6 DEF AskPromo
  <2> QED
    BY <1>1, <1>6, <2>1, AskPromoSpeaks, DialogueStep
<1>7. ASSUME NEW c \in Codes, EnterPromo(u, c) PROVE CheckoutInv'
  <2>1. Tap(u) /\ UNCHANGED <<stored, run, told, counters>>
    BY <1>7 DEF EnterPromo
  <2> QED
    BY <1>1, <1>7, <2>1, EnterPromoSpeaks, DialogueStep
<1> QED
  BY <1>2, <1>3, <1>4, <1>5, <1>6, <1>7

(* The presses of VK and WhatsApp, but for the confirm buttons. *)
LEMMA ChatStep ==
    ASSUME CheckoutInv, NEW u \in ChatUsers,
           \/ \E p \in Plans : VkPlanEntry(u, p) \/ WhatsappPlanEntry(u, p)
           \/ \E mode \in Modes : VkBuyMode(u, mode) \/ WhatsappBuyMode(u, mode)
           \/ \E v \in Servers : VkServerConfirmation(u, v) \/ WhatsappServerConfirmation(u, v)
    PROVE  CheckoutInv'
<1>1. TypeOK /\ u \in Users
  BY DEF CheckoutInv, Users
<1>2. Speaks(u)
  BY <1>1, ChatSpeaks
<1>3. Tap(u) /\ UNCHANGED <<stored, run, told, counters>>
  <2>1. \E m : Reply(u, m)
    BY DEF VkPlanEntry, WhatsappPlanEntry, VkBuyMode, WhatsappBuyMode, VkServerConfirmation,
       WhatsappServerConfirmation
  <2>2. UNCHANGED fsm
    BY <2>1 DEF Reply
  <2> QED
    BY <2>1 DEF Reply
<1> QED
  BY <1>1, <1>2, <1>3, DialogueStep

(* A confirm button, whoever presses it. *)
LEMMA ConfirmStep ==
    ASSUME CheckoutInv, NEW h \in Handlers, NEW u \in Users, NEW s \in Slots, NEW asked \in Data,
           Confirm(h, u, s, asked), \E l : Quiet(h, l)
    PROVE  CheckoutInv'
<1>1. TypeOK
  BY DEF CheckoutInv
<1>2. Tap(u) /\ UNCHANGED <<stored, fsm, screen, newest, told, counters>>
  BY DEF Confirm
<1>3. Counted /\ Tells /\ Talks /\ UNCHANGED <<imported, active>>
  BY <1>1, <1>2, TapCounted DEF Tells, Talks, stored
<1> QED
  BY <1>3, HandlerStep

(* That of Telegram, ... *)
LEMMA PressStep ==
    ASSUME CheckoutInv, NEW h \in Handlers, NEW u \in TelegramUsers, NEW s \in Slots, Press(h, u, s)
    PROVE  CheckoutInv'
<1>1. TypeOK /\ DialogueSound /\ RunsSound /\ u \in Users /\ u \notin ChatUsers
  BY CheckoutAssumption DEF CheckoutInv, OrdersKept, Users
<1>2. PICK asked \in Data : asked = fsm[u]
  BY <1>1 DEF TypeOK
<1>3. /\ asked.mode = "server" <=> asked.server # NoServer
      /\ s = newest[u] => Agrees(asked, screen[u][s])
  BY <1>1, <1>2 DEF DialogueSound, DataFits
<1>4. run[h] = Idle /\ Confirm(h, u, s, asked)
  BY <1>2 DEF Press
<1>5. \E l : Quiet(h, l)
  BY <1>1, <1>3, <1>4, ConfirmQuiet
<1> QED
  BY <1>1, <1>4, <1>5, ConfirmStep

(* ... and those of VK and WhatsApp. *)
LEMMA ChatConfirmStep ==
    ASSUME CheckoutInv, NEW h \in Handlers, NEW u \in ChatUsers,
           VkConfirmBuy(h, u) \/ WhatsappConfirmBuy(h, u)
    PROVE  CheckoutInv'
<1>1. TypeOK /\ DialogueSound /\ RunsSound /\ u \in Users /\ FirstSlot \in Slots
  BY InitialTypes DEF CheckoutInv, OrdersKept, Users
<1>2. PICK m \in Message : m = screen[u][FirstSlot]
  BY <1>1, MessageType
<1>3. PICK asked : asked = OnButton(m)
  OBVIOUS
<1>4. /\ asked \in Data /\ asked.mode = m.mode /\ asked.server = m.server /\ asked.code = NoCode
  BY <1>3, InitialTypes DEF OnButton, Cleared, Data, Message
<1>5. Confirm(h, u, FirstSlot, asked) /\ (run[h] = Idle \/ run[h].pc = "more")
  BY <1>2, <1>3 DEF VkConfirmBuy, WhatsappConfirmBuy, Shown
<1>6. m.kind = "confirm" /\ MessageFits(m) /\ m.code = NoCode
  BY <1>1, <1>2, <1>5 DEF Confirm, DialogueSound
<1>7. (asked.mode = "server" <=> asked.server # NoServer) /\ Agrees(asked, m)
  BY <1>4, <1>6 DEF MessageFits, Agrees
<1>8. \E l : Quiet(h, l)
  BY <1>1, <1>2, <1>4, <1>5, <1>7, ConfirmQuiet
<1> QED
  BY <1>1, <1>4, <1>5, <1>8, ConfirmStep

(* The answer that names the order. *)
LEMMA TellStep ==
    ASSUME CheckoutInv, NEW h \in Handlers, Tell(h) \/ ChatTell(h)
    PROVE  CheckoutInv'
<1>1. TypeOK /\ RunsSound /\ NumbersKept
  BY DEF CheckoutInv, OrdersKept
<1>2. PICK u \in Users, i \in 1..lastId, s \in Slots :
          u = run[h].user /\ i = run[h].id /\ s = run[h].slot
  <2>1. run[h].pc = "tell"
    BY DEF Tell, ChatTell, Told
  <2>2. run[h].user \in Users /\ run[h].id \in 1..lastId /\ run[h] \in Local
    BY <1>1, <2>1, RowsSound DEF LocalSound, NumbersKept
  <2> QED
    BY <2>2 DEF Local
<1>3. /\ run[h].pc = "tell" /\ told' = told \cup {<<u, i>>}
      /\ screen' = [screen EXCEPT ![u][s] = Menu] /\ newest' = [newest EXCEPT ![u] = s]
      /\ UNCHANGED <<stored, taps, counters>>
  BY <1>2 DEF Tell, ChatTell, Told, Show
<1>4. Tells
  BY <1>1, <1>2, <1>3 DEF Tells, NumbersKept
<1>5. Menu \in Message /\ MessageFits(Menu) /\ Menu.kind = "other" /\ Menu.code = NoCode
  BY InitialTypes, OtherFits DEF Menu
<1>6. Speaks(u)
  <2>1. CASE Tell(h)
    <3>1. u \in TelegramUsers /\ fsm' = [fsm EXCEPT ![u] = Cleared]
      BY <1>2, <2>1 DEF Tell, Remember
    <3>2. Cleared \in Data /\ DataFits(Cleared) /\ Agrees(Cleared, Menu)
      BY <1>5, InitialTypes, ClearedFits DEF Agrees
    <3> QED
      BY <1>3, <1>5, <3>1, <3>2 DEF Speaks
  <2>2. CASE ChatTell(h)
    <3>1. u \in ChatUsers /\ fsm' = fsm
      BY <1>2, <2>2 DEF ChatTell
    <3> QED
      BY <1>3, <1>5, <3>1 DEF Speaks
  <2> QED
    BY <2>1, <2>2
<1>7. UNCHANGED <<keyOf, promos, orders, imported, active>> /\ lastId' \in lastId..MaxOrders
  BY <1>1, <1>3, StoredSame DEF stored
<1>8. \E l : Quiet(h, l)
  <2>1. CASE Tell(h)
    BY <1>1, <1>7, <2>1, EndQuiet DEF Tell
  <2>2. CASE ChatTell(h)
    <3>1. Answered(h, Locks(run[h]))
      BY <2>2 DEF ChatTell, Locks
    <3> QED
      BY <1>1, <1>7, <3>1, AnsweredQuiet
  <2> QED
    BY <2>1, <2>2
<1>9. Counted
  BY <1>1, <1>3, RestCounted
<1> QED
  BY <1>4, <1>6, <1>7, <1>8, <1>9, HandlerStep DEF Talks

(* The end of a webhook and a crash. *)
LEMMA EndStep ==
    ASSUME CheckoutInv, NEW h \in Handlers, CloseWebhook(h) \/ Crash(h)
    PROVE  CheckoutInv'
<1>1. TypeOK
  BY DEF CheckoutInv
<1>2. End(h) /\ UNCHANGED <<stored, fsm, screen, newest, told, taps, edits>>
  BY DEF CloseWebhook, Crash, counters
<1>3. Counted
  <2>1. CASE CloseWebhook(h)
    BY <1>1, <2>1, RestCounted DEF CloseWebhook
  <2>2. CASE Crash(h)
    BY <1>1, <2>2, CheckoutAssumption DEF Crash, Counted, TypeOK
  <2> QED
    BY <2>1, <2>2
<1>4. \E l : Quiet(h, l)
  BY <1>1, <1>2, StoredSame, EndQuiet
<1> QED
  BY <1>2, <1>3, <1>4, HandlerStep DEF Talks, Tells, stored

(* The three steps before the commit, ... *)
LEMMA OrderStep ==
    ASSUME CheckoutInv, NEW h \in Handlers, Resolve(h) \/ Redeem(h) \/ Write(h)
    PROVE  CheckoutInv'
<1>1. TypeOK /\ RunsSound /\ KeysHeld
  BY DEF CheckoutInv, OrdersKept
<1>2. UNCHANGED <<imported, active, fsm, screen, newest, told, taps, counters>>
  BY DEF Resolve, Redeem, Write, stored
<1>3. \E l : Quiet(h, l) \/ Reserves(h, l)
  BY <1>1, <1>2, ResolveQuiet, RedeemQuiet, WriteReserves
<1>4. Counted
  BY <1>1, <1>2, RestCounted
<1> QED
  BY <1>2, <1>3, <1>4, HandlerStep DEF Talks, Tells

(* ... and the commit. *)
LEMMA CommitStep ==
    ASSUME CheckoutInv, NEW h \in Handlers, Commit(h)
    PROVE  CheckoutInv'
<1>1. TypeOK /\ DialogueSound /\ OrdersKept /\ RunsSound /\ NumbersKept
  BY DEF CheckoutInv, OrdersKept
<1>2. UNCHANGED <<imported, active, lastId, fsm, screen, newest, told, taps, counters>>
  BY DEF Commit
<1>3. Counted
  BY <1>1, <1>2, RestCounted
<1>4. CASE ~ Commits(run[h].row.user)
  BY <1>1, <1>2, <1>3, <1>4, CommitQuiet, HandlerStep DEF Talks, Tells
<1>5. CASE Commits(run[h].row.user)
  <2>1. /\ OrdersKept'
        /\ run' \in [Handlers -> Local] /\ orders' \in [OrderIds -> OrderRow]
        /\ promos' \in [Codes -> [terms : Terms, limit : Limits, used : Nat]]
        /\ keyOf' \in [Keys -> 0..MaxOrders]
    BY <1>1, <1>5, CommitKeeps
  <2>2. /\ DialogueSound' /\ screen' \in [Users -> [Slots -> Message]]
        /\ newest' \in [Users -> Slots] /\ fsm' \in [TelegramUsers -> Data]
    BY <1>1, <1>2, TalksKeeps DEF Talks
  <2>3. TypeOK'
    BY <1>1, <1>2, <1>3, <2>1, <2>2 DEF TypeOK, Counted
  <2> QED
    BY <2>1, <2>2, <2>3 DEF CheckoutInv
<1> QED
  BY <1>4, <1>5

(* The operators. *)
LEMMA SetPromoStep ==
    ASSUME CheckoutInv, NEW c \in Codes, NEW terms \in Terms, NEW limit \in Limits,
           SetPromo(c, terms, limit)
    PROVE  CheckoutInv'
<1>1. TypeOK /\ DialogueSound /\ OrdersKept
  BY DEF CheckoutInv
<1>2. /\ promos' = [promos EXCEPT ![c].terms = terms, ![c].limit = limit] /\ RowFree(c)
      /\ UNCHANGED <<imported, keyOf, active, orders, lastId, fsm, screen, newest, run, told,
                     taps, crashes>>
      /\ edits' \in 0..MaxEdits
  BY <1>1, CheckoutAssumption DEF SetPromo, Edit, TypeOK
<1>3. /\ promos' \in [Codes -> [terms : Terms, limit : Limits, used : Nat]]
      /\ \A d \in Codes : /\ promos'[d].used = promos[d].used
                          /\ d # c => promos'[d] = promos[d]
  BY <1>1, <1>2 DEF TypeOK
<1>4. Committed' = Committed
  BY <1>2 DEF Committed
<1>5. CodesHeld'
  <2> SUFFICES ASSUME NEW h \in Handlers, run[h].pc \in {"write", "commit"},
                      run[h].row.code # NoCode
               PROVE  /\ run[h].used = promos'[run[h].row.code].used + 1
                      /\ run[h].row.terms = promos'[run[h].row.code].terms
                      /\ promos'[run[h].row.code].used < promos'[run[h].row.code].limit
                      /\ ~ RedeemedBy(run[h].row.user, run[h].row.code)
                      /\ \A g \in Handlers \ {h} :
                            run[g].pc \in {"write", "commit"} => run[g].row.code # run[h].row.code
    BY <1>2, <1>4 DEF CodesHeld, HoldsCode, Usable, RedeemedBy
  <2>1. HoldsCode(h, run[h]) /\ run[h].row.code # c /\ run[h] \in Local
    BY <1>1, <1>2 DEF OrdersKept, CodesHeld, RowFree, TypeOK
  <2>2. promos'[run[h].row.code] = promos[run[h].row.code]
    BY <1>3, <2>1 DEF Local, OrderRow
  <2> QED
    BY <2>1, <2>2 DEF HoldsCode, Usable
<1>6. RunsSound' /\ KeysHeld'
  BY <1>1, <1>2 DEF OrdersKept, RunsSound, LocalSound, Fresh, Resolved, Charged, Filled, AsConfirmed,
     MessageFits, KeysHeld, Locks
<1>7. OrdersSound' /\ OneKeyEach' /\ NumbersKept' /\ TelegramToldExists'
  BY <1>1, <1>2, <1>4 DEF OrdersKept, OrdersSound, OneKeyEach, Resolved, Charged, Filled,
     AsConfirmed, MessageFits, NumbersKept, TelegramToldExists
<1>8. UsesAreCounted'
  BY <1>1, <1>2, <1>3, <1>4 DEF OrdersKept, UsesAreCounted
<1>9. DialogueSound'
  BY <1>1, <1>2, TalksKeeps DEF Talks
<1>10. TypeOK'
  BY <1>1, <1>2, <1>3 DEF TypeOK
<1> QED
  BY <1>5, <1>6, <1>7, <1>8, <1>9, <1>10 DEF CheckoutInv, OrdersKept

(* Servers switched and keys imported. *)
LEMMA OperatorStep ==
    ASSUME CheckoutInv, (\E v \in Servers : Toggle(v)) \/ (\E k \in Keys : ImportKey(k))
    PROVE  CheckoutInv'
<1>1. TypeOK /\ DialogueSound /\ OrdersKept
  BY DEF CheckoutInv
<1>2. /\ UNCHANGED <<keyOf, promos, orders, lastId, fsm, screen, newest, run, told, taps, crashes>>
      /\ Edit
  BY DEF Toggle, ImportKey
<1>3. imported' \subseteq Keys /\ active' \subseteq Servers
  <2>1. ASSUME NEW v \in Servers, Toggle(v) PROVE imported' \subseteq Keys /\ active' \subseteq Servers
    BY <1>1, <2>1 DEF Toggle, TypeOK
  <2>2. ASSUME NEW k \in Keys, ImportKey(k) PROVE imported' \subseteq Keys /\ active' \subseteq Servers
    BY <1>1, <2>2 DEF ImportKey, TypeOK
  <2> QED
    BY <2>1, <2>2
<1>4. edits' \in 0..MaxEdits
  BY <1>1, <1>2, CheckoutAssumption DEF Edit, TypeOK
<1>5. TypeOK'
  BY <1>1, <1>2, <1>3, <1>4 DEF TypeOK
<1>6. DialogueSound' /\ OrdersKept'
  BY <1>1, <1>2, StillKeeps, TalksKeeps DEF Talks
<1> QED
  BY <1>5, <1>6 DEF CheckoutInv

(* Every step. *)
LEMMA CheckoutStep ==
    ASSUME CheckoutInv, [Next]_vars
    PROVE  CheckoutInv'
<1>1. VkUsers \subseteq ChatUsers /\ WhatsappUsers \subseteq ChatUsers
  BY DEF ChatUsers
<1>2. ASSUME NEW u \in TelegramUsers, NEW s \in Slots,
             \/ \E p \in Plans : Buy(u, s, p)
             \/ \E m \in Modes : BuyMode(u, s, m)
             \/ BuyFromServers(u, s)
             \/ \E v \in Servers : BuyServer(u, s, v)
             \/ AskPromo(u, s)
             \/ \E h \in Handlers : Press(h, u, s)
      PROVE  CheckoutInv'
  BY <1>2, TelegramStep, PressStep
<1>3. ASSUME NEW u \in TelegramUsers, NEW c \in Codes, EnterPromo(u, c) PROVE CheckoutInv'
  BY <1>3, InitialTypes, TelegramStep
<1>4. ASSUME NEW u \in VkUsers,
             \/ \E p \in Plans : VkPlanEntry(u, p)
             \/ \E m \in Modes : VkBuyMode(u, m)
             \/ \E v \in Servers : VkServerConfirmation(u, v)
             \/ \E h \in Handlers : VkConfirmBuy(h, u)
      PROVE  CheckoutInv'
  BY <1>1, <1>4, ChatStep, ChatConfirmStep
<1>5. ASSUME NEW u \in WhatsappUsers,
             \/ \E p \in Plans : WhatsappPlanEntry(u, p)
             \/ \E m \in Modes : WhatsappBuyMode(u, m)
             \/ \E v \in Servers : WhatsappServerConfirmation(u, v)
             \/ \E h \in Handlers : WhatsappConfirmBuy(h, u)
      PROVE  CheckoutInv'
  BY <1>1, <1>5, ChatStep, ChatConfirmStep
<1>6. ASSUME NEW c \in Codes, NEW t \in Terms, NEW l \in Limits, SetPromo(c, t, l) PROVE CheckoutInv'
  BY <1>6, SetPromoStep
<1>7. ASSUME (\E v \in Servers : Toggle(v)) \/ (\E k \in Keys : ImportKey(k)) PROVE CheckoutInv'
  BY <1>7, OperatorStep
<1>8. ASSUME NEW h \in Handlers,
             \/ Resolve(h) \/ Redeem(h) \/ Write(h) \/ Commit(h)
             \/ Tell(h) \/ ChatTell(h) \/ CloseWebhook(h) \/ Crash(h)
      PROVE  CheckoutInv'
  BY <1>8, OrderStep, CommitStep, TellStep, EndStep
<1>9. CASE UNCHANGED vars
  <2>1. TypeOK /\ DialogueSound /\ OrdersKept
    BY DEF CheckoutInv
  <2>2. OrdersKept'
    BY <1>9, <2>1, StillKeeps DEF vars
  <2>3. DialogueSound'
    BY <1>9, <2>1, TalksKeeps DEF vars, Talks
  <2>4. TypeOK'
    BY <1>9, <2>1 DEF vars, TypeOK
  <2> QED
    BY <2>2, <2>3, <2>4 DEF CheckoutInv
<1> QED
  BY <1>2, <1>3, <1>4, <1>5, <1>6, <1>7, <1>8, <1>9 DEF Next

(* The shop opens. *)
LEMMA CheckoutStarts ==
    ASSUME Init
    PROVE  CheckoutInv
<1>1. Stock \subseteq Keys /\ MaxOrders \in Nat /\ MaxEdits \in Nat /\ MaxCrashes \in Nat
      /\ Budgets \subseteq [Users -> Nat]
  BY CheckoutAssumption
<1>2. TypeOK
  <2>1. /\ imported \subseteq Keys /\ keyOf \in [Keys -> 0..MaxOrders] /\ active \subseteq Servers
        /\ lastId \in 0..MaxOrders /\ told \subseteq Users \X OrderIds
        /\ taps \in [Users -> Nat] /\ edits \in 0..MaxEdits /\ crashes \in 0..MaxCrashes
    BY <1>1 DEF Init
  <2>2. promos \in [Codes -> [terms : Terms, limit : Limits, used : Nat]]
    <3>1. [terms : Terms, limit : Limits, used : {0}] \subseteq [terms : Terms, limit : Limits, used : Nat]
      OBVIOUS
    <3> QED
      BY <3>1 DEF Init
  <2>3. orders \in [OrderIds -> OrderRow] /\ fsm \in [TelegramUsers -> Data]
    BY InitialTypes DEF Init
  <2>4. screen \in [Users -> [Slots -> Message]] /\ newest \in [Users -> Slots]
    BY InitialTypes DEF Init
  <2>5. run \in [Handlers -> Local]
    BY InitialTypes DEF Init
  <2> QED
    BY <2>1, <2>2, <2>3, <2>4, <2>5 DEF TypeOK
<1>3. Menu.kind = "other" /\ Menu.code = NoCode
  BY DEF Menu, Showing
<1>4. FirstSlot \in Slots /\ DataFits(Cleared)
  BY InitialTypes, ClearedFits
<1>5. DialogueSound
  BY <1>3, <1>4, CheckoutAssumption DEF Init, DialogueSound, MessageFits, Agrees, Users
<1>6. \A h \in Handlers : run[h] = Idle
  BY DEF Init
<1>7. RunsSound /\ CodesHeld /\ KeysHeld
  BY <1>6, RestingSound DEF RunsSound, CodesHeld, HoldsCode, KeysHeld
<1>8. Committed = {}
  BY DEF Init, Committed
<1>9. OrdersSound /\ OneKeyEach /\ NumbersKept
  BY <1>6, <1>8, RestingSound DEF OrdersSound, OneKeyEach, NumbersKept
<1>10. UsesAreCounted
  <2>1. \A c \in Codes : promos[c].used = 0
    BY DEF Init
  <2>2. \A c \in Codes : {i \in Committed : orders[i].code = c} = {}
    BY <1>8
  <2> QED
    BY <2>1, <2>2, FS_EmptySet DEF UsesAreCounted
<1>11. TelegramToldExists
  BY DEF Init, TelegramToldExists
<1> QED
  BY <1>2, <1>5, <1>7, <1>9, <1>10, <1>11 DEF CheckoutInv, OrdersKept

-----------------------------------------------------------------------------
(***************************************************************************)
(* Theorems                                                                *)
(***************************************************************************)

(* The inductive invariant: dialogues are sound, and so is every row from  *)
(* the press on the button to the tables.                                  *)
THEOREM CheckoutInvariant == Spec => []CheckoutInv
<1>1. Init => CheckoutInv
  BY CheckoutStarts
<1>2. CheckoutInv /\ [Next]_vars => CheckoutInv'
  BY CheckoutStep
<1> QED
  BY <1>1, <1>2, PTL DEF Spec

(* Every variable has its type: a discount and an amount are never         *)
(* negative, whatever prices, minimum and discounts operators set.         *)
THEOREM CheckoutTypeCorrect == Spec => []TypeOK
<1>1. CheckoutInv => TypeOK
  BY DEF CheckoutInv
<1> QED
  BY <1>1, CheckoutInvariant, PTL

(* Nobody is charged less than the minimum or more than the price.         *)
THEOREM ChargesStayInBounds == Spec => []ChargedInBounds
<1>1. ASSUME CheckoutInv PROVE ChargedInBounds
  <2> SUFFICES ASSUME NEW i \in Committed, NEW r, r = orders[i]
               PROVE  /\ r.amount \in MinAmount..r.original
                      /\ r.amount = r.original - r.discount \/ r.amount = MinAmount
                      /\ r.code = NoCode => r.amount = r.original
    BY DEF ChargedInBounds
  <2>1. r \in OrderRow /\ Resolved(r) /\ Charged(r)
    BY <1>1 DEF CheckoutInv, TypeOK, OrdersKept, OrdersSound, Committed
  <2>2. r.original \in Nat /\ r.original >= MinAmount /\ MinAmount \in Nat
        /\ r.terms \in Terms \cup {NoTerms}
    BY <2>1, PriceInBounds, CheckoutAssumption DEF Resolved, OrderRow
  <2>3. /\ Due(r.original, r.terms) \in MinAmount..r.original
        /\ r.terms # NoTerms => \/ Due(r.original, r.terms) = r.original - Discount(r.original, r.terms)
                                \/ Due(r.original, r.terms) = MinAmount
        /\ r.terms = NoTerms => Due(r.original, r.terms) = r.original
    BY <2>2, DiscountInBounds
  <2> QED
    BY <2>1, <2>2, <2>3 DEF Charged
<1> QED
  BY <1>1, CheckoutInvariant, PTL

(* An order's mode is one its plan can be fulfilled in. *)
THEOREM ModesAreAllowed == Spec => []PlanAllowsMode
<1>1. ASSUME CheckoutInv PROVE PlanAllowsMode
  <2> SUFFICES ASSUME NEW i \in Committed, NEW r, r = orders[i]
               PROVE  /\ r.mode = "mtproxy" <=> Provisioning[r.plan] = "mtproxy"
                      /\ r.mode = "inventory" => Provisioning[r.plan] \in {"auto", "inventory"}
                      /\ r.mode = "server" <=> r.server # NoServer
    BY DEF PlanAllowsMode
  <2>1. r \in OrderRow /\ Resolved(r)
    BY <1>1 DEF CheckoutInv, TypeOK, OrdersKept, OrdersSound, Committed
  <2>2. Provisioning[r.plan] \in {"auto", "inventory", "hiddify", "mtproxy"}
    BY <2>1, CheckoutAssumption DEF OrderRow
  <2> QED
    BY <2>1, <2>2 DEF Resolved, Allows, Modes
<1> QED
  BY <1>1, CheckoutInvariant, PTL

(* A customer who confirms the newest message gets what it says. *)
THEOREM OrdersAreAsShown == Spec => []AsShown
<1>1. ASSUME CheckoutInv PROVE AsShown
  <2> SUFFICES ASSUME NEW i \in Committed, NEW r, r = orders[i], NEW m, m = r.shown,
                      m.kind = "confirm"
               PROVE  /\ r.plan = m.plan /\ r.server = m.server /\ r.code = m.code
                      /\ r.terms = m.terms => r.amount = m.total
                      /\ r.mode = m.mode \/ (r.mode = "mtproxy" /\ m.mode = "inventory")
    BY DEF AsShown
  <2>1. Resolved(r) /\ Charged(r)
    BY <1>1 DEF CheckoutInv, OrdersKept, OrdersSound
  <2>2. /\ r.plan = m.plan /\ r.server = m.server /\ r.code = m.code
        /\ r.mode = m.mode \/ (r.mode = "mtproxy" /\ m.mode = "inventory")
        /\ m.total = Due(Price(m.plan, m.mode), m.terms)
    BY <2>1 DEF Resolved, AsConfirmed, MessageFits
  <2>3. Markup("mtproxy") = Markup("inventory")
    BY DEF Markup
  <2>4. r.original = Price(m.plan, m.mode)
    BY <2>1, <2>2, <2>3 DEF Resolved, Price
  <2> QED
    BY <2>1, <2>2, <2>4 DEF Charged
<1> QED
  BY <1>1, CheckoutInvariant, PTL

(* used_count is the number of redemptions. *)
THEOREM UsesStayCounted == Spec => []UsesAreCounted
<1>1. CheckoutInv => UsesAreCounted
  BY DEF CheckoutInv, OrdersKept
<1> QED
  BY <1>1, CheckoutInvariant, PTL

(* An order of prepared keys has a key of its plan to itself. *)
THEOREM KeysStayApart == Spec => []OneKeyEach
<1>1. CheckoutInv => OneKeyEach
  BY DEF CheckoutInv, OrdersKept
<1> QED
  BY <1>1, CheckoutInvariant, PTL

(* The number a Telegram customer is told is that of a row. *)
THEOREM TelegramIsToldTheTruth == Spec => []TelegramToldExists
<1>1. CheckoutInv => TelegramToldExists
  BY DEF CheckoutInv, OrdersKept
<1> QED
  BY <1>1, CheckoutInvariant, PTL

(* Only the commit of an order and an operator's change of a code write    *)
(* the orders, the codes and the reservations.                             *)
LEMMA OnlyWriters ==
    ASSUME [Next]_vars, ~ UNCHANGED <<orders, promos, keyOf>>
    PROVE  \/ \E h \in Handlers : Commit(h)
           \/ \E c \in Codes, t \in Terms, l \in Limits : SetPromo(c, t, l)
<1>1. ~ UNCHANGED stored /\ ~ UNCHANGED vars
  BY DEF stored, vars
<1>2. ASSUME NEW u, NEW s
      PROVE  /\ \A p : ~ Buy(u, s, p)
             /\ \A m : ~ BuyMode(u, s, m)
             /\ ~ BuyFromServers(u, s)
             /\ \A v : ~ BuyServer(u, s, v)
             /\ ~ AskPromo(u, s)
             /\ \A c : ~ EnterPromo(u, c)
             /\ \A h, asked : ~ Confirm(h, u, s, asked)
             /\ \A m : ~ Reply(u, m)
  BY <1>1 DEF Buy, BuyMode, BuyFromServers, BuyServer, AskPromo, EnterPromo, Confirm, Reply
<1>3. ASSUME NEW u
      PROVE  /\ \A h, s : ~ Press(h, u, s)
             /\ \A h : ~ VkConfirmBuy(h, u) /\ ~ WhatsappConfirmBuy(h, u)
             /\ \A p : ~ VkPlanEntry(u, p) /\ ~ WhatsappPlanEntry(u, p)
             /\ \A m : ~ VkBuyMode(u, m) /\ ~ WhatsappBuyMode(u, m)
             /\ \A v : ~ VkServerConfirmation(u, v) /\ ~ WhatsappServerConfirmation(u, v)
  BY <1>2 DEF Press, VkConfirmBuy, WhatsappConfirmBuy, VkPlanEntry, WhatsappPlanEntry, VkBuyMode,
     WhatsappBuyMode, VkServerConfirmation, WhatsappServerConfirmation
<1>4. /\ \A v : ~ Toggle(v)
      /\ \A k : ~ ImportKey(k)
  BY DEF Toggle, ImportKey
<1>5. ASSUME NEW h
      PROVE  ~ (Resolve(h) \/ Redeem(h) \/ Write(h) \/ Tell(h) \/ ChatTell(h) \/ CloseWebhook(h) \/ Crash(h))
  BY <1>1 DEF Resolve, Redeem, Write, Tell, ChatTell, CloseWebhook, Crash
<1> QED
  BY <1>1, <1>2, <1>3, <1>4, <1>5 DEF Next

(* The orders of VK and WhatsApp customers are rolled back, all of them.   *)
THEOREM OnlyTelegramOrders == Spec => []ChatOrdersAreLost
<1>1. Init => ChatOrdersAreLost
  BY DEF Init, ChatOrdersAreLost, Committed
<1>2. ASSUME CheckoutInv, ChatOrdersAreLost, [Next]_vars
      PROVE  ChatOrdersAreLost'
  <2>1. CASE orders' = orders
    BY <1>2, <2>1 DEF ChatOrdersAreLost, Committed
  <2>2. CASE orders' # orders
    <3>1. PICK h \in Handlers : Commit(h)
      BY <1>2, <2>2, OnlyWriters DEF SetPromo
    <3>2. /\ run[h].row.user \in TelegramUsers
          /\ orders' = [orders EXCEPT ![run[h].id] = run[h].row]
      BY <2>2, <3>1 DEF Commit, Commits
    <3>3. \A i \in OrderIds : orders'[i] \in {orders[i], run[h].row}
      BY <1>2, <3>2 DEF CheckoutInv, TypeOK
    <3> QED
      BY <1>2, <3>2, <3>3 DEF ChatOrdersAreLost, Committed
  <2> QED
    BY <2>1, <2>2
<1> QED
  BY <1>1, <1>2, CheckoutInvariant, PTL DEF Spec

(* A redemption is within the limit at the moment of its commit, and the   *)
(* only one of its customer.                                               *)
THEOREM RedemptionsInLimit == Spec => RedeemedInLimit
<1>1. ASSUME CheckoutInv, [Next]_vars
      PROVE  [\A i \in OrderIds : orders[i] = NoOrder /\ orders'[i] # NoOrder =>
                LET u == orders'[i].user
                    c == orders'[i].code
                IN  c # NoCode => promos[c].used < promos[c].limit /\ ~ RedeemedBy(u, c)]_vars
  <2> SUFFICES ASSUME NEW i \in OrderIds, orders[i] = NoOrder, orders'[i] # NoOrder,
                      orders'[i].code # NoCode
               PROVE  Usable(orders'[i].user, orders'[i].code)
    BY DEF Usable
  <2>1. PICK h \in Handlers : Commit(h)
    BY <1>1, OnlyWriters DEF SetPromo
  <2>2. run[h].pc = "commit" /\ orders' = [orders EXCEPT ![run[h].id] = run[h].row]
    BY <2>1 DEF Commit
  <2>3. orders'[i] = run[h].row
    BY <1>1, <2>2 DEF CheckoutInv, TypeOK
  <2>4. HoldsCode(h, run[h])
    BY <1>1 DEF CheckoutInv, OrdersKept, CodesHeld
  <2> QED
    BY <2>2, <2>3, <2>4 DEF HoldsCode
<1> QED
  BY <1>1, CheckoutInvariant, PTL DEF Spec, RedeemedInLimit

-----------------------------------------------------------------------------
(***************************************************************************)
(* A purchase is one moment                                                *)
(***************************************************************************)

(* A row as the shop sees it. *)
LEMMA SeenColumns ==
    ASSUME NEW r \in OrderRow
    PROVE  /\ Seen(r).user = r.user /\ Seen(r).plan = r.plan /\ Seen(r).mode = r.mode
           /\ Seen(r).server = r.server /\ Seen(r).key = r.key /\ Seen(r).code = r.code
           /\ Seen(r).amount = r.amount
           /\ Seen(r) \in [user : Users \cup {NoUser}, plan : Plans, mode : Modes \cup {NoMode},
                           server : Servers \cup {NoServer}, key : Keys \cup {NoKey},
                           code : Codes \cup {NoCode}, amount : Nat]
BY DEF Seen, OrderRow

(* The shop counts as many uses of a code as there are redemptions.        *)
LEMMA ShopUses ==
    ASSUME CheckoutInv, NEW c \in Codes
    PROVE  /\ TheShop!Uses(c) = {i \in Committed : orders[i].code = c}
           /\ Cardinality(TheShop!Uses(c)) = promos[c].used
<1>1. \A i \in OrderIds : Seen(orders[i]).code = orders[i].code
  BY SeenColumns DEF CheckoutInv, TypeOK
<1>2. NoOrder.code # c
  BY CheckoutAssumption DEF NoOrder
<1>3. TheShop!Uses(c) = {i \in Committed : orders[i].code = c}
  BY <1>1, <1>2 DEF TheShop!Uses, Placed, Committed
<1> QED
  BY <1>3 DEF CheckoutInv, OrdersKept, UsesAreCounted

(* A code a handler has redeemed can be used, as the shop sees it.         *)
LEMMA ShopMayUse ==
    ASSUME CheckoutInv, NEW u \in Users, NEW c \in Codes, Usable(u, c)
    PROVE  TheShop!MayUse(u, c)
<1>1. /\ TheShop!Uses(c) = {i \in Committed : orders[i].code = c}
      /\ Cardinality(TheShop!Uses(c)) < promos[c].limit
  BY ShopUses DEF Usable
<1>2. \A i \in TheShop!Uses(c) : Placed[i].user # u
  <2> SUFFICES ASSUME NEW i \in TheShop!Uses(c) PROVE Placed[i].user # u
    OBVIOUS
  <2>1. i \in Committed /\ i \in OrderIds /\ orders[i].code = c
    BY <1>1 DEF Committed
  <2>2. Placed[i].user = orders[i].user
    BY <2>1, SeenColumns DEF CheckoutInv, TypeOK, Placed
  <2> QED
    BY <2>1, <2>2 DEF Usable, RedeemedBy
<1>3. Offers[c].limit = promos[c].limit
  BY DEF Offers
<1> QED
  <2>1. TheShop!Cardinality(TheShop!Uses(c)) = Cardinality(TheShop!Uses(c))
    BY Zenon DEF TheShop!Cardinality, Cardinality
  <2> QED
    BY <1>1, <1>2, <1>3, <2>1 DEF TheShop!MayUse

(* The commit of a Telegram session places an order.                       *)
LEMMA CommitPlaces ==
    ASSUME CheckoutInv, NEW h \in Handlers, Commit(h), Commits(run[h].row.user)
    PROVE  TheShop!Next
<1>1. PICK r \in OrderRow, i \in 0..MaxOrders, used \in Nat, l \in Local :
          l = run[h] /\ r = l.row /\ i = l.id /\ used = l.used
  <2>1. run[h] \in Local
    BY DEF CheckoutInv, TypeOK
  <2> QED
    BY <2>1 DEF Local
<1>2. /\ l.pc = "commit"
      /\ orders' = [orders EXCEPT ![i] = r]
      /\ promos' = IF r.code = NoCode THEN promos ELSE [promos EXCEPT ![r.code].used = used]
      /\ keyOf' = IF r.key = NoKey THEN keyOf ELSE [keyOf EXCEPT ![r.key] = i]
  BY <1>1 DEF Commit
<1>3. /\ i \in OrderIds /\ orders[i] = NoOrder
  <2>1. i \in 1..lastId /\ orders[i] = NoOrder
    BY <1>1, <1>2 DEF CheckoutInv, OrdersKept, NumbersKept
  <2> QED
    BY <2>1, CheckoutAssumption DEF CheckoutInv, TypeOK, OrderIds
<1>4. /\ r.user \in Users /\ Resolved(r) /\ Charged(r) /\ Filled(r)
  BY <1>1, <1>2 DEF CheckoutInv, OrdersKept, RunsSound, LocalSound
<1>5. r.code # NoCode => /\ r.code \in Codes /\ r.terms = promos[r.code].terms
                         /\ Usable(r.user, r.code)
  BY <1>1, <1>2 DEF CheckoutInv, OrdersKept, CodesHeld, HoldsCode, OrderRow
<1>6. r.key # NoKey => r.key \in Keys /\ keyOf[r.key] = 0
  BY <1>1 DEF CheckoutInv, OrdersKept, KeysHeld, Locks, OrderRow
<1> DEFINE o == Seen(r)
<1>7. /\ o.user = r.user /\ o.plan = r.plan /\ o.mode = r.mode /\ o.server = r.server
      /\ o.key = r.key /\ o.code = r.code /\ o.amount = r.amount
      /\ o \in TheShop!Order
  BY <1>4, SeenColumns DEF TheShop!Order, Resolved
<1> HIDE DEF o
<1>8. TheShop!TermsOf(r.code) = r.terms /\ r.terms \in Terms \cup {NoTerms}
  BY <1>4, <1>5 DEF TheShop!TermsOf, Offers, Charged, OrderRow
<1>9. Costs[r.plan][r.mode][TheShop!TermsOf(r.code)] = r.amount
  BY <1>4, <1>8 DEF Costs, Resolved, Charged, OrderRow
<1>10. r.mode \in PlanModes[r.plan]
  BY <1>4 DEF PlanModes, Resolved, OrderRow
<1>11. r.code # NoCode => TheShop!MayUse(r.user, r.code)
  BY <1>4, <1>5, ShopMayUse
<1>12. Placed' = [Placed EXCEPT ![i] = o] /\ Placed[i] = Seen(NoOrder) /\ Placed'[i] = o
  BY <1>2, <1>3 DEF CheckoutInv, TypeOK, Placed, o
<1>13. keyOf' = [k \in Keys |-> IF k = o.key THEN i ELSE keyOf[k]]
  <2>1. keyOf \in [Keys -> 0..MaxOrders] /\ o.key = r.key /\ NoKey \notin Keys
    BY <1>7, CheckoutAssumption DEF CheckoutInv, TypeOK
  <2> QED
    BY <1>2, <1>6, <2>1
<1>14. Offers' = Offers
  <2>1. \A c \in Codes : promos'[c].terms = promos[c].terms /\ promos'[c].limit = promos[c].limit
    BY <1>2, <1>5 DEF CheckoutInv, TypeOK
  <2> QED
    BY <2>1 DEF Offers
<1>15. /\ o.mode \in PlanModes[o.plan] /\ (o.mode = "server" <=> o.server # NoServer)
       /\ o.mode = "inventory" <=> o.key # NoKey
       /\ o.key # NoKey => keyOf[o.key] = 0 /\ PlanOf[o.key] = o.plan
       /\ o.code # NoCode => TheShop!MayUse(o.user, o.code)
       /\ o.amount = Costs[o.plan][o.mode][TheShop!TermsOf(o.code)]
  BY <1>4, <1>6, <1>7, <1>9, <1>10, <1>11, CheckoutAssumption DEF Resolved, Filled
<1>16. TheShop!Place(i, o)
  BY <1>7, <1>12, <1>13, <1>14, <1>15 DEF TheShop!Place
<1> QED
  BY <1>3, <1>12, <1>16 DEF TheShop!Next

(* What the steps look like in the shop.                                   *)
LEMMA ShopStep ==
    ASSUME CheckoutInv, [Next]_vars
    PROVE  TheShop!Next \/ UNCHANGED <<Placed, Offers, keyOf>>
<1>1. CASE UNCHANGED <<orders, promos, keyOf>>
  BY <1>1 DEF Placed, Offers
<1>2. ASSUME NEW h \in Handlers, Commit(h), ~ Commits(run[h].row.user)
      PROVE  UNCHANGED <<Placed, Offers, keyOf>>
  BY <1>2 DEF Commit, Placed, Offers
<1>3. ASSUME NEW c \in Codes, NEW t \in Terms, NEW l \in Limits, SetPromo(c, t, l)
      PROVE  TheShop!Next
  <2>1. /\ promos' = [promos EXCEPT ![c].terms = t, ![c].limit = l]
        /\ UNCHANGED <<orders, keyOf>>
    BY <1>3 DEF SetPromo
  <2>2. /\ \A d \in Codes \ {c} : promos'[d] = promos[d]
        /\ promos'[c].terms = t /\ promos'[c].limit = l
    BY <2>1 DEF CheckoutInv, TypeOK
  <2>3. Offers' = [Offers EXCEPT ![c] = [terms |-> t, limit |-> l]]
    <3>1. \A d \in Codes : Offers'[d] = IF d = c THEN [terms |-> t, limit |-> l] ELSE Offers[d]
      BY <2>2 DEF Offers
    <3>2. Offers = [d \in Codes |-> Offers[d]] /\ Offers' = [d \in Codes |-> Offers'[d]]
      BY DEF Offers
    <3> QED
      BY <3>1, <3>2
  <2>4. UNCHANGED <<Placed, keyOf>>
    BY <2>1 DEF Placed
  <2> QED
    BY <2>3, <2>4 DEF TheShop!Next, TheShop!Offer
<1> QED
  BY <1>1, <1>2, <1>3, OnlyWriters, CommitPlaces

(* The checkout implements Shop: for any customers, handlers, prices and   *)
(* codes, and whatever operators change while sessions are under way, an   *)
(* order that is committed could have been placed at that very moment.     *)
THEOREM PurchasesAreMoments == Spec => ImplementsShop
<1>1. Init => TheShop!Init
  <2> SUFFICES ASSUME Init PROVE TheShop!Init
    OBVIOUS
  <2>1. Placed = [i \in OrderIds |-> Seen(NoOrder)]
    BY DEF Init, Placed
  <2>2. Offers \in [Codes -> [terms : Terms, limit : Limits]]
    BY DEF Init, Offers
  <2> QED
    BY <2>1, <2>2 DEF Init, TheShop!Init
<1>2. CheckoutInv /\ [Next]_vars => [TheShop!Next]_<<Placed, Offers, keyOf>>
  BY ShopStep
<1> QED
  BY <1>1, <1>2, CheckoutInvariant, PTL DEF Spec, ImplementsShop, TheShop!Spec
=============================================================================
