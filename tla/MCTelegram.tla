----------------------------- MODULE MCTelegram -----------------------------
(* The two parts of tgkit on small instances: a behaviour is one of either *)
(* part, while the other stays where it begins.                            *)
EXTENDS Tgkit, TLC

VARIABLE part   \* what this behaviour is of

miniApp == <<now, skew, issued, last, first>>

-----------------------------------------------------------------------------
(* Lists of up to two options: two that set the mode, or the secret, can   *)
(* contradict each other in either order.                                  *)
Options ==
    [kind : {"mode"}, value : {"polling", "webhook", "unknown"}]
        \cup [kind : {"webhook", "telegram", "other"}, value : {"valid", "invalid"}]
        \cup [kind : {"telegram"}, value : {"secret", "no secret"}]

MCOptionLists == UNION {[1 .. n -> Options] : n \in 0 .. 2}

InStars == [worded |-> TRUE, currency |-> "XTR", provider |-> FALSE, labelled |-> TRUE,
            prices |-> <<3>>, maxTip |-> 0, tips |-> <<>>, period |-> 0]
InEuro == [InStars EXCEPT !.currency = "EUR", !.provider = TRUE]

(* Prices about zero, the limit of 4 and the ends of an int64 of 4 bits;   *)
(* tips about their order, the maximum of 2 and the number of 2; every     *)
(* combination of the rest.                                                *)
MCInvoices ==
    {[i EXCEPT !.prices = p] :
        i \in {InStars, InEuro}, p \in UNION {[1 .. n -> {-8, -1, 0, 3, 5, 7}] : n \in 0 .. 2}}
    \cup {[i EXCEPT !.maxTip = m, !.tips = t] :
            i \in {InStars, InEuro}, m \in {-1, 0, 2},
            t \in {<<0, 1, 2>>} \cup UNION {[1 .. n -> 1 .. 3] : n \in 0 .. 2}}
    \cup [worded : BOOLEAN, currency : {"XTR", "EUR", "malformed"}, provider : BOOLEAN,
          labelled : BOOLEAN, prices : {<<3>>}, maxTip : {0}, tips : {<<>>}, period : {0, 30}]

ASSUME SaleConstants == PaymentsConstants

(* Bots that differ in their number, and in their environment only. *)
MCBots == [id : {1}, env : {"production", "test"}] \cup [id : {2}, env : {"production"}]

(* Telegram's clock is behind, ahead by what is allowed for, and by more. *)
MCSkews == {-1, 1, 2}

UserSymmetry == Permutations(Users)

ASSUME MiniAppConstants == A!MiniAppConstants

-----------------------------------------------------------------------------
(* The payments are those for an invoice of each currency: what a bot that *)
(* is polled has for a secret makes no difference to them, and to a        *)
(* request that is not Telegram's neither does the invoice.  The charges   *)
(* are those for every invoice, for which any bot will do.                 *)
TelegramInit ==
    /\ Init /\ A!Init
    /\ \/ /\ part = "payments" /\ skew = 1
          /\ invoice \in {InStars, InEuro}
          /\ bot.mode = "polling" => bot.secret = "unset"
          /\ bot.secret = "cleared" => invoice = InEuro /\ how = "SendInvoice"
       \/ /\ part = "charges" /\ skew = 1
          /\ bot.mode = "polling" /\ bot.secret = "unset"
       \/ /\ part = "mini app"
          /\ invoice = InStars /\ how = "SendInvoice"
          /\ bot.mode = "webhook" /\ bot.secret = "set"

(* What leads to a charge. *)
ChargesNext ==
    \/ Offer \/ Ask \/ QueryEnds \/ Charge \/ Renew
    \/ \E verdict \in {"approved", "rejected"} : AnswerPreCheckout(verdict)

TelegramNext ==
    \/ part = "payments" /\ Next /\ UNCHANGED <<part, miniApp>>
    \/ part = "charges" /\ ChargesNext /\ UNCHANGED <<part, miniApp>>
    \/ part = "mini app" /\ A!Next /\ UNCHANGED <<part, vars>>

TelegramSpec == TelegramInit /\ [][TelegramNext]_<<part, vars, miniApp>>
=============================================================================
