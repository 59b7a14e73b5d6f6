--------------------------- MODULE StreamRequest ----------------------------
(***************************************************************************)
(* From what an application asks of a new stream to the eight arguments of *)
(* create_stream.  There are three ways: StreamBuilder (builder.ts), whose *)
(* setters accept one field at a time, ConduitBatcher.execute() over plain *)
(* objects, and create() and createBatchStreams() of StreamsModule, which  *)
(* validate the whole (streams.ts).                                        *)
(*                                                                         *)
(* A number is in units of the token.  A deposit may be a decimal text of  *)
(* whole tokens, which is counted in grains, the finest that its places    *)
(* tell; toStroops() makes units of it, or stroops of seven decimals.      *)
(***************************************************************************)
EXTENDS Integers

CONSTANTS
    MaxAmount,     \* largest deposit, and largest rate, that is tried
    MaxStart,      \* largest time that is tried
    MinDuration,   \* MIN_STREAM_DURATION_SECONDS
    MaxGrains,     \* largest deposit that is tried as a text
    StroopGrains, UnitGrains, TokenGrains   \* grains in a stroop, a unit and a whole token

ASSUME RequestAssumption ==
    /\ MaxAmount \in Nat \ {0} /\ MaxStart \in Nat \ {0} /\ MinDuration \in Nat \ {0}
    /\ MaxGrains \in Nat \ {0}
    /\ StroopGrains \in Nat \ {0} /\ UnitGrains \in Nat \ {0} /\ TokenGrains \in Nat \ {0}

VARIABLES
    settings,   \* fields of the builder
    flags,      \* its cancelable and clawbackable, which are no arguments
    wished,     \* what was asked of it since it was new or reset
    made,       \* the last request: route, what was asked, the arguments
    today       \* the clock, in seconds

requestVars == <<settings, flags, wished, made, today>>

Unsaid == -1                \* a number that was not given
Fraction == -2              \* a number that is not whole, and cannot be encoded
Nobody == "nobody"          \* an address that was not given
Addresses == {"account", "contract", "malformed", Nobody}

\* isValidAddress(); the token must be a contract.
ValidFor(field, a) == a \in IF field = "token" THEN {"contract"} ELSE {"account", "contract"}

Blank ==
    [token |-> Nobody, sender |-> Nobody, recipient |-> Nobody, amount |-> Unsaid, text |-> FALSE,
     rate |-> Unsaid, start |-> Unsaid, end |-> Unsaid, clawback |-> "unsaid"]
NoFlags == [cancelable |-> "unsaid", clawbackable |-> "unsaid"]
NoRequest == [route |-> "none", asked |-> Blank, args |-> Blank]

Given(n, default) == IF n = Unsaid THEN default ELSE n
Said(choice) == IF choice = "yes" THEN "yes" ELSE "no"

\* n of which d make one: toStroops() and calculateRate(), both half up.
HalfUp(n, d) == (2 * n + d) \div (2 * d)

\* The builder and execute() encode a text as it is, so its tokens as units.
Encoded(config) ==
    IF ~config.text THEN config.amount
    ELSE IF config.amount % TokenGrains = 0 THEN config.amount \div TokenGrains ELSE Fraction

RequestInit ==
    /\ settings = Blank /\ wished = Blank /\ made = NoRequest /\ today = 0
    /\ flags = NoFlags

-----------------------------------------------------------------------------
(* StreamBuilder *)

\* A setter that throws leaves the field as it was.
Put(field, v) ==
    /\ settings' = [settings EXCEPT ![field] = v]
    /\ wished' = [wished EXCEPT ![field] = v, !.text = wished.text /\ field # "amount"]
    /\ made' = NoRequest
    /\ UNCHANGED <<flags, today>>

SetAddress(field, a) == ValidFor(field, a) /\ Put(field, a)
SetAmount(v) == v \notin {Unsaid, 0} /\ Put("amount", v)
SetRatePerSecond(v) == v \notin {Unsaid, 0} /\ Put("rate", v)
SetStartTime(v) == v >= today /\ Put("start", v)
SetEndTime(v) == v >= 0 /\ Put("end", v)
SetClawbackEnabled(choice) == Put("clawback", choice)
SetCancelable(choice) ==
    flags' = [flags EXCEPT !.cancelable = choice] /\ UNCHANGED <<settings, wished, made, today>>

\* setClawbackable() sets both.
SetClawbackable(choice) ==
    /\ settings' = [settings EXCEPT !.clawback = choice]
    /\ wished' = [wished EXCEPT !.clawback = choice]
    /\ flags' = [flags EXCEPT !.clawbackable = choice]
    /\ made' = NoRequest
    /\ UNCHANGED today

\* clone() copies the arguments, not the flags; the application goes on with the copy.
CloneBuilder == flags' = NoFlags /\ UNCHANGED <<settings, wished, made, today>>

\* A mistake for the runs to notice: a field is forgotten, as the flags are.
ResetButTerm ==
    /\ settings' = [Blank EXCEPT !.end = settings.end] /\ wished' = Blank /\ made' = NoRequest
    /\ UNCHANGED <<flags, today>>

ResetBuilder ==
    /\ settings' = Blank /\ wished' = Blank /\ made' = NoRequest
    /\ UNCHANGED <<flags, today>>

(* fromConfig() throws for a malformed field.  It keeps a start in the     *)
(* past, and derives the end from a duration only when a start is given.   *)
FromConfig(config, duration) ==
    LET end == IF config.end = Unsaid /\ duration # Unsaid /\ config.start # Unsaid
               THEN config.start + duration ELSE config.end
    IN  /\ \A field \in {"token", "sender", "recipient"} :
              config[field] = Nobody \/ ValidFor(field, config[field])
        /\ config.amount # 0 /\ config.rate # 0
        /\ wished' = [config EXCEPT !.end = end]
        /\ settings' = [config EXCEPT !.end = end, !.amount = Encoded(config), !.text = FALSE]
        /\ flags' = NoFlags
        /\ made' = NoRequest
        /\ UNCHANGED today

Missing == {field \in {"token", "sender", "recipient"} : settings[field] = Nobody}
              \cup IF settings.amount = Unsaid THEN {"amount"} ELSE {}

\* build() throws unless validate() finds nothing; toContractArgs() needs the
\* rate too, and the encoding whole numbers.
ToContractArgs ==
    /\ Missing = {} /\ settings.amount # Fraction /\ settings.rate \notin {Unsaid, Fraction}
    /\ made' = [route |-> "builder", asked |-> wished,
                args |-> [settings EXCEPT !.start = Given(settings.start, today),
                                          !.end = Given(settings.end, 0),
                                          !.clawback = Said(settings.clawback)]]
    /\ UNCHANGED <<settings, flags, wished, today>>

-----------------------------------------------------------------------------
(* ConduitBatcher.execute(): validatePayload() looks at what an item has,  *)
(* and a field it lacks, the deposit, too, becomes a void argument.        *)

ValidItem(item) ==
    /\ \A field \in {"token", "sender", "recipient"} :
          item[field] = Nobody \/ ValidFor(field, item[field])
    /\ IF item.text THEN HalfUp(item.amount, StroopGrains) > 0 ELSE item.amount \notin {0, Fraction}

ExecuteItem(item) ==
    /\ ValidItem(item)
    /\ Fraction \notin {Encoded(item), item.rate}
    /\ made' = [route |-> "batcher", asked |-> item,
                args |-> [item EXCEPT !.amount = Encoded(item), !.text = FALSE,
                                      !.start = Given(item.start, 0),
                                      !.end = Given(item.end, 0),
                                      !.clawback = Said(item.clawback)]]
    /\ UNCHANGED <<settings, flags, wished, today>>

-----------------------------------------------------------------------------
(* create() and createBatchStreams() *)

\* validateStreamParameters(); stopTime is checked and then not used.
ValidParameters(p, duration) ==
    LET from == Given(p.start, today)
        stop == IF p.end # Unsaid THEN p.end
                ELSE IF duration # Unsaid THEN from + duration ELSE from + 1
    IN  /\ ValidFor("recipient", p.recipient)
        /\ p.token = "native" \/ ValidFor("recipient", p.token)
        /\ p.text /\ HalfUp(p.amount, StroopGrains) > 0
        /\ duration = Unsaid \/ duration >= MinDuration
        /\ p.rate = Unsaid \/ p.rate > 0
        /\ duration # Unsaid \/ p.rate # Unsaid \/ p.end # Unsaid
        /\ p.start = Unsaid \/ p.start >= today
        /\ stop > from

\* Without rate and duration, calculateRate() throws; createBatchStreams() throws
\* for "native", which create() resolves.
CreateStream(p, duration) ==
    LET from == Given(p.start, today)
        units == HalfUp(p.amount, UnitGrains)
    IN  /\ ValidParameters(p, duration)
        /\ p.rate # Unsaid \/ duration # Unsaid
        /\ made' = [route |-> "create",
                    asked |-> [p EXCEPT !.end = IF duration = Unsaid THEN 0 ELSE from + duration],
                    args |-> [p EXCEPT
                                !.token = IF p.token = "native" THEN "contract" ELSE p.token,
                                !.amount = units, !.text = FALSE,
                                !.rate = IF p.rate # Unsaid THEN p.rate ELSE HalfUp(units, duration),
                                !.start = from,
                                !.end = IF duration # Unsaid THEN from + duration ELSE 0,
                                !.clawback = Said(p.clawback)]]
        /\ UNCHANGED <<settings, flags, wished, today>>

RequestTick == today < MaxStart /\ today' = today + 1 /\ UNCHANGED <<settings, flags, wished, made>>

-----------------------------------------------------------------------------
Number == {Unsaid, Fraction} \cup 0 .. MaxAmount
Moment == {Unsaid} \cup 0 .. MaxStart
Choice == {"yes", "no", "unsaid"}
Duration == {Unsaid, MinDuration, MinDuration + 1}

\* Objects with all their fields in one hand; who is paid matters less than the terms.
Configs ==
    LET Terms(amounts, text) ==
            [token : {"contract", "native"}, sender : {"account"}, recipient : {"account", Nobody},
             amount : amounts, text : {text}, rate : Number, start : Moment, end : Moment,
             clawback : Choice]
    IN  Terms(Number, FALSE) \cup Terms(0 .. MaxGrains, TRUE)

RequestNext ==
    \/ \E field \in {"token", "sender", "recipient"}, a \in Addresses : SetAddress(field, a)
    \/ \E v \in Number : SetAmount(v) \/ SetRatePerSecond(v)
    \/ \E v \in 0 .. MaxStart : SetStartTime(v) \/ SetEndTime(v)
    \/ \E choice \in {"yes", "no"} :
          SetClawbackEnabled(choice) \/ SetCancelable(choice) \/ SetClawbackable(choice)
    \/ CloneBuilder \/ ResetBuilder
    \/ settings = Blank /\ made = NoRequest /\ flags = NoFlags
       /\ \E c \in Configs :
             \/ ExecuteItem(c)
             \/ \E d \in Duration : FromConfig(c, d) \/ CreateStream(c, d)
    \/ ToContractArgs
    \/ RequestTick

RequestSpec == RequestInit /\ [][RequestNext]_requestVars

-----------------------------------------------------------------------------
(* Whichever of the three ways (builder.ts:410, builder.ts:1008,           *)
(* streams.ts:688) makes the arguments, they say what was asked last: the  *)
(* addresses, the deposit, the term and the clawback; the rate is the one  *)
(* that was given, or, from create(), the deposit spread over the          *)
(* duration to the nearest unit; and create() never asks for an empty      *)
(* term.  A deposit that create() was told as a text is the nearest number *)
(* of units, which may be none.  The code leaves two exceptions: the       *)
(* tokens of a text become as many units in the builder and in execute(),  *)
(* and a deposit that execute() was not told is void.                      *)
DepositAsAsked(route, q, a) ==
    /\ ~q.text => a.amount = q.amount
    /\ q.text /\ route = "create" => 2 * (a.amount * UnitGrains - q.amount) \in -UnitGrains .. UnitGrains
    /\ q.text /\ route # "create" => a.amount * TokenGrains = q.amount
    /\ a.amount = Unsaid => route = "batcher"

ArgumentsAsAsked ==
    made # NoRequest =>
        LET q == made.asked
            a == made.args
        IN  /\ a.sender = q.sender /\ a.recipient = q.recipient
            /\ q.token # "native" => a.token = q.token
            /\ DepositAsAsked(made.route, q, a)
            /\ a.end = Given(q.end, 0)
            /\ a.clawback = Said(q.clawback)
            /\ q.start # Unsaid => a.start = q.start
            /\ made.route = "builder" \/ q.rate # Unsaid => a.rate = q.rate
            /\ made.route = "create" =>
                /\ a.end # 0 => a.end > a.start
                /\ q.rate = Unsaid =>
                      LET secs == a.end - a.start
                      IN  2 * (a.rate * secs - a.amount) \in -secs .. secs
=============================================================================
