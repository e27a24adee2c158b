---------------------------- MODULE FormContent ----------------------------
(***************************************************************************)
(* What is in a form and in its answer: src/src/bridge/actors/Forms.cpp    *)
(* from the specification of the mod to the form of LeviLamina, and from   *)
(* its result to what the mod reads (gui/mod.rs).  A client shows nothing  *)
(* of a form one control of which it does not accept, and LeviLamina       *)
(* reports the choice of a player as an index or as a text, which the      *)
(* client may have stripped of its colours.                                *)
(*                                                                         *)
(* Numbers are integers, in the finest unit a mod uses; a value that is    *)
(* not a number (numField would take it) is left out.                      *)
(***************************************************************************)
EXTENDS Integers, Sequences

CONSTANTS
    Specs,      \* the forms mods send: [kind, elements]
    Bare(_),    \* a text without its colour codes: stripFormatCodes
    Inputs      \* what a player types

VARIABLES
    spec,       \* the form as the mod sent it
    rest,       \* its elements still to append
    form,       \* the form of LeviLamina
    choices,    \* ChoiceTable: the options by the name of the control
    filled,     \* history: what the player set, control by control
    reply       \* FormResponse, as the mod reads it

contentVars == <<spec, rest, form, choices, filled, reply>>

Nothing == [tag |-> "none"]
Long(i) == [tag |-> "long", num |-> i]
Double(i) == [tag |-> "double", num |-> i]
Text(t) == [tag |-> "text", text |-> t]
Smaller(i, j) == IF i < j THEN i ELSE j
Clamped(i, lo, hi) == IF i < lo THEN lo ELSE Smaller(i, hi)
Put(f, k, v) == [i \in DOMAIN f \cup {k} |-> IF i = k THEN v ELSE f[i]]

Init ==
    /\ spec \in Specs /\ rest = spec.elements
    /\ form = <<>> /\ choices = <<>> /\ filled = <<>> /\ reply = Nothing

-----------------------------------------------------------------------------
(* Building the form.                                                      *)

\* normalizeSlider: the bounds in order, a step that is no longer than the range,
\* the last step point as the upper bound, and a default on a step point.
Slider(a, b, step, start) ==
    LET lo == Smaller(a, b)
        span == a + b - 2 * lo
        grain == IF step <= 0 THEN 0 ELSE Smaller(step, span)
        hi == IF grain = 0 THEN lo + span ELSE lo + (span \div grain) * grain
        near == Clamped(start, lo, hi)
        k == IF grain = 0 THEN 0 ELSE (2 * (near - lo) + grain) \div (2 * grain)
    IN  [min |-> lo, max |-> hi, step |-> grain,
         default |-> IF grain = 0 THEN near ELSE Clamped(lo + k * grain, lo, hi)]

\* What an element becomes; a choice without options is left out.
Shown(e) ==
    CASE e.kind = "choice" /\ e.options = <<>> -> <<>>
      [] e.kind = "choice" /\ e.options # <<>> ->
            <<[e EXCEPT !.default = IF @ \in 0 .. Len(e.options) - 1 THEN @ ELSE 0]>>
      [] e.kind = "slider" ->
            <<[kind |-> "slider", name |-> e.name,
               at |-> Slider(e.min, e.max, e.step, e.default)]>>
      [] OTHER -> <<e>>

\* The next element; of two choices of one name the table has the later.
AppendNext ==
    /\ rest # <<>>
    /\ rest' = Tail(rest)
    /\ form' = form \o Shown(Head(rest))
    /\ choices' = IF Head(rest).kind = "choice" /\ Shown(Head(rest)) # <<>> /\ Head(rest).name # ""
                    THEN Put(choices, Head(rest).name, Head(rest).options) ELSE choices
    /\ UNCHANGED <<spec, filled, reply>>

-----------------------------------------------------------------------------
(* The player, and LeviLamina: a number, a text, or nothing by the name.   *)

OnGrid(at, i) ==
    i \in at.min .. at.max /\ (at.step = 0 \/ (i - at.min) % at.step = 0)

Settings(c) ==
    CASE c.kind = "choice" -> {[num |-> i] : i \in 0 .. Len(c.options) - 1}
      [] c.kind = "slider" -> {[num |-> i] : i \in {j \in c.at.min .. c.at.max : OnGrid(c.at, j)}}
      [] c.kind = "toggle" -> {[num |-> 0], [num |-> 1]}
      [] c.kind = "input" -> {[text |-> t] : t \in Inputs}
      [] OTHER -> {Nothing}

Reports(c, v) ==
    CASE c.kind = "choice" ->
            {Long(v.num), Double(v.num),
             Text(c.options[v.num + 1]), Text(Bare(c.options[v.num + 1]))}
      [] c.kind = "slider" -> {Double(v.num)}
      [] c.kind = "toggle" -> {Long(v.num)}
      [] c.kind = "input" -> {Text(v.text)}
      [] OTHER -> {Nothing}

Named == {form[i].name : i \in {j \in DOMAIN form : form[j].kind # "label"}}

\* Of two controls of one name the result has one.
Results(vs) ==
    {r \in [Named -> UNION {Reports(form[i], vs[i]) : i \in DOMAIN form}] :
        \A n \in Named : \E i \in DOMAIN form :
            form[i].kind # "label" /\ form[i].name = n /\ r[n] \in Reports(form[i], vs[i])}

-----------------------------------------------------------------------------
(* The answer.                                                             *)

FirstIndex(ts, wanted) ==
    LET is == {i \in DOMAIN ts : ts[i] \in wanted}
    IN  IF is = {} THEN {} ELSE {(CHOOSE i \in is : \A j \in is : i <= j) - 1}

\* Mutant: a text is looked for as it is.
FindExact(ts, t) == FirstIndex(ts, {t})

\* findOption: the same text, or else the same but for the colours.
FindOption(ts, t) ==
    LET alike == {ts[i] : i \in {j \in DOMAIN ts : Bare(ts[j]) = Bare(t)}}
    IN  FirstIndex(ts, IF \E i \in DOMAIN ts : ts[i] = t THEN {t} ELSE alike)

\* The entry of a choice: its index, if it is one of the options, and its text.
Chosen(ts, r) ==
    LET at == IF r.tag = "text" THEN FindOption(ts, r.text)
              ELSE {r.num} \intersect (0 .. Len(ts) - 1)
    IN  [value |-> {Long(i) : i \in at},
         text |-> IF at # {} THEN {ts[i + 1] : i \in at} \ {""}
                  ELSE IF r.tag = "text" THEN {r.text} \ {""} ELSE {}]

\* The closure of sendCustom: `values' and `texts' of one key.
Entry(n, r) ==
    IF n \in DOMAIN choices /\ r # Nothing THEN Chosen(choices[n], r)
    ELSE [value |-> {r} \ {Nothing}, text |-> IF r.tag = "text" THEN {r.text} ELSE {}]

\* parse_response: what the mod finds under a key, if anything; an integer with a text
\* is a choice.
Read(entry) ==
    IF entry.value # {} THEN
        {IF v.tag = "long" /\ entry.text # {}
           THEN [tag |-> "choice", num |-> v.num, text |-> CHOOSE t \in entry.text : TRUE]
           ELSE v : v \in entry.value}
    ELSE {Text(t) : t \in entry.text}

\* The player submits a custom form.
Submit ==
    /\ spec.kind = "custom" /\ rest = <<>> /\ reply = Nothing
    /\ \E vs \in [DOMAIN form -> UNION {Settings(form[i]) : i \in DOMAIN form}] :
          /\ \A i \in DOMAIN form : vs[i] \in Settings(form[i])
          /\ filled' = vs
          /\ \E r \in Results(vs) :
                reply' = [tag |-> "Custom",
                          map |-> [n \in {m \in Named : Read(Entry(m, r[m])) # {}} |->
                                     CHOOSE v \in Read(Entry(n, r[n])) : TRUE]]
    /\ UNCHANGED <<spec, rest, form, choices>>

Buttons(es) == SelectSeq(es, LAMBDA e : e.kind = "button")

\* sendSimple: LeviLamina counts the buttons of the form.
Press ==
    /\ spec.kind = "simple" /\ rest = <<>> /\ reply = Nothing
    /\ \E i \in 1 .. Len(Buttons(form)) :
          /\ filled' = <<Buttons(form)[i]>>
          /\ reply' = [tag |-> "Button", index |-> i - 1]
    /\ UNCHANGED <<spec, rest, form, choices>>

\* sendModal: two buttons, whatever the mod sends.
Decide ==
    /\ spec.kind = "modal" /\ rest = <<>> /\ reply = Nothing
    /\ \E upper \in BOOLEAN :
          /\ filled' = <<upper>>
          /\ reply' = [tag |-> "Modal", upper |-> upper]
    /\ UNCHANGED <<spec, rest, form, choices>>

\* Closed or refused, with or without a reason.
Cancel ==
    /\ rest = <<>> /\ reply = Nothing
    /\ \E reason \in {-1, 0, 1} : reply' = [tag |-> "Cancelled", reason |-> reason]
    /\ UNCHANGED <<spec, rest, form, choices, filled>>

Next == AppendNext \/ Submit \/ Press \/ Decide \/ Cancel

Spec == Init /\ [][Next]_contentVars
-----------------------------------------------------------------------------
(***************************************************************************)
(* No control keeps a client from showing the form (Forms.cpp:26-27): a    *)
(* choice has options and a default among them; a slider's range is in     *)
(* what the mod asked for, a whole number of steps long, and its default   *)
(* is the step point nearest to the one asked for.                         *)
(***************************************************************************)
Fits(at, e) ==
    /\ at.min \in {e.min, e.max} /\ at.min <= e.min /\ at.min <= e.max
    /\ at.max <= e.min \/ at.max <= e.max
    /\ at.step \in 0 .. at.max - at.min /\ OnGrid(at, at.max) /\ OnGrid(at, at.default)
    /\ \A i \in at.min .. at.max :
          OnGrid(at, i) =>
            (at.default - e.default) * (at.default - e.default)
               <= (i - e.default) * (i - e.default)

ClientCanShow ==
    \A i \in DOMAIN form :
        /\ form[i].kind = "choice" => form[i].default \in 0 .. Len(form[i].options) - 1
        /\ form[i].kind = "slider" =>
             \E j \in DOMAIN spec.elements :
                /\ spec.elements[j].kind = "slider"
                /\ Fits(form[i].at, spec.elements[j])

(***************************************************************************)
(* The mod reads what the player set, under the name of the control:       *)
(* whatever LeviLamina reports, a choice is the index into the options of  *)
(* an option that looks the same, with its text (Forms.cpp:16-21).         *)
(***************************************************************************)
Unique(i) == \A j \in DOMAIN form \ {i} : form[j].kind = "label" \/ form[j].name # form[i].name

Matches(c, v, r) ==
    CASE c.kind = "choice" ->
            /\ r.tag \in {"choice", "long"} /\ r.num \in 0 .. Len(c.options) - 1
            /\ Bare(c.options[r.num + 1]) = Bare(c.options[v.num + 1])
            /\ r.tag = "choice" => r.text = c.options[r.num + 1]
      [] c.kind = "slider" -> r = Double(v.num)
      [] c.kind = "toggle" -> r = Long(v.num)
      [] c.kind = "input" -> r = Text(v.text)

AnswersAsGiven ==
    /\ reply.tag = "Custom" =>
         \A i \in DOMAIN form :
            form[i].kind # "label" /\ form[i].name # "" /\ Unique(i) =>
              form[i].name \in DOMAIN reply.map /\ Matches(form[i], filled[i], reply.map[form[i].name])
    /\ reply.tag = "Button" => Buttons(spec.elements)[reply.index + 1] = filled[1]
    /\ reply.tag = "Modal" => reply.upper = filled[1]
=============================================================================
