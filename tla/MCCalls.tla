------------------------------ MODULE MCCalls -------------------------------
(***************************************************************************)
(* What the loader calls for a mod, for TLC: services, tasks, forms and    *)
(* what is in a form.  They share no table, so one of them moves while the *)
(* others rest.                                                            *)
(***************************************************************************)
EXTENDS Scheduler, Sequences

CONSTANTS
  Names, Main, Nested, MaxServices, Players, MaxForms,
  Specs, Bare(_), Inputs

VARIABLES
  part,  \* which of them moves
  serviceStage, services, byName, nextService, stack, answer,
  formStage, formGen, online, forms, nextTicket, shown, answering, fired,
  spec, rest, form, choices, filled, reply

serviceVars == <<serviceStage, services, byName, nextService, stack, answer>>
formVars ==
  <<formStage, formGen, online, forms, nextTicket, shown, answering, fired>>
contentVars == <<spec, rest, form, choices, filled, reply>>

Service == INSTANCE Services WITH
  Threads <- {Main}, MaxDepth <- Nested, stage <- serviceStage,
  nextId <- nextService

\* A choice with options that look the same, and one of the empty text.
Uncoloured(t) == IF t = "#yes" THEN "yes" ELSE t
Texts == {<<>>, <<"no", "#yes">>, <<"#yes", "yes", "">>}
Controls(n) ==
  {[kind |-> "choice", name |-> n, options |-> ts, default |-> d] :
     ts \in Texts, d \in {-1, 2}}
  \cup {[kind |-> "slider", name |-> n, min |-> a, max |-> b, step |-> s, default |-> d] :
           a \in {0, 7}, b \in {1, 5}, s \in {-1, 2, 9}, d \in {-2, 3, 9}}
  \cup {[kind |-> k, name |-> n] : k \in {"toggle", "input"}}
Label == [kind |-> "label"]
Button(t) == [kind |-> "button", text |-> t]
SomeSpecs ==
  {[kind |-> "custom", elements |-> <<e, f>>] :
     e \in Controls("a"), f \in {c \in Controls("a") \cup Controls("b") : c.kind = "choice"}}
  \cup {[kind |-> "custom", elements |-> <<Label, e>>] : e \in Controls("")}
  \cup {[kind |-> "simple", elements |-> <<Button("x"), Label, Button("y")>>],
        [kind |-> "modal", elements |-> <<>>]}

Content == INSTANCE FormContent

\* What a mod can say of a form with the builders of gui/; a text without colours has
\* none to lose.
Element ==
  [kind : {"choice"}, name : STRING, options : Seq(STRING), default : Int]
  \cup [kind : {"slider"}, name : STRING, min : Int, max : Int, step : Int, default : Int]
  \cup [kind : {"toggle", "input"}, name : STRING]
  \cup [kind : {"label"}]
  \cup [kind : {"button"}, text : STRING]

ASSUME ContentAssumption ==
  \A s \in Specs :
    /\ s.kind \in {"custom", "simple", "modal"} /\ s.elements \in Seq(Element)
    /\ \A i \in DOMAIN s.elements : LET e == s.elements[i] IN
         /\ s.kind = "simple" => e.kind \in {"label", "button"}
         /\ s.kind = "custom" => e.kind # "button"
         /\ e.kind = "choice" =>
              \A j \in DOMAIN e.options : Bare(Bare(e.options[j])) = Bare(e.options[j])

Form == INSTANCE Forms WITH
  MaxTickets <- MaxForms, stage <- formStage, gen <- formGen, running <- answering

\* Forms are counted.
ASSUME FormsAssumption == MaxForms \in Nat

CallsInit ==
  /\ part \in {"task", "service", "form", "content"}
  /\ Init /\ Service!Init /\ Form!Init
  /\ IF part = "content" THEN Content!Init
     ELSE /\ spec = [kind |-> "modal", elements |-> <<>>]
          /\ rest = <<>> /\ form = <<>> /\ choices = <<>> /\ filled = <<>>
          /\ reply = Content!Nothing

CallsNext ==
  /\ UNCHANGED part
  /\ \/ part = "task" /\ Next /\ UNCHANGED <<serviceVars, formVars, contentVars>>
     \/ part = "service" /\ Service!Next /\ UNCHANGED <<vars, formVars, contentVars>>
     \/ part = "form" /\ Form!Next /\ UNCHANGED <<vars, serviceVars, contentVars>>
     \/ part = "content" /\ Content!Next /\ UNCHANGED <<vars, serviceVars, formVars>>

\* No fair action of a part is enabled in the part's initial state.
CallsSpec ==
  /\ CallsInit /\ [][CallsNext]_<<part, vars, serviceVars, formVars, contentVars>>
  /\ Fairness /\ Service!Fairness

\* Every call of a service is answered, also when its provider unregisters
\* meanwhile.
CallEnds == Service!CallEnds

\* A form's callback runs once at most, never after its ticket was dropped, and
\* only in the enabled object that sent the form.
FormsOnceOrNever == Form!OnceOrNever /\ Form!MutedWhileDisabled

\* The client can show the form a mod asked for, and the mod reads what the player
\* set in it.
FormsAsFilled == Content!ClientCanShow /\ Content!AnswersAsGiven
=============================================================================
