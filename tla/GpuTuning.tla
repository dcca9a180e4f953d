-------------------------------- MODULE GpuTuning --------------------------------
(***************************************************************************)
(* From the tuning of a profile to what each card gets: the values a user  *)
(* sets for all cards or for one, the way each engine's command line       *)
(* carries them (build_engine_args_with_language and its helpers), and the *)
(* way that engine reads it.  The fields (clocks, offsets, power, fan) are *)
(* independent of each other: a profile here has the tuning of one field.  *)
(***************************************************************************)
EXTENDS Integers, Sequences

CONSTANTS
    Cards,      \* GPU indices
    Values,     \* values of the field, 0 among them
    Unset,      \* a blank field
    NotStarted  \* no command line built yet

ASSUME TuningAssumption ==
    /\ Cards \subseteq Nat
    /\ 0 \in Values /\ Unset \notin Values

VARIABLES
    profile,    \* engine, field, selected cards, value for all cards, value of each card
    command     \* the option the engine was started with

tuningVars == <<profile, command>>

Engines == {"srbminer", "npminer", "bzminer", "lolminer", "rigel",
            "lpminer", "onezerominer", "peakminer"}
Fields == {"core", "power", "fan", "memory", "offset"}

\* An edit of one card may discard the value for all cards (ignore_defaults).
CardTuning == [ignore : BOOLEAN, value : Values \cup {Unset}]

Effective(p, card) ==
    IF p.card[card].ignore \/ p.card[card].value # Unset THEN p.card[card].value ELSE p.all

\* How an engine's command line carries a field: one value per selected card, the
\* same with a filler for blanks, one per card index up to the largest selected
\* with a mark for the cards to skip, one value for all cards, or not at all.
Convention(engine, field) ==
    CASE engine = "srbminer" -> "complete"
      [] engine = "npminer" -> IF field \in {"core", "power", "memory"} THEN "complete" ELSE "none"
      [] engine = "bzminer" -> IF field \in {"core", "power", "fan"} THEN "filled" ELSE "complete"
      [] engine \in {"lolminer", "rigel"} -> "indexed"
      [] engine = "lpminer" -> IF field = "core" THEN "shared" ELSE "none"
      [] OTHER -> "shared"

Selected(p) == {p.selected[i] : i \in DOMAIN p.selected}
Settings(p) == {Effective(p, card) : card \in Selected(p)}
NoOption == [form |-> "none"]
Refused == [form |-> "refused"]

\* Mutation: cards without a value are left out of the list.
FilteredList(p) ==
    IF Settings(p) = {Unset} THEN NoOption
    ELSE [form |-> "listed",
          values |-> SelectSeq([i \in DOMAIN p.selected |-> Effective(p, p.selected[i])],
                               LAMBDA v : v # Unset)]

\* srb_numeric_list after validate_gpu_selection: every selected card has a value
\* or none has, anything else is refused.
CompleteList(p) ==
    IF Settings(p) = {Unset} THEN NoOption
    ELSE IF Unset \in Settings(p) THEN Refused
    ELSE [form |-> "listed",
          values |-> [i \in DOMAIN p.selected |-> Effective(p, p.selected[i])]]

\* BzMiner's clocks and fan: a blank is a zero, for the fan the -1 of "automatic".
FilledList(p) ==
    LET blank == IF p.field = "fan" THEN Unset ELSE 0
        values == [i \in DOMAIN p.selected |->
                      IF Effective(p, p.selected[i]) = Unset THEN blank
                      ELSE Effective(p, p.selected[i])]
    IN  IF \A i \in DOMAIN values : values[i] = blank THEN NoOption
        ELSE [form |-> "listed", values |-> values]

\* indexed_numeric_list: position i of the list is for card i - 1.
IndexedList(p) ==
    LET largest == CHOOSE card \in Selected(p) : \A other \in Selected(p) : other <= card
    IN  IF Settings(p) = {Unset} THEN NoOption
        ELSE [form |-> "indexed",
              values |-> [i \in 1..(largest + 1) |->
                             IF i - 1 \in Selected(p) THEN Effective(p, i - 1) ELSE Unset]]

\* lpminer_shared_core_clock, shared_tuning of OneZeroMiner, shared of PeakMiner.
SharedValue(p) ==
    LET first == Effective(p, p.selected[1])
    IN  IF \E card \in Selected(p) : Effective(p, card) # first THEN Refused
        ELSE IF first = Unset THEN NoOption ELSE [form |-> "all", value |-> first]

Option(p) ==
    LET convention == Convention(p.engine, p.field)
    IN  CASE convention = "none" -> NoOption
          [] p.selected = <<>> -> IF p.all = Unset THEN NoOption
                                  ELSE [form |-> "all", value |-> p.all]
          [] convention = "complete" -> CompleteList(p)
          [] convention = "filled" -> FilledList(p)
          [] convention = "indexed" -> IndexedList(p)
          [] OTHER -> SharedValue(p)

\* What a card of the selection gets, as the engines document their options.
Applied(option, p, card) ==
    CASE option.form = "all" -> option.value
      [] option.form = "listed" ->
            LET positions == {i \in DOMAIN option.values : p.selected[i] = card}
            IN  IF positions = {} THEN Unset
                ELSE option.values[CHOOSE i \in positions : \A j \in positions : i <= j]
      [] option.form = "indexed" ->
            IF card + 1 \in DOMAIN option.values THEN option.values[card + 1] ELSE Unset
      [] OTHER -> Unset

TuningInit(profiles) == profile \in profiles /\ command = NotStarted

StartEngine ==
    /\ command = NotStarted
    /\ command' = Option(profile)
    /\ UNCHANGED profile

-----------------------------------------------------------------------------
\* BzMiner's core clock and power limit, where FilledList does not tell a blank
\* from a zero: beside a card with a value a blank card gets a zero, and zeros
\* without such a card are left out.
ZeroForBlank(p, card) ==
    /\ Convention(p.engine, p.field) = "filled" /\ p.field # "fan"
    /\ IF Settings(p) \subseteq {Unset, 0} THEN Effective(p, card) = 0
                                           ELSE Effective(p, card) = Unset

\* No card is ever tuned with another card's value: when an engine that carries
\* the field starts with a selection of cards, each gets exactly the value that
\* holds for it, and a blank card nothing, but for the cards of ZeroForBlank.  A
\* start is refused only for a reason: cards that differ where the engine cannot
\* tell them apart.
TuningReachesItsCard ==
    command # NotStarted /\ profile.selected # <<>> =>
        LET convention == Convention(profile.engine, profile.field)
        IN  IF command = Refused
            THEN /\ convention \in {"complete", "shared"}
                 /\ \E a, b \in Selected(profile) : Effective(profile, a) # Effective(profile, b)
            ELSE convention = "none" \/ \A card \in Selected(profile) :
                    \/ Applied(command, profile, card) = Effective(profile, card)
                    \/ ZeroForBlank(profile, card)

\* What docs/GPU-TUNING.md:18 and the comment at lib.rs:2688-2689 promise: an
\* explicit zero is passed as requested and a blank is never filled with a zero,
\* which can unlock a clock.  The code does not keep it for BzMiner's core clock and
\* power limit (lib.rs:2768-2772), the only cards where it fails.
BlanksStayBlank ==
    command \notin {NotStarted, Refused} /\ profile.selected # <<>>
        /\ Convention(profile.engine, profile.field) # "none" =>
            \A card \in Selected(profile) :
                Applied(command, profile, card) = Effective(profile, card)
=============================================================================
