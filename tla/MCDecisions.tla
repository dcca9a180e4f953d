------------------------------- MODULE MCDecisions -------------------------------
(* The decisions that depend on nothing but the configuration and the clock, each *)
(* checked over every small input: a schedule window followed for a week and a     *)
(* day (every window over a three-second day and three weekdays, Sunday and Monday *)
(* among them), the tuning options of every engine for three cards, and the        *)
(* wallets of a tip.  A behaviour is about one of the three; the others rest.      *)
EXTENDS WindowWeek, GpuTuning, TipWallets

MCWindowSet == [enabled: BOOLEAN, days: SUBSET {1, 2, 7},
                start: TimeOfDay, end: TimeOfDay]
RestWindow == [enabled |-> FALSE, days |-> {}, start |-> 0, end |-> 0]

Selections == {<<>>, <<0>>, <<2>>, <<0, 1>>, <<2, 0>>, <<1, 2>>, <<2, 1, 0>>}
RestProfile == [engine |-> "srbminer", field |-> "core", selected |-> <<>>, all |-> Unset,
                card |-> [c \in Cards |-> [ignore |-> FALSE, value |-> Unset]]]
MCProfiles == [engine : Engines, field : Fields, selected : Selections,
               all : {Unset, 1}, card : [Cards -> CardTuning]]

MCCoinOrder == <<"QTC", "PRL", "EVM", "ALPH">>
Hints == Coins \cup {Unknown}
RestRig == [engine |-> "custom", wallet |-> User(Unknown), algorithm |-> Unknown,
            pool |-> Unknown, second |-> Unknown]
MCRigs == [engine : {"srbminer", "peakminer", "custom"}, wallet : {User(c) : c \in Hints},
           algorithm : Hints \ WalletOnly, pool : Hints \ WalletOnly,
           second : {User(c) : c \in Hints} \cup {Unknown}]

WeekRests == window = RestWindow /\ elapsed = LastSecond /\ key = {}
TuningRests == profile = RestProfile /\ command = NoOption
WalletsRest == rig = RestRig /\ slice = Unknown

DecisionsInit ==
    \/ WeekInit /\ TuningRests /\ WalletsRest
    \/ TuningInit(MCProfiles) /\ WeekRests /\ WalletsRest
    \/ WalletsInit(MCRigs) /\ WeekRests /\ TuningRests

DecisionsNext ==
    \/ Evaluate /\ UNCHANGED <<tuningVars, tipWalletVars>>
    \/ StartEngine /\ UNCHANGED <<weekVars, tipWalletVars>>
    \/ PrepareSlice /\ UNCHANGED <<weekVars, tuningVars>>

DecisionsSpec == DecisionsInit /\ [][DecisionsNext]_<<weekVars, tuningVars, tipWalletVars>>
=============================================================================
