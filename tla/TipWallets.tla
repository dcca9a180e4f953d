-------------------------------- MODULE TipWallets --------------------------------
(***************************************************************************)
(* Whom a dev tip slice pays (detected_coin_id and apply_dev_tip_wallets   *)
(* of lib.rs).  The coin of a profile is guessed from hints: the prefix of *)
(* its wallet, its algorithm and its pool each name a coin or nothing, and *)
(* the coins are tried in a fixed order.                                   *)
(***************************************************************************)
EXTENDS Naturals, Sequences

CONSTANTS
    CoinOrder,    \* the coins, in the order they are tried
    WalletOnly,   \* coins only a wallet can name (EVM)
    Unknown,      \* a hint that names no coin; a wallet that is not given
    NotYet        \* no slice prepared yet

Coins == {CoinOrder[i] : i \in DOMAIN CoinOrder}

ASSUME CoinAssumption ==
    /\ CoinOrder \in Seq(Coins)
    /\ WalletOnly \subseteq Coins
    /\ Unknown \notin Coins

VARIABLES
    rig,      \* the profile: engine, hints, and a second wallet for merge mining
    slice     \* the copy of it that a slice is started with

tipWalletVars == <<rig, slice>>

User(coin) == [owner |-> "user", coin |-> coin]
Developer(coin) == [owner |-> "developer", coin |-> coin]

\* The first coin some hint names; PeakMiner's algorithm is the coin, and it is
\* paid only for two of them.
Detected(engine, wallet, algorithm, pool) ==
    LET hints(i) == {wallet} \cup (IF CoinOrder[i] \in WalletOnly THEN {} ELSE {algorithm, pool})
        named == {i \in DOMAIN CoinOrder : CoinOrder[i] \in hints(i)}
    IN  IF engine = "peakminer"
        THEN IF algorithm \in {"PRL", "QTC"} THEN algorithm ELSE Unknown
        ELSE IF named = {} THEN Unknown
        ELSE CoinOrder[CHOOSE i \in named : \A j \in named : i <= j]

\* Mutation: a second wallet of an unknown coin is left as it is.
SecondLegKept(r, coin) ==
    LET second == Detected(r.engine, r.second.coin, r.algorithm, r.pool)
    IN  IF coin = "PRL" THEN Developer("NOCK")
        ELSE IF second = Unknown THEN r.second ELSE Developer(second)

\* The second wallet of a slice; Unknown when its leg is switched off.
SecondLeg(r, coin) ==
    LET second == Detected(r.engine, r.second.coin, r.algorithm, r.pool)
    IN  IF coin = "PRL" THEN Developer("NOCK")
        ELSE IF coin = "QTC" \/ second = Unknown THEN Unknown ELSE Developer(second)

\* The wallets of a slice; Unknown when the profile's coin is not recognised.
TipWalletsOf(r) ==
    LET coin == Detected(r.engine, r.wallet.coin, r.algorithm, r.pool)
    IN  IF r.engine = "custom" \/ coin = Unknown THEN Unknown
        ELSE [wallet |-> Developer(coin),
              second |-> IF r.second = Unknown THEN Unknown ELSE SecondLeg(r, coin)]

WalletsInit(rigs) == rig \in rigs /\ slice = NotYet

PrepareSlice ==
    /\ slice = NotYet
    /\ slice' = TipWalletsOf(rig)
    /\ UNCHANGED rig

-----------------------------------------------------------------------------
\* While a slice is announced as the developer's, nothing is paid to the user's
\* wallets on any leg, the first leg pays on the network all the profile's hints
\* agree on, and no network is guessed out of nothing.
SliceIsTheDevelopers ==
    slice \notin {NotYet, Unknown} =>
        LET hints == {rig.wallet.coin, rig.algorithm, rig.pool} \ {Unknown} IN
        /\ slice.wallet.owner = "developer" /\ slice.wallet.coin \in hints
        /\ slice.second # Unknown => slice.second.owner = "developer" /\ rig.second # Unknown
=============================================================================
