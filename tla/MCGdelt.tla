------------------------------- MODULE MCGdelt -------------------------------
(***************************************************************************)
(* A GKG archive of six records around two seeds (Intel, which must not    *)
(* match intelligence, and the phrase chip maker), one more that arrives   *)
(* late, and the configured tasks that tell the hazards apart.             *)
(***************************************************************************)
EXTENDS GdeltTask

Words == {"econ", "trade", "chip", "foundry", "man", "tax", "fncact",
          "intel", "corp", "ligence", "maker", "news", "_", " ", ";", "__",
          "TOTAL", "SEED"}
Upper == [ECON |-> "econ", TRADE |-> "trade", CHIP |-> "chip", FOUNDRY |-> "foundry",
          MAN |-> "man", TAX |-> "tax", FNCACT |-> "fncact", Intel |-> "intel"]
MCLower == Upper @@ [w \in Words |-> w]

Trade == <<"ECON", "_", "TRADE">>
Foundry == <<"CHIP", "_", "FOUNDRY">>
Foundryman == <<"FOUNDRY", "MAN">>
Actor == <<"TAX", "_", "FNCACT">>
IntelSeed == [canonical |-> <<"intel">>, kind |-> "company_alias",
              aliases |-> {<<"intel">>, <<"intel", " ", "corp">>}]
MakerSeed == [canonical |-> <<"chip", " ", "maker">>, kind |-> "industry_phrase",
              aliases |-> {<<"chip", " ", "maker">>}]

MCCollation ==
    <<Foundry, Trade, Foundryman, Actor, SeedCode(MakerSeed.canonical),
      SeedCode(IntelSeed.canonical), TotalCode>>

Record(id, day, slot, part, source, codes, orgs) ==
    [id |-> id, day |-> day, slot |-> slot, part |-> part, source |-> source,
     codes |-> codes, orgs |-> orgs]

Both == <<"Intel", " ", "corp", ";", "chip", " ", "maker">>

MCArchive ==
    {Record(1, 1, 1, 1, "s1", <<Foundry, Trade>>, Both),
     Record(2, 1, 9, 1, "s1", <<Trade, Trade, Foundryman>>, <<"Intel", "ligence">>),
     Record(3, 3, 5, 3, "s2", <<Foundry>>, <<"chip", " ", "maker">>),
     Record(4, 3, 6, 3, "s2", <<Actor, Trade>>, <<"ECON", " ", "TRADE">>),
     Record(5, 4, 7, 5, "s1", <<Foundry, Actor>>, <<"Intel">>),
     Record(6, 4, 7, 4, "s3", <<Foundry>>, <<"news">>)}
MCArriving ==
    {Record(7, 2, 1, 2, "s2", <<Actor, Foundryman, Trade>>, <<"Intel">>)}

MCRules ==
    [core |-> {}, exact |-> {}, prefixes |-> {<<"TAX", "_", "FNCACT">>},
     long |-> {<<"FOUNDRY">>},
     buckets |-> <<[category |-> "supply_chain", tokens |-> {<<"TRADE">>}],
                   [category |-> "manufacturing", tokens |-> {<<"FOUNDRY">>}]>>]

MCScreens ==
    [minSupport |-> 2, minLift |-> 120, minPeriods |-> 2, maxDayShare |-> 700,
     maxSourceShare |-> 700, maxSeedShare |-> 900, expectedCell |-> 1]

Days == [start |-> 1, end |-> 4]

Request(task, q, more) ==
    more @@ [task |-> task, topic |-> "chips", name |-> "chips", dry_run |-> FALSE,
             confirmed |-> TRUE, use_cache |-> TRUE,
             q |-> [window |-> Days, partitioned |-> FALSE] @@ q]

Counts(terms, columns, bundle) ==
    Request("counts", [terms |-> terms, columns |-> columns], [bundle |-> bundle])
Discovery(mode, limit) ==
    Request("discovery", [patterns |-> <<<<"FOUNDRY">>, <<"trade">>>>, mode |-> mode,
                          limit |-> limit],
            [rejected |-> {Foundryman}])
SeededBy(task, specs, terms, q) ==
    Request(task, [seeds |-> <<>>, week |-> 2, sample |-> 1] @@ q, [specs |-> specs, terms |-> terms])
Scoring(cap, floor) ==
    SeededBy("scoring", <<IntelSeed, MakerSeed>>, <<>>,
             [limit |-> 1, candidate_limit |-> cap, min_support |-> floor])

Flat == <<<<"Intel">>, <<"chip", " ", "maker">>, <<"intel">>>>

MCRequests ==
    {Counts(<<Trade>>, {"V2Themes"}, NULL),
     Counts(<<Lower(Trade)>>, {"V2Themes", "AllNames"}, <<Trade, Foundry>>),
     Counts(<<>>, {"V2Themes"}, <<>>),
     Discovery("substring", 1), Discovery("token", 2),
     [Discovery("exact", 2) EXCEPT !.dry_run = TRUE],
     SeededBy("seeded", <<>>, Flat, [limit |-> 2]),
     SeededBy("seeded", <<>>, Flat, [limit |-> 1]),
     Scoring(1, 1), Scoring(2, 2), Scoring(3, 1), Scoring(4, 0),
     [Scoring(2, 1) EXCEPT !.confirmed = FALSE],
     [Scoring(3, 1) EXCEPT !.q.partitioned = TRUE, !.use_cache = FALSE]}


MCTargets == {Actor}
=============================================================================
