-------------------------- MODULE MCNewsCollection --------------------------
EXTENDS NewsCollection, TLC

\* The first two articles have one url, the third has none and the fourth is in
\* another language; the last has neither a key nor a date.
Article(url, title, language, stamp, wide) ==
    [url |-> url, title |-> title, domain |-> None, language |-> language,
     stamp |-> stamp, wide |-> wide]

MCKind == <<Article("a", "x", "en", 1, FALSE), Article("a", "y", "en", 1, TRUE),
            Article(None, "z", "en", 3, FALSE), Article("d", "w", "fr", 2, FALSE),
            Article(None, None, "en", None, FALSE)>>

\* The second query is itself a keyword of topic 2.
MCTags == [q1 |-> <<<<1>>, <<1>>, <<1>>, <<1>>, << >>>>,
           q2 |-> <<<<1, 2>>, <<1>>, <<1>>, <<1>>, << >>>>]

\* The second collection can make the row of topic 1 of the first with one article
\* more, and one that begins and does not end with it.
MCAnswers == [q1 |-> {<<3, 4, 1>>}, q2 |-> {<<3, 4, 1>>, <<5, 2, 1>>}]

MCCollections == {[query |-> "q1", language |-> "en", strategy |-> "title"],
                  [query |-> "q2", language |-> None, strategy |-> "url"]}

MCDayOf == <<1, 1, 1>>

Symmetry == Permutations(Runs)
=============================================================================
