-------------------------- MODULE ArticleClusters --------------------------
(***************************************************************************)
(* The local corpus of articles, the clusters of exact duplicates and the  *)
(* candidate pairs of near duplicates.  A corpus is a function from        *)
(* article ids to articles; titles and bodies are the sets of features     *)
(* (tokens, shingles) that are compared, so equal sets mean equal hashes.  *)
(***************************************************************************)
EXTENDS Integers, FiniteSets, Sequences, FiniteSetsExt

CONSTANTS
    Absent,         \* the value of an optional field that is missing
    Similarity      \* [title, body]: thresholds in percent

ASSUME SimilarityAssumption ==
    Similarity \in [title : 0..100, body : 0..100]

-----------------------------------------------------------------------------
\* A row of the file is valid (its article normalizes) or not (article is Absent).
Valid(row) == row.article # Absent

\* import_articles: a row is rejected when it is invalid or repeats the id of
\* a record that was accepted before it.
Accepted(rows) ==
    {i \in 1..Len(rows) :
        /\ Valid(rows[i])
        /\ \A j \in 1..(i - 1) : ~(Valid(rows[j]) /\ rows[j].id = rows[i].id)}

Imported(rows) ==
    [id \in {rows[i].id : i \in Accepted(rows)} |->
        rows[CHOOSE i \in Accepted(rows) : rows[i].id = id].article]

Rejections(rows) == Len(rows) - Cardinality(Accepted(rows))

-----------------------------------------------------------------------------
\* The evidence of identity between two articles; a shared title counts only
\* together with one of these.
SameRecord(x, y) == x.record = y.record
SameUrl(x, y) == x.url = y.url
SameBody(x, y) == x.body # Absent /\ x.body = y.body
SameTitleCorroborated(x, y) ==
    x.title = y.title /\ (SameUrl(x, y) \/ SameRecord(x, y) \/ SameBody(x, y))

\* link_all: the articles of a bucket are linked to its first one.
BucketLinks(corpus, Same(_, _)) ==
    {link \in (DOMAIN corpus) \X (DOMAIN corpus) :
        /\ link[1] < link[2]
        /\ Same(corpus[link[1]], corpus[link[2]])
        /\ \A id \in DOMAIN corpus :
              Same(corpus[id], corpus[link[2]]) => link[1] <= id}

\* _union_find_parent: follow the parents up to a root.
Root(parent, id) ==
    LET root[x \in DOMAIN parent] == IF parent[x] = x THEN x ELSE root[parent[x]]
    IN  root[id]

\* A bug: the item instead of its root is hung under the other root.
UnionItem(parent, link) ==
    LET a == Root(parent, link[1])  b == Root(parent, link[2]) IN
    IF a < b THEN [parent EXCEPT ![link[2]] = a]
    ELSE IF b < a THEN [parent EXCEPT ![link[1]] = b] ELSE parent

\* _union: the smaller root wins.
Union(parent, link) ==
    LET a == Root(parent, link[1])  b == Root(parent, link[2]) IN
    IF a < b THEN [parent EXCEPT ![b] = a]
    ELSE IF b < a THEN [parent EXCEPT ![a] = b] ELSE parent

\* The links of one rule, one after the other.
Linked(parent, links) == FoldSet(LAMBDA link, tree : Union(tree, link), parent, links)

\* The rule of titles links every pair of a bucket that is corroborated.
TitleLinks(corpus) ==
    {link \in (DOMAIN corpus) \X (DOMAIN corpus) :
        link[1] < link[2] /\ SameTitleCorroborated(corpus[link[1]], corpus[link[2]])}

\* The trees after the four rules.
Parents(corpus) ==
    LET alone == [id \in DOMAIN corpus |-> id]
        byRecord == Linked(alone, BucketLinks(corpus, SameRecord))
        byUrl == Linked(byRecord, BucketLinks(corpus, SameUrl))
        byBody == Linked(byUrl, BucketLinks(corpus, SameBody))
    IN  Linked(byBody, TitleLinks(corpus))

\* cluster_exact_duplicates: every article is in one cluster, often alone.
ExactClusters(corpus) ==
    LET parents == Parents(corpus)
        rootOf == [id \in DOMAIN corpus |-> Root(parents, id)]
    IN  {{id \in DOMAIN corpus : rootOf[id] = rootOf[one]} : one \in DOMAIN corpus}

Canonical(cluster) == Min(cluster)

ClusterOf(clusters, id) == CHOOSE cluster \in clusters : id \in cluster

-----------------------------------------------------------------------------
\* jaccard(a, b) >= percent / 100; two empty sets have no similarity.
AtLeast(a, b, percent) ==
    /\ a \cup b # {}
    /\ 100 * Cardinality(a \cap b) >= percent * Cardinality(a \cup b)

SimilarTitles(x, y) == AtLeast(x.title, y.title, Similarity.title)

SimilarBodies(x, y) ==
    /\ x.body # Absent /\ y.body # Absent
    /\ AtLeast(x.body, y.body, Similarity.body)

CompatibleLanguages(x, y) ==
    \/ x.language = Absent \/ y.language = Absent
    \/ x.language = y.language

\* Articles far apart in time are not compared, undated ones always are.
CloseInTime(x, y, distance) ==
    \/ x.published = Absent \/ y.published = Absent
    \/ x.published - y.published \in (-distance)..distance

\* The pairs that are compared at all.
Comparable(corpus, clusters, distance, a, b) ==
    /\ a < b
    /\ ClusterOf(clusters, a) # ClusterOf(clusters, b)
    /\ CompatibleLanguages(corpus[a], corpus[b])
    /\ CloseInTime(corpus[a], corpus[b], distance)

\* generate_near_duplicate_candidates
NearPairs(corpus, clusters, distance) ==
    {pair \in (DOMAIN corpus) \X (DOMAIN corpus) :
        /\ Comparable(corpus, clusters, distance, pair[1], pair[2])
        /\ \/ SimilarTitles(corpus[pair[1]], corpus[pair[2]])
           \/ SimilarBodies(corpus[pair[1]], corpus[pair[2]])}

=============================================================================
