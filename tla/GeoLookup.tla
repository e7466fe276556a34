------------------------------ MODULE GeoLookup ------------------------------
(***************************************************************************)
(* Where on the map a page is put: lookupArticleCoordinates in             *)
(* src/internal/api/handlers.go.  Several lookups run at a time, for the   *)
(* wars and for the trending pages.  Each asks a cache in Redis, then      *)
(* Wikipedia and Wikidata with up to three calls, and takes the first      *)
(* place found in a fixed order of sources; that there is none is cached   *)
(* for a day too.  The server URL a caller passes says which edition's     *)
(* article is meant, the cache goes by the title alone: what a lookup of   *)
(* one edition has cached is the answer for all.                           *)
(*                                                                         *)
(* The answers of Wikipedia and Wikidata are constants: the sources that   *)
(* tell an article's place.                                                *)
(***************************************************************************)
EXTENDS Naturals, Faults

CONSTANTS Lookups,       \* goroutines that look up, 8 at most
          Pages,         \* titles
          Editions,      \* languages in server URLs, English when there is none
          Articles,      \* the titles and editions that are looked up
          Telling,       \* for each article, the sources that tell its place
          Linked,        \* the articles with a Wikidata item
          Foreign,       \* those not in English whose item has an English article
          CacheLife,     \* 24 h, in ticks
          NoArticle

\* In the order in which they are asked: the article's coordinates, claims
\* of the Wikidata item, names of places in the title, in the extract, in the
\* item's English description, in the extract of the English article.
Sources == {"article", "wikidata", "title", "extract", "description", "english"}

ASSUME GeoAssumption ==
    /\ Articles \subseteq Pages \X Editions
    /\ Telling \in [Articles -> SUBSET Sources]
    /\ Linked \subseteq Articles /\ Foreign \subseteq Linked
    /\ CacheLife \in Nat \ {0}
    /\ NoArticle \notin Articles

VARIABLES
    looking,  \* where each lookup is
    article,  \* of which title and edition
    read,     \* the sources it has had an answer from
    cut,      \* its request's context has ended
    placed,   \* editwar:coords:{title}: "absent", "nowhere", or a place
    heldFor,  \* and for how many ticks
    source,   \* history: the article whose lookup has cached it
    sinceFail \* history: ticks since a call about the article failed

geoVars == <<looking, article, read, cut, placed, heldFor, source, sinceFail>>

Long == CacheLife + 1   \* longer ago than anything is cached

GeoInit ==
    /\ looking = [l \in Lookups |-> "idle"]
    /\ article = [l \in Lookups |-> NoArticle]
    /\ read = [l \in Lookups |-> {}]
    /\ cut = [l \in Lookups |-> FALSE]
    /\ placed = [p \in Pages |-> "absent"]
    /\ heldFor = [p \in Pages |-> 0]
    /\ source = [p \in Pages |-> NoArticle]
    /\ sinceFail = [a \in Articles |-> Long]

-----------------------------------------------------------------------------

\* The key of the cache.
Title(l) == article[l][1]

LookingGoes(l, next) == looking' = [looking EXCEPT ![l] = next]

LookupEnds(l) ==
    /\ LookingGoes(l, "idle")
    /\ article' = [article EXCEPT ![l] = NoArticle]
    /\ read' = [read EXCEPT ![l] = {}]
    /\ cut' = [cut EXCEPT ![l] = FALSE]

\* A call fails, or its context has ended.
CallLost(l) ==
    /\ IF cut[l] THEN Works ELSE Fails
    /\ sinceFail' = [sinceFail EXCEPT ![article[l]] = 0]

CallDone(l) == ~ cut[l] /\ Works /\ UNCHANGED sinceFail

Tells(l, sources) == Telling[article[l]] \cap sources # {}

LookupStarts(l, a) ==
    /\ looking[l] = "idle"
    /\ LookingGoes(l, "cache")
    /\ article' = [article EXCEPT ![l] = a]
    /\ UNCHANGED <<read, cut, placed, heldFor, source, sinceFail, faults>>

\* The client of the request leaves, or 20 s have passed.
LookupCut(l) ==
    /\ looking[l] # "idle"
    /\ ~ cut[l]
    /\ cut' = [cut EXCEPT ![l] = TRUE]
    /\ UNCHANGED <<looking, article, read, placed, heldFor, source, sinceFail, faults>>

\* A result found, the lack of a place included, ends the lookup, whichever
\* edition it is about.
CacheAsked(l) ==
    /\ looking[l] = "cache"
    /\ \/ /\ CallDone(l)
          /\ IF placed[Title(l)] # "absent" THEN LookupEnds(l)
             ELSE LookingGoes(l, "article") /\ UNCHANGED <<article, read, cut>>
       \/ CallLost(l) /\ LookingGoes(l, "article") /\ UNCHANGED <<article, read, cut>>
    /\ UNCHANGED <<placed, heldFor, source>>

\* What comes after Wikidata has given no place: names in the texts, and the
\* English article if there is one and it is another.
AfterClaims(l, known) ==
    IF Tells(l, known \cap {"title", "extract", "description"}) THEN "place"
    ELSE IF "description" \in known /\ article[l] \in Foreign THEN "english"
    ELSE "nowhere"

\* One call for the coordinates, the item and the extract; without its answer
\* only the title is left.
ArticleAsked(l) ==
    /\ looking[l] = "article"
    /\ \/ /\ CallDone(l)
          /\ read' = [read EXCEPT ![l] = {"title", "extract"}]
          /\ LookingGoes(l, IF Tells(l, {"article"}) THEN "place"
                            ELSE IF article[l] \in Linked THEN "wikidata"
                            ELSE AfterClaims(l, read'[l]))
       \/ /\ CallLost(l)
          /\ read' = [read EXCEPT ![l] = {"title"}]
          /\ LookingGoes(l, AfterClaims(l, read'[l]))
    /\ UNCHANGED <<article, cut, placed, heldFor, source>>

\* Mutant: without a place in its claims the item is of no use.
ClaimsOrNowhere(l) ==
    /\ read' = [read EXCEPT ![l] = @ \cup {"description"}]
    /\ LookingGoes(l, IF Tells(l, {"wikidata"}) THEN "place" ELSE AfterClaims(l, read[l]))

\* wikidataLocationLookup: claims; else the description, and the English title.
ClaimsRead(l) ==
    /\ read' = [read EXCEPT ![l] = @ \cup {"description"}]
    /\ LookingGoes(l, IF Tells(l, {"wikidata"}) THEN "place" ELSE AfterClaims(l, read'[l]))

WikidataAsked(l) ==
    /\ looking[l] = "wikidata"
    /\ \/ CallDone(l) /\ ClaimsRead(l)
       \/ CallLost(l) /\ LookingGoes(l, AfterClaims(l, read[l])) /\ UNCHANGED read
    /\ UNCHANGED <<article, cut, placed, heldFor, source>>

\* fetchEnWikiExtractAndNER.
EnglishAsked(l) ==
    /\ looking[l] = "english"
    /\ \/ CallDone(l) /\ LookingGoes(l, IF Tells(l, {"english"}) THEN "place" ELSE "nowhere")
       \/ CallLost(l) /\ LookingGoes(l, "nowhere")
    /\ UNCHANGED <<article, read, cut, placed, heldFor, source>>

\* cacheCoords and cacheNegativeCoords, their errors ignored.
ResultCached(l) ==
    /\ looking[l] \in {"place", "nowhere"}
    /\ \/ /\ CallDone(l)
          /\ placed' = [placed EXCEPT ![Title(l)] = looking[l]]
          /\ heldFor' = [heldFor EXCEPT ![Title(l)] = 0]
          /\ source' = [source EXCEPT ![Title(l)] = article[l]]
       \/ CallLost(l) /\ UNCHANGED <<placed, heldFor, source>>
    /\ LookupEnds(l)

\* Time passes, more than a lookup takes; the oldest results expire.
MapTicks ==
    /\ \A l \in Lookups : looking[l] = "idle"
    /\ placed' = [p \in Pages |-> IF heldFor[p] + 1 >= CacheLife THEN "absent" ELSE placed[p]]
    /\ heldFor' = [p \in Pages |-> IF placed'[p] = "absent" THEN 0 ELSE heldFor[p] + 1]
    /\ source' = [p \in Pages |-> IF placed'[p] = "absent" THEN NoArticle ELSE source[p]]
    /\ sinceFail' = [a \in Articles |-> IF sinceFail[a] = Long THEN Long ELSE sinceFail[a] + 1]
    /\ UNCHANGED <<looking, article, read, cut, faults>>

GeoNext ==
    \/ \E l \in Lookups :
          \/ \E a \in Articles : LookupStarts(l, a)
          \/ LookupCut(l) \/ CacheAsked(l) \/ ArticleAsked(l) \/ WikidataAsked(l)
          \/ EnglishAsked(l) \/ ResultCached(l)
    \/ MapTicks

GeoSpec ==
    /\ GeoInit /\ faults = MaxFaults
    /\ [][GeoNext]_<<geoVars, faults>>

-----------------------------------------------------------------------------

GeoTypeOK ==
    /\ looking \in [Lookups -> {"idle", "cache", "article", "wikidata", "english", "place", "nowhere"}]
    /\ article \in [Lookups -> Articles \cup {NoArticle}]
    /\ read \in [Lookups -> SUBSET {"title", "extract", "description"}]
    /\ cut \in [Lookups -> BOOLEAN]
    /\ placed \in [Pages -> {"absent", "nowhere", "place"}]
    /\ heldFor \in [Pages -> 0..CacheLife]
    /\ source \in [Pages -> Articles \cup {NoArticle}]
    /\ sinceFail \in [Articles -> 0..Long]

\* The sources a lookup without failures gets to ask.
Asked(a) ==
    {"article", "title", "extract"} \cup (IF a \in Linked THEN {"wikidata", "description"} ELSE {})
                                    \cup (IF a \in Foreign THEN {"english"} ELSE {})

\* A title is without a place of its own, and put at its language's centre, only
\* after a lookup of it, in an edition no source of which tells its place, or
\* with a call that failed no longer ago than a result is cached: the chain of
\* sources loses no place, however lookups overlap, and no failure nor another
\* edition's answer outlasts a day.
LocationRecovers ==
    \A p \in Pages : placed[p] = "nowhere" =>
       /\ source[p] \in Articles /\ source[p][1] = p
       /\ \/ Telling[source[p]] \cap Asked(source[p]) = {}
          \/ sinceFail[source[p]] <= CacheLife

=============================================================================
