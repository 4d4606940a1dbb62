-------------------------- MODULE SupplierEvidence --------------------------
(***************************************************************************)
(* How one supplier job reads its evidence (tools/supplier-information):   *)
(* the search providers and their fallback, the attempts to read each page,*)
(* the snapshot that is written and parsed again, the cutting of the pages *)
(* into prompts, the attempts to get a whole answer of the model, and what *)
(* is kept of the answers.  A job collects relations (baidu_search.py,     *)
(* llm_supplier_analysis.py) or verifies targets (supplier_verify.py);     *)
(* both read pages and ask the model through the same functions, and       *)
(* SupplierRun says what is then stored.  A text is the sequence of its    *)
(* lines' lengths.                                                         *)
(***************************************************************************)
EXTENDS Integers, FiniteSets, Sequences, SequencesExt, FiniteSetsExt

CONSTANTS WebPages, SeedUrls,         \* pages; those the configuration names as sources
          Claimants,             \* relations to verify
          NoUrl, Elsewhere,  \* no URL; what follows an address mark and is no URL
          Bodies,              \* the texts a page may have
          HalfWindow, Heading, \* lengths: half a request, the heading of a part
          Queries, MaxResults, \* queries of a collection; pages it reads at most (0: all)
          FetchRetries, LlmRetries, FetchLimit,
          MaxClaims            \* bound: claims of the model for one set of texts

ASSUME EvidenceAssumption ==
    /\ IsFiniteSet(WebPages) /\ SeedUrls \subseteq WebPages
    /\ {NoUrl, Elsewhere} \cap WebPages = {}    \* an address line of a page names no page
    /\ \A body \in Bodies : body \in Seq(Nat) /\ body # <<>>
    /\ {HalfWindow, FetchRetries, LlmRetries, Queries, FetchLimit} \subseteq Nat \ {0}
    /\ MaxResults \in Nat
    /\ Heading \in 0 .. HalfWindow              \* 1000 of 11000 as configured

VARIABLES purpose,    \* what the job does: "collect" or "verify"
          mode, keys, \* the provider asked for; the providers with a key
          at,         \* the stage
          asked,      \* queries answered
          refs,       \* references found and not yet read
          tries,      \* attempts made for the current page or request
          items,      \* the snapshot: texts with the URL they are filed under
          prompts,   \* prompts to the model: sequences of parts
          replies,    \* answers taken: how many, and whether all are whole
          claims,     \* what they say
          keptRelations,       \* relations whose quotation was found
          confirmed,  \* those that entered the confirmed document
          reported,   \* those in the history of all relations
          verdicts    \* target -> outcome of its verification

evidenceVars == <<purpose, mode, keys, at, asked, refs, tries, items, prompts,
                  replies, claims, keptRelations, confirmed, reported, verdicts>>

Providers == {"brave", "baidu"}
Decided == {"confirm", "deny"}
Unverified == "pending"
NoReplies == [count |-> 0, whole |-> TRUE]

EvidenceInit ==
    /\ purpose \in {"collect", "verify"}
    /\ mode \in Providers \cup {"auto"}
    /\ keys \in SUBSET Providers
    /\ at = "search" /\ asked = 0 /\ tries = 0
    /\ refs = <<>> /\ items = <<>> /\ prompts = <<>>
    /\ replies = NoReplies /\ claims = {}
    /\ keptRelations = {} /\ confirmed = {} /\ reported = {}
    /\ verdicts = [t \in Claimants |-> Unverified]

(* main() of supplier_verify takes the targets one after another. *)
CurrentTarget == CHOOSE t \in Claimants : verdicts[t] = Unverified

(* The verification of the target is over, whatever came of it. *)
TargetEnds(outcome) ==
    /\ verdicts' = [verdicts EXCEPT ![CurrentTarget] = outcome]
    /\ at' = IF \E t \in Claimants \ {CurrentTarget} : verdicts[t] = Unverified
             THEN "search" ELSE "end"
    /\ asked' = 0 /\ tries' = 0
    /\ refs' = <<>> /\ items' = <<>> /\ prompts' = <<>>
    /\ replies' = NoReplies /\ claims' = {}
    /\ UNCHANGED <<purpose, mode, keys, confirmed, reported>>

(* An exception ends a collection, and only its own target's verification. *)
Fails ==
    /\ UNCHANGED keptRelations
    /\ \/ /\ purpose = "collect"
          /\ at' = "failed"
          /\ UNCHANGED <<purpose, mode, keys, asked, refs, tries, items, prompts,
                         replies, claims, confirmed, reported, verdicts>>
       \/ purpose = "verify" /\ TargetEnds("failed")

(***************************************************************************)
(* Searching.                                                              *)
(***************************************************************************)
(* search(): auto prefers Brave when it has a key. *)
FirstProvider ==
    IF mode # "auto" THEN mode ELSE IF "brave" \in keys THEN "brave" ELSE "baidu"

(* A provider answers, refuses the key or the rate, or fails; Brave raises *)
(* without a key, Baidu is asked only with one.                            *)
BraveReplies == IF "brave" \in keys THEN {"answer", "refused", "error"} ELSE {"error"}
BaiduReplies == IF "baidu" \in keys THEN {"answer", "error"} ELSE {"error"}

(* with_retry() repeats lost connections only, and fails after the last. *)
RepliesOf(p) == IF p = "brave" THEN BraveReplies ELSE BaiduReplies

(* The provider a query may be answered by: auto goes on with Baidu when   *)
(* Brave refuses.                                                          *)
AnsweredBy(p) ==
    \/ p = FirstProvider /\ "answer" \in RepliesOf(p)
    \/ /\ mode = "auto" /\ FirstProvider = "brave" /\ p = "baidu"
       /\ "answer" \in BaiduReplies
       /\ "refused" \in RepliesOf("brave")

(* The first reference to each URL. *)
Distinct(s) ==
    FoldLeft(LAMBDA seen, r : IF \E k \in DOMAIN seen : seen[k].url = r.url
                              THEN seen ELSE Append(seen, r), <<>>, s)

FirstOnes(s, n) == IF n = 0 THEN s ELSE SubSeq(s, 1, Min({n, Len(s)}))

Listed(urls, source) ==
    LET list == SetToSeq(urls) IN
    [i \in DOMAIN list |-> [url |-> list[i], source |-> source]]

(* Configured sources come before what was found; a verification reads the *)
(* original sources of its relation first.                                 *)
ToRead(found) ==
    IF purpose = "collect"
    THEN FirstOnes(Distinct(Listed(SeedUrls, "seed") \o found), MaxResults)
    ELSE FirstOnes(Distinct(found), FetchLimit)

(* collect_references() fails with any of its queries. *)
Query ==
    /\ at = "search"
    /\ \/ \E p \in Providers, urls \in SUBSET WebPages, sources \in SUBSET WebPages :
              LET last == IF purpose = "collect" THEN asked + 1 = Queries ELSE TRUE
                  before == IF purpose = "collect" THEN refs ELSE Listed(sources, "seed")
                  all == before \o Listed(urls, p)
              IN  /\ AnsweredBy(p)
                  /\ purpose = "collect" => sources = {}
                  /\ asked' = asked + 1
                  /\ refs' = IF last THEN ToRead(all) ELSE all
                  /\ at' = IF last THEN "read" ELSE "search"
          /\ UNCHANGED <<purpose, mode, keys, tries, items, prompts, replies, claims,
                         keptRelations, confirmed, reported, verdicts>>
       \/ Fails

(***************************************************************************)
(* Reading pages.                                                          *)
(***************************************************************************)
(* What the extractors make of a page: the two for Baidu's landing pages,  *)
(* the document parser and the browser.                                    *)
LandingText == {"text", "none"}
LandingImages == {"text", "none"}
ReadDocument == {"text", "challenge", "error page", "error"}
Browser == {"text", "challenge", "error page", "none"}

(* is_usable_fulltext() refuses error pages, and takes the page of a bot   *)
(* challenge for a text.                                                   *)
UsableText(kind) == kind \in {"text", "challenge"}

(* The snapshot's section of a page, as parse_fulltext() reads it again: a *)
(* line of the page that starts like the snapshot's address line replaces  *)
(* the URL, one that starts like its headings begins a section without one.*)
Parsed(url, body, shape) ==
    LET text(u, s) == IF s = <<>> THEN <<>>
                      ELSE <<[url |-> u, page |-> url, lines |-> s]>>
    IN  CASE shape = "plain" -> text(url, body)
          [] shape = "address" -> text(Elsewhere, body)
          [] shape = "heading" -> text(url, <<Head(body)>>) \o text(NoUrl, Tail(body))

(* A verification keeps its documents in memory, under their URL. *)
Filed(url, body, shape) ==
    IF purpose = "collect" THEN Parsed(url, body, shape)
    ELSE <<[url |-> url, page |-> url, lines |-> body]>>

(* The page is read: its text is written to the snapshot. *)
PageRead ==
    /\ \E body \in Bodies, shape \in {"plain", "address", "heading"} :
           items' = items \o Filed(Head(refs).url, body, shape)
    /\ refs' = Tail(refs) /\ tries' = 0

(* The page is noted as failed. *)
PageFailed == refs' = Tail(refs) /\ tries' = 0 /\ UNCHANGED items

(* fetch_fulltext(): an attempt takes the first usable text; a page that is*)
(* gone is given up at once.                                               *)
OpenPage ==
    /\ at = "read" /\ refs # <<>> /\ tries < FetchRetries
    /\ \E text \in LandingText, image \in LandingImages, document \in ReadDocument :
           \/ (\E kind \in {text, image, document} : UsableText(kind)) /\ PageRead
           \/ /\ \A kind \in {text, image, document} : ~UsableText(kind)
              /\ \/ tries' = tries + 1 /\ UNCHANGED <<refs, items>>
                 \/ document = "error" /\ PageFailed
    /\ UNCHANGED <<purpose, mode, keys, at, asked, prompts, replies, claims, keptRelations,
                   confirmed, reported, verdicts>>

(* fetch_fulltext_via_browser(), after the last attempt. *)
BrowsePage ==
    /\ at = "read" /\ refs # <<>> /\ tries = FetchRetries
    /\ \E kind \in Browser : IF UsableText(kind) THEN PageRead ELSE PageFailed
    /\ UNCHANGED <<purpose, mode, keys, at, asked, prompts, replies, claims, keptRelations,
                   confirmed, reported, verdicts>>

(***************************************************************************)
(* Asking the model.                                                       *)
(***************************************************************************)
(* A line is cut into pieces of at most half a request. *)
Pieces(line) ==
    LET full == line \div HalfWindow  rest == line % HalfWindow IN
    [i \in 1..full |-> HalfWindow] \o (IF rest = 0 THEN <<>> ELSE <<rest>>)

(* Pieces are joined to parts of at most half a request. *)
Parts(body) ==
    FoldLeft(LAMBDA parts, piece :
                 IF parts # <<>> /\ Last(parts) + piece <= HalfWindow
                 THEN Append(Front(parts), Last(parts) + piece)
                 ELSE Append(parts, piece),
             <<>>, FoldLeft(LAMBDA s, line : s \o Pieces(line), <<>>, body))

Weight(request) == FoldLeft(LAMBDA n, part : n + part.size + Heading, 0, request)

(* split_documents(): a part joins the last request while it fits. *)
Joined(s, part) ==
    IF s # <<>> /\ Weight(Last(s)) + part.size + Heading <= 2 * HalfWindow
    THEN Append(Front(s), Append(Last(s), part))
    ELSE Append(s, <<part>>)

Split(texts) ==
    FoldLeft(LAMBDA s, i :
                 LET parts == Parts(texts[i].lines) IN
                 FoldLeft(Joined, s, [k \in DOMAIN parts |-> [item |-> i, size |-> parts[k]]]),
             <<>>, [i \in DOMAIN texts |-> i])

(* llm_supplier_analysis.main() needs a text; a verification without one   *)
(* fails and sends all its texts, shortened, in one request.               *)
Prepare ==
    /\ at = "read" /\ refs = <<>>
    /\ \/ /\ items # <<>>
          /\ prompts' = IF purpose = "collect" THEN Split(items)
                         ELSE <<[i \in DOMAIN items |-> [item |-> i, size |-> HalfWindow]]>>
          /\ at' = "ask"
          /\ UNCHANGED <<purpose, mode, keys, asked, refs, tries, items, replies, claims,
                         keptRelations, confirmed, reported, verdicts>>
       \/ items = <<>> /\ Fails

(* A claim of the model: the URL it cites, the text it quotes (0 when the  *)
(* quotation is in none), and whether it calls the relation explicit.      *)
Claims == [url : WebPages \cup {NoUrl}, quotes : 0..Len(items), firm : BOOLEAN]

(* Mutant: a truncated answer is taken. *)
AcceptsCut(kind) == kind \in {"whole", "cut"}

(* chat_completion() rejects an empty and a truncated answer. *)
Accepts(kind) == kind = "whole"

AskModel ==
    /\ at = "ask" /\ replies.count < Len(prompts)
    /\ \E kind \in {"whole", "cut", "error"} :
           \/ /\ Accepts(kind)
              /\ \/ UNCHANGED claims
                 \/ \E c \in Claims : claims' = claims \cup {c}
              /\ Cardinality(claims') <= MaxClaims
              /\ replies' = [count |-> replies.count + 1,
                              whole |-> replies.whole /\ kind = "whole"]
              /\ tries' = 0
              /\ UNCHANGED <<purpose, mode, keys, at, asked, refs, items, prompts, keptRelations,
                             confirmed, reported, verdicts>>
           \/ /\ ~Accepts(kind) /\ tries + 1 < LlmRetries
              /\ tries' = tries + 1
              /\ UNCHANGED <<purpose, mode, keys, at, asked, refs, items, prompts,
                             replies, claims, keptRelations, confirmed, reported, verdicts>>
           \/ ~Accepts(kind) /\ tries + 1 >= LlmRetries /\ Fails

(***************************************************************************)
(* What is kept.                                                           *)
(***************************************************************************)
(* grounded_relations(): of the texts filed under the cited URL the last   *)
(* one is searched for the quotation.                                      *)
Grounded(c) ==
    LET filed == {i \in DOMAIN items : items[i].url = c.url} IN
    filed # {} /\ c.quotes = Max(filed)

Evidence(c) == [url |-> c.url, page |-> items[c.quotes].page]

(* update_relation_index(): the history of all relations and its report;   *)
(* an error is only logged.                                                *)
Report == \/ reported' = reported \cup keptRelations'
          \/ UNCHANGED reported

(* persist_summary(): the grounded relations are keptRelations, and the explicit    *)
(* ones among them enter the document, although the report may fail.       *)
Persist ==
    /\ at = "ask" /\ purpose = "collect" /\ replies.count = Len(prompts)
    /\ keptRelations' = {Evidence(c) : c \in {x \in claims : Grounded(x)}}
    /\ confirmed' = {Evidence(c) : c \in {x \in claims : Grounded(x) /\ x.firm}}
    /\ Report
    /\ at' = "end"
    /\ UNCHANGED <<purpose, mode, keys, asked, refs, tries, items, prompts, replies,
                   claims, verdicts>>

(* verify_supplier(): a decision needs its quotation; without one, or with *)
(* an unknown verdict, the verification of this target failed.             *)
JudgeTarget ==
    /\ at = "ask" /\ purpose = "verify" /\ replies.count = Len(prompts)
    /\ \/ \E c \in claims, verdict \in Decided :
              /\ Grounded(c)
              /\ keptRelations' = keptRelations \cup {Evidence(c)}
              /\ TargetEnds(verdict)
       \/ UNCHANGED keptRelations /\ TargetEnds("open")
       \/ Fails

EvidenceNext ==
    Query \/ OpenPage \/ BrowsePage \/ Prepare \/ AskModel \/ Persist \/ JudgeTarget

EvidenceSpec == EvidenceInit /\ [][EvidenceNext]_evidenceVars

(***************************************************************************)
(* Properties.                                                             *)
(***************************************************************************)
(* The type invariant. *)
EvidenceTypeOK ==
    /\ at \in {"search", "read", "ask", "end", "failed"}
    /\ tries \in 0..Max({FetchRetries, LlmRetries})
    /\ keptRelations \subseteq [url : WebPages \cup {NoUrl}, page : WebPages]
    /\ confirmed \subseteq keptRelations /\ reported \subseteq keptRelations
    /\ verdicts \in [Claimants -> Decided \cup {Unverified, "open", "failed"}]

(* A collection succeeds, and its pages are then never read again, only    *)
(* when the model answered every part of every text in full, whatever      *)
(* attempts failed; no part is lost by the cutting and no request is longer*)
(* than the model's window.                                                *)
EveryPartIsAnswered ==
    at = "end" /\ purpose = "collect" =>
        /\ replies.count = Len(prompts)
        /\ replies.whole
        /\ \A i \in DOMAIN prompts : Weight(prompts[i]) <= 2 * HalfWindow
        /\ \A i \in DOMAIN items :
               FoldLeft(+, 0, items[i].lines) =
                   FoldLeft(LAMBDA n, part : IF part.item = i THEN n + part.size ELSE n,
                            0, FlattenSeq(prompts))

(* Evidence that cites a URL quotes the page of this URL: a page whose text*)
(* looks like the snapshot's own address or heading lines may lose its URL *)
(* but never lends its text to another page.                               *)
QuoteIsFromItsPage == \A e \in keptRelations : e.url # NoUrl => e.page = e.url

(* An explicit provider is never replaced by the other one. *)
ProviderIsHonoured ==
    \A i \in DOMAIN refs :
        /\ refs[i].source \in Providers => refs[i].source \in keys
        /\ mode \in Providers => refs[i].source \in {mode, "seed"}

(* What a collection or a verification may claim: that it read every part, *)
(* that its quotations are on their pages, and from whom the pages came.   *)
EvidenceIsHonest ==
    EvidenceTypeOK /\ EveryPartIsAnswered /\ QuoteIsFromItsPage /\ ProviderIsHonoured
=============================================================================
