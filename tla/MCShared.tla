------------------------------- MODULE MCShared -------------------------------
(***************************************************************************)
(* Instance for TLC of what concurrent requests share on their way to a     *)
(* source: the rate limiter, the keys of their tokens and the cache.  None  *)
(* of the three reads another's state, so nothing is lost by letting each   *)
(* behaviour be about one of them.                                          *)
(***************************************************************************)
EXTENDS CacheManager, RateLimiter, KeySet, TLC

VARIABLE focus

cacheVars == vars
sharedVars == <<focus, cacheVars, limiterVars, keyVars>>

SInit == /\ Init /\ LimiterInit /\ KeyInit
         /\ focus \in {"cache", "limiter", "keys"}
         /\ focus # "keys" => published = Kids  \* plays no role there

OfCache(A) == focus = "cache" /\ A /\ UNCHANGED <<focus, limiterVars, keyVars>>
OfLimiter(A) == focus = "limiter" /\ A /\ UNCHANGED <<focus, cacheVars, keyVars>>
OfKeys(A) == focus = "keys" /\ A /\ UNCHANGED <<focus, cacheVars, limiterVars>>

\* Where it is the ages that matter no client leaves: a load that is cancelled
\* leaves in the cache what one that fails otherwise does.
Staying == \A p \in Requests : ~req'[p].gone

SNext == OfCache(Next /\ Staying) \/ OfLimiter(LimiterNext) \/ OfKeys(KeyNext)

SSpec == SInit /\ [][SNext]_sharedVars

\* The cache alone, whose clients may leave, under the fairness of FairSpec.
AnswersInit == SInit /\ focus = "cache"
AnswersNext == OfCache(Next)

AnswersSpec == /\ AnswersInit
               /\ [][AnswersNext]_sharedVars
               /\ \A p \in Requests : WF_sharedVars(OfCache(Proceed(p)))

Symmetry == Permutations(Requests) \cup Permutations(Verifiers)

=============================================================================
