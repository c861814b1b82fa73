--------------------------- MODULE MCRateLimiter ---------------------------
(***************************************************************************)
(* Small instances of RateLimiter: two endpoint types with windows and     *)
(* limits that differ, and the STRICT type with its own numbers.           *)
(***************************************************************************)
EXTENDS RateLimiter

CONSTANTS general, strict

SmallTtl == [k \in Keys |-> IF k = general THEN 3 ELSE 2]
SmallLimit == [k \in Keys |-> IF k = general THEN 2 ELSE 1]

(* rate-limit.config.ts:26-27, in milliseconds. *)
StrictTtl == [k \in Keys |-> 60]
StrictLimit == [k \in Keys |-> 10]
Minute == 60000

(* "Only 10 requests per minute for sensitive endpoints"                   *)
(* (rate-limit.config.ts:27), read as loosely as a fixed window of a       *)
(* minute would satisfy it: no minute grants more than twice ten.          *)
TenPerMinute ==
    \A k \in Keys : \A i \in DOMAIN granted[k] :
        i + 2 * Limit[k] \in DOMAIN granted[k]
            => granted[k][i + 2 * Limit[k]].at > granted[k][i].at + Minute
=============================================================================
