------------------------ MODULE MCWebhookAdmission -------------------------
(***************************************************************************)
(* Instances of WebhookAdmission for TLC.  A minute and the dedup window   *)
(* are two seconds, the cooldown window one, so that each of them ends     *)
(* within the bound on the clock.                                          *)
(***************************************************************************)
EXTENDS WebhookAdmission, TLC

Deliver(d, c, f) ==
    [source |-> "github", dedup_key |-> d, cooldown_key |-> c, flaw |-> f]

\* Two events of one entity, one of none that is refused after its key is
\* entered, and one for every way a request is refused without a key.
MCEvents ==
    {Deliver("d1", "c1", "none"), Deliver("d2", "c1", "none"),
     Deliver("d1", NoKey, "payload"), Deliver("d1", NoKey, "request"),
     Deliver("d1", NoKey, "source")}

\* Deliveries of one source that differ in nothing.
MCPlain == {Deliver("d1", NoKey, "none")}

\* Requests are interchangeable: no definition names one.
MCSymmetry == Permutations(Requests)

============================================================================
