----------------------------- MODULE Estimation -----------------------------
(***************************************************************************)
(* What one call of an ere-server comes back as (ereserver/client.go): the *)
(* answer of an estimation, that of a profile, and the cost that a profile *)
(* sums.                                                                   *)
(*                                                                         *)
(* An answer is [reached, decodes, result], result one of                  *)
(*   [form |-> "ok", cost]  [form |-> "pprof", pprof]  [form |-> "err"]    *)
(*   [form |-> "unset"]                                                    *)
(* A pprof profile is [parses, types, samples]: types a sequence of        *)
(* [cost, name], samples a sequence of value vectors, one value per type.  *)
(***************************************************************************)
EXTENDS Integers, Sequences, SequencesExt

CONSTANT Modulus   \* the width of a cost, 2^64 in the code

ASSUME EstimationAssumption == Modulus \in Nat \ {0}

NoCost == [c \in {} |-> 0]
Fails == [outcome |-> "error", cost |-> NoCost]
GuestFails == [outcome |-> "guestError", cost |-> NoCost]
Costs(cost) == [outcome |-> "cost", cost |-> cost]

(* post: a call that is not answered, not with a success, or not legibly.  *)
PostFails(answer) == ~answer.reached \/ ~answer.decodes

(* An estimation without a cost kind has nothing to record.                *)
ExecuteEstimatedCost(answer) ==
    IF PostFails(answer) THEN Fails
    ELSE CASE answer.result.form = "ok" /\ answer.result.cost # NoCost -> Costs(answer.result.cost)
           [] answer.result.form = "err" -> GuestFails
           [] OTHER -> Fails

(* A sample type named cost.<component> counts for the component, the last *)
(* of a name deciding.                                                     *)
CostIndex(types, component) ==
    CHOOSE i \in DOMAIN types :
        /\ types[i] = [cost |-> TRUE, name |-> component]
        /\ \A j \in DOMAIN types : types[j] = types[i] => j <= i

(* A negative value wraps.                                                 *)
AddSample(sum, sample, index) == (sum + sample[index]) % Modulus

SampleSum(samples, index) == FoldLeft(LAMBDA sum, sample : AddSample(sum, sample, index), 0, samples)

Components(types) == {types[i].name : i \in {j \in DOMAIN types : types[j].cost}}

ProfileCost(pprof) ==
    [c \in Components(pprof.types) |-> SampleSum(pprof.samples, CostIndex(pprof.types, c))]

Profile(answer) ==
    IF PostFails(answer) THEN Fails
    ELSE CASE answer.result.form = "pprof" ->
                IF ~answer.result.pprof.parses \/ ProfileCost(answer.result.pprof) = NoCost THEN Fails
                ELSE Costs(ProfileCost(answer.result.pprof))
           [] answer.result.form = "err" -> GuestFails
           [] OTHER -> Fails

----------------------------------------------------------------------------
(* EstimationFaithful: a profile is worth the estimation whose cost it     *)
(* breaks down, however the server orders its samples and sample types and *)
(* whatever else it samples, so the estimate that mirrors a profile holds  *)
(* the numbers that an estimation would have; and a test is recorded as    *)
(* failed only when the guest itself failed, never for a call that did     *)
(* (ereserver/client.go:91, :115, :144, estimate/estimate.go:107).         *)
EstimationFaithful(answer, total) ==
    LET estimated == [answer EXCEPT !.result = IF @.form = "pprof" THEN [form |-> "ok", cost |-> total] ELSE @]
    IN  /\ answer.result.form = "pprof" /\ answer.result.pprof.parses =>
              Profile(answer) = ExecuteEstimatedCost(estimated)
        /\ Profile(answer).outcome = "guestError" <=>
              answer.reached /\ answer.decodes /\ answer.result.form = "err"
        /\ Profile(answer).outcome = "cost" => Profile(answer).cost = total /\ total # NoCost
=============================================================================
