---------------------------- MODULE PolicyProofs ----------------------------
(***************************************************************************)
(* What happens to an intercepted connection follows the policy it started *)
(* under, for every configuration, every set of rules and every            *)
(* interleaving with reloads and refreshes; and the plans follow the       *)
(* consent table and the rules for every host. The filter lists that the   *)
(* rules come from stay active and never get older, for any number of      *)
(* sources, versions, redirects, refreshes and crashes.                    *)
(***************************************************************************)
EXTENDS Policy, FilterLists, NaturalsInduction, WellFoundedInduction, TLAPS

(* What a session plan is made of. *)
LEMMA PlanFacts ==
    ASSUME NEW c \in Conns
    PROVE  /\ Plan(c).enable_http1_set_cookie_filter \in BOOLEAN
           /\ Plan(c).tracker_match \in BOOLEAN
           /\ Plan(c).mode = cfg.mode
           /\ cfg.mode = "disabled" => ~Plan(c).tracker_match
BY Zenon DEF Plan, session_plan, cookie_rule, blocked, domain_in_set_or_parent

(* What a body plan is made of; a disabled policy plans no rewriting. *)
LEMMA RewriteFacts ==
    ASSUME NEW c \in Conns
    PROVE  /\ Rewrite(c).should_rewrite \in BOOLEAN
           /\ Rewrite(c).mode = cfg.mode
           /\ Rewrite(c).should_rewrite \/ Rewrite(c).referer_spoof \/ Rewrite(c).query_param_strip
                => cfg.mode # "disabled"
BY Zenon DEF Rewrite, body_plan, domain_in_set_or_parent

(* The plan depends on the active policy only. *)
LEMMA PlanStable ==
    ASSUME UNCHANGED <<cfg, rules>>, NEW c \in Conns
    PROVE  Plan(c)' = Plan(c)
BY Zenon DEF Plan

(* A step of one connection, which leaves the policy alone. *)
LEMMA ConnStep ==
    ASSUME ConnsInv, NEW c \in Conns, UNCHANGED <<cfg, rules>>,
           NEW r \in Connection, conn' = [conn EXCEPT ![c] = r],
           ConnInv(c)'
    PROVE  ConnsInv'
<1>1. conn' \in [Conns -> Connection]
  BY Zenon DEF ConnsInv
<1>2. ASSUME NEW d \in Conns, d # c PROVE ConnInv(d)'
  <2>1. conn'[d] = conn[d] /\ Plan(d)' = Plan(d)
    BY <1>2, PlanStable, Zenon DEF ConnsInv
  <2> QED BY <2>1, Zenon DEF ConnsInv, ConnInv
<1> QED BY <1>1, <1>2, Zenon DEF ConnsInv

(* A change of the policy unsettles every connection that has begun. *)
LEMMA PolicyStep ==
    ASSUME ConnsInv, Unsettle(cfg' = cfg /\ rules' = rules)
    PROVE  ConnsInv'
<1>1. CASE cfg' = cfg /\ rules' = rules
  <2>1. conn' = conn
    BY <1>1, Zenon DEF Unsettle
  <2>2. \A c \in Conns : Plan(c)' = Plan(c)
    BY <1>1, PlanStable, Zenon
  <2> QED BY <1>1, <2>1, <2>2, Zenon DEF ConnsInv, ConnInv
<1>2. CASE ~(cfg' = cfg /\ rules' = rules)
  <2>1. conn' = [c \in Conns |-> [conn[c] EXCEPT !.steady = conn[c].pc = "start"]]
    BY <1>2, Zenon DEF Unsettle
  <2>2. ASSUME NEW c \in Conns PROVE conn'[c] \in Connection /\ ConnInv(c)'
    <3>1. conn[c] \in Connection
      BY Zenon DEF ConnsInv
    <3>2. /\ conn'[c] \in Connection
          /\ conn'[c].pc = conn[c].pc
          /\ conn'[c].stripped = conn[c].stripped
          /\ conn'[c].untagged = conn[c].untagged
          /\ conn'[c].refused = conn[c].refused
          /\ conn'[c].rewritten = conn[c].rewritten
          /\ conn'[c].changed = conn[c].changed
          /\ conn'[c].steady <=> conn[c].pc = "start"
      BY <2>1, <3>1, Zenon DEF Connection
    <3> QED BY <3>2, Zenon DEF ConnsInv, ConnInv
  <2> QED BY <2>1, <2>2, Zenon DEF ConnsInv
<1> QED BY <1>1, <1>2, Zenon

(* Every step of an intercepted connection keeps what ConnInv says of it. *)
LEMMA ConnNext ==
    ASSUME ConnsInv, NEW c \in Conns,
           \/ InterceptPlan(c)
           \/ InterceptBodyPlan(c)
           \/ \E http1 \in BOOLEAN : Negotiate(c, http1)
           \/ \E websocket \in BOOLEAN : FirstRequest(c, websocket)
           \/ FirstRequestBody(c)
           \/ FirstResponse(c)
           \/ \E rewritable \in BOOLEAN : ResponseBody(c, rewritable)
           \/ Copy(c)
    PROVE  ConnsInv'
<1> DEFINE r == conn'[c]
<1>0. /\ conn[c] \in Connection
      /\ conn \in [Conns -> Connection]
      /\ ConnInv(c)
  BY Zenon DEF ConnsInv
<1>1. CASE InterceptPlan(c)
  <2>1. /\ r = [conn[c] EXCEPT !.pc = "planned",
                               !.force_http1 = Plan(c).enable_http1_set_cookie_filter]
        /\ conn' = [conn EXCEPT ![c] = r]
        /\ UNCHANGED <<cfg, rules>>
    BY <1>0, <1>1, Zenon DEF InterceptPlan
  <2>2. r \in Connection
    BY <2>1, <1>0, PlanFacts, Zenon DEF Connection
  <2>3. ConnInv(c)'
    BY <1>0, <1>1, <2>1, <2>2, PlanStable DEF InterceptPlan, ConnInv, Connection
  <2> QED BY <2>1, <2>2, <2>3, ConnStep, Zenon
<1>2. CASE InterceptBodyPlan(c)
  <2>1. /\ r = [conn[c] EXCEPT !.pc = "negotiate",
                               !.force_http1 = @ \/ Rewrite(c).manual,
                               !.should_rewrite = Rewrite(c).should_rewrite]
        /\ conn' = [conn EXCEPT ![c] = r]
        /\ UNCHANGED <<cfg, rules>>
    BY <1>0, <1>2, Zenon DEF InterceptBodyPlan
  <2>2. r \in Connection
    BY <2>1, <1>0, RewriteFacts, Zenon DEF Connection
  <2>3. ConnInv(c)'
    BY <1>0, <1>2, <2>1, <2>2, PlanStable DEF InterceptBodyPlan, ConnInv, Connection
  <2> QED BY <2>1, <2>2, <2>3, ConnStep, Zenon
<1>3. ASSUME NEW http1 \in BOOLEAN, Negotiate(c, http1) PROVE ConnsInv'
  <2> DEFINE relay == conn[c].force_http1 \/ (http1 /\ conn[c].should_rewrite)
  <2>1. /\ r = [conn[c] EXCEPT !.pc = IF relay THEN "request" ELSE "copy", !.relayed = relay]
        /\ conn' = [conn EXCEPT ![c] = r]
        /\ UNCHANGED <<cfg, rules>>
    BY <1>0, <1>3, Zenon DEF Negotiate
  <2>2. r \in Connection
    BY <2>1, <1>0, Zenon DEF Connection
  <2>a. /\ conn[c].pc = "negotiate"
        /\ relay => conn'[c].pc = "request"
        /\ ~relay => conn'[c].pc = "copy" /\ ~conn[c].force_http1
        /\ conn'[c].steady = conn[c].steady
        /\ conn'[c].stripped = conn[c].stripped
        /\ conn'[c].untagged = conn[c].untagged
        /\ conn'[c].refused = conn[c].refused
        /\ conn'[c].changed = conn[c].changed
        /\ conn'[c].rewritten = conn[c].rewritten
    BY <1>0, <1>3, <2>1, Zenon DEF Negotiate, Connection
  <2>b. cfg' = cfg /\ Plan(c)' = Plan(c)
    BY <2>1, PlanStable, Zenon
  <2> HIDE DEF relay
  <2>3. ConnInv(c)'
    BY <1>0, <2>2, <2>a, <2>b, Zenon DEF ConnInv
  <2> QED BY <2>1, <2>2, <2>3, ConnStep, Zenon
<1>4. ASSUME NEW websocket \in BOOLEAN, FirstRequest(c, websocket) PROVE ConnsInv'
  <2> DEFINE refuse == websocket /\ Plan(c).tracker_match /\ Plan(c).websocket_blocking_enabled
  <2>1. /\ r = [conn[c] EXCEPT !.pc = IF refuse THEN "done" ELSE "request_body",
                               !.refused = refuse,
                               !.changed = ~refuse /\ Plan(c).tracker_match]
        /\ conn' = [conn EXCEPT ![c] = r]
        /\ UNCHANGED <<cfg, rules>>
    BY <1>0, <1>4, Zenon DEF FirstRequest
  <2>2. r \in Connection
    BY <2>1, <1>0, PlanFacts, Zenon DEF Connection
  <2>a. /\ conn'[c].steady = conn[c].steady
        /\ conn'[c].stripped = conn[c].stripped /\ ~conn[c].stripped
        /\ conn'[c].untagged = conn[c].untagged /\ ~conn[c].untagged
        /\ conn'[c].rewritten = conn[c].rewritten /\ ~conn[c].rewritten
        /\ refuse => conn'[c].pc = "done" /\ conn'[c].refused
        /\ ~refuse => conn'[c].pc = "request_body" /\ ~conn'[c].refused
        /\ conn'[c].refused \/ conn'[c].changed => Plan(c).tracker_match
    BY <1>0, <1>4, <2>1, Zenon DEF FirstRequest, ConnInv, Connection
  <2>b. cfg' = cfg /\ (Plan(c).tracker_match => cfg.mode # "disabled")
    BY <2>1, PlanFacts, Zenon
  <2> HIDE DEF refuse
  <2>3. ConnInv(c)'
    BY <2>2, <2>a, <2>b, Zenon DEF ConnInv
  <2> QED BY <2>1, <2>2, <2>3, ConnStep, Zenon
<1>5. CASE FirstRequestBody(c)
  <2>1. /\ r = [conn[c] EXCEPT !.pc = "response",
                               !.changed = \/ @
                                           \/ Rewrite(c).referer_spoof
                                           \/ Rewrite(c).query_param_strip]
        /\ conn' = [conn EXCEPT ![c] = r]
        /\ UNCHANGED <<cfg, rules>>
    BY <1>0, <1>5, Zenon DEF FirstRequestBody
  <2>2. r \in Connection
    BY <2>1, <1>0, Zenon DEF Connection
  <2>3. ConnInv(c)'
    BY <1>0, <1>5, <2>1, <2>2, PlanStable, RewriteFacts
    DEF FirstRequestBody, ConnInv, Connection
  <2> QED BY <2>1, <2>2, <2>3, ConnStep, Zenon
<1>6. CASE FirstResponse(c)
  <2>1. /\ r = [conn[c] EXCEPT !.pc = "response_body",
                               !.stripped = /\ Plan(c).enable_http1_set_cookie_filter
                                            /\ Plan(c).mode = "enforce",
                               !.untagged = Plan(c).tracker_match]
        /\ conn' = [conn EXCEPT ![c] = r]
        /\ UNCHANGED <<cfg, rules>>
    BY <1>0, <1>6, Zenon DEF FirstResponse
  <2>2. r \in Connection
    BY <2>1, <1>0, PlanFacts, Zenon DEF Connection
  <2>a. /\ conn[c].pc = "response"
        /\ conn'[c].pc = "response_body"
        /\ conn'[c].steady = conn[c].steady
        /\ conn'[c].refused = conn[c].refused
        /\ conn'[c].rewritten = conn[c].rewritten
        /\ conn'[c].changed = conn[c].changed
        /\ conn'[c].untagged = Plan(c).tracker_match
        /\ conn'[c].stripped <=> Plan(c).enable_http1_set_cookie_filter /\ cfg.mode = "enforce"
    BY <1>0, <1>6, <2>1, PlanFacts, Zenon DEF FirstResponse, Connection
  <2>b. cfg' = cfg /\ Plan(c)' = Plan(c) /\ (Plan(c).tracker_match => cfg.mode # "disabled")
    BY <2>1, PlanStable, PlanFacts, Zenon
  <2>3. ConnInv(c)'
    BY <1>0, <2>2, <2>a, <2>b, Zenon DEF ConnInv
  <2> QED BY <2>1, <2>2, <2>3, ConnStep, Zenon
<1>7. ASSUME NEW rewritable \in BOOLEAN, ResponseBody(c, rewritable) PROVE ConnsInv'
  <2>1. /\ r = [conn[c] EXCEPT !.pc = "done",
                               !.rewritten = /\ rewritable
                                             /\ Rewrite(c).should_rewrite
                                             /\ Rewrite(c).mode # "report_only"]
        /\ conn' = [conn EXCEPT ![c] = r]
        /\ UNCHANGED <<cfg, rules>>
    BY <1>0, <1>7, Zenon DEF ResponseBody
  <2>2. r \in Connection
    BY <2>1, <1>0, Zenon DEF Connection
  <2>a. /\ conn[c].pc = "response_body"
        /\ conn'[c].pc = "done"
        /\ conn'[c].steady = conn[c].steady
        /\ conn'[c].stripped = conn[c].stripped
        /\ conn'[c].untagged = conn[c].untagged
        /\ conn'[c].refused = conn[c].refused
        /\ conn'[c].changed = conn[c].changed
        /\ conn'[c].rewritten => /\ Rewrite(c).should_rewrite
                                 /\ Rewrite(c).mode # "report_only"
    BY <1>0, <1>7, <2>1, Zenon DEF ResponseBody, Connection
  <2>b. conn'[c].rewritten => cfg.mode \notin {"disabled", "report_only"}
    BY <2>a, RewriteFacts, Zenon
  <2>c. cfg' = cfg /\ Plan(c)' = Plan(c)
    BY <2>1, PlanStable, Zenon
  <2>3. ConnInv(c)'
    BY <1>0, <2>2, <2>a, <2>b, <2>c, Zenon DEF ConnInv
  <2> QED BY <2>1, <2>2, <2>3, ConnStep, Zenon
<1>8. CASE Copy(c)
  <2>1. /\ r = [conn[c] EXCEPT !.pc = "done"]
        /\ conn' = [conn EXCEPT ![c] = r]
        /\ UNCHANGED <<cfg, rules>>
    BY <1>0, <1>8, Zenon DEF Copy
  <2>2. r \in Connection
    BY <2>1, <1>0, Zenon DEF Connection
  <2>3. ConnInv(c)'
    BY <1>0, <1>8, <2>1, <2>2, PlanStable, Zenon DEF Copy, ConnInv, Connection
  <2> QED BY <2>1, <2>2, <2>3, ConnStep, Zenon
<1> QED BY <1>1, <1>2, <1>3, <1>4, <1>5, <1>6, <1>7, <1>8, Zenon

(* Before anything happened every connection is new. *)
LEMMA ConnsInit ==
    Init => ConnsInv
BY DEF Init, ConnsInv, ConnInv, NewConnection, Connection

(* No step breaks what binds a connection to its policy. *)
LEMMA ConnsNext ==
    ConnsInv /\ [Next]_vars => ConnsInv'
<1> SUFFICES ASSUME ConnsInv, [Next]_vars PROVE ConnsInv'
  BY Zenon
<1>1. CASE \/ UNCHANGED vars
           \/ \E f \in Configs \cup {Broken} : EditFile(f)
           \/ ReloadTick
           \/ ReloadRead
  <2>1. UNCHANGED <<cfg, rules, conn>>
    BY <1>1, Zenon DEF vars, EditFile, ReloadTick, ReloadRead
  <2>2. Unsettle(cfg' = cfg /\ rules' = rules)
    BY <2>1, Zenon DEF Unsettle
  <2> QED BY <2>2, PolicyStep, Zenon
<1>2. CASE replace_from_file
  <2>1. Unsettle(cfg' = cfg /\ rules' = rules)
    BY <1>2, Zenon DEF replace_from_file, Unsettle
  <2> QED BY <2>1, PolicyStep, Zenon
<1>3. CASE \E fl \in RuleSets : replace_filter_list_rules(fl)
  <2>1. Unsettle(cfg' = cfg /\ rules' = rules)
    BY <1>3, Zenon DEF replace_filter_list_rules, Unsettle
  <2> QED BY <2>1, PolicyStep, Zenon
<1>4. CASE \E c \in Conns :
              \/ InterceptPlan(c)
              \/ InterceptBodyPlan(c)
              \/ \E http1 \in BOOLEAN : Negotiate(c, http1)
              \/ \E websocket \in BOOLEAN : FirstRequest(c, websocket)
              \/ FirstRequestBody(c)
              \/ FirstResponse(c)
              \/ \E rewritable \in BOOLEAN : ResponseBody(c, rewritable)
              \/ Copy(c)
  BY <1>4, ConnNext, Zenon
<1> QED BY <1>1, <1>2, <1>3, <1>4, Zenon DEF Next, ReloadTask

(* An intercepted connection during which neither a reload nor a refresh   *)
(* changes the policy loses its cookies exactly when its plan says so; it  *)
(* passes untouched in disabled mode, and in report_only mode its response *)
(* does, for every configuration that intercept_tls_tunnel may meet.       *)
THEOREM ConnectionsFollowPolicy ==
    Spec => []ConnectionsFollow
<1>1. ConnsInv => ConnectionsFollow
  BY Zenon DEF ConnsInv, ConnInv, ConnectionsFollow, CookiesFollowPolicy, DisabledIsInert,
         ReportOnlyKeepsResponse
<1> QED BY ConnsInit, ConnsNext, <1>1, PTL DEF Spec

-----------------------------------------------------------------------------
(* The plans *)

(* A parent of a host is what is left of it from some label on. *)
LEMMA ParentOf ==
    ASSUME NEW S, NEW h \in Seq(S), NEW i \in 1..Len(h), NEW d, d = SubSeq(h, i, Len(h))
    PROVE  /\ d \in Seq(S)
           /\ Len(d) = Len(h) - i + 1
           /\ \A k \in 1..Len(d) : d[k] = h[k + i - 1]
OBVIOUS

(* The walk over the parents of a host visits the parents of each of them. *)
LEMMA ParentsOfParents ==
    ASSUME NEW S, NEW h \in Seq(S), NEW p \in Parents(h)
    PROVE  Parents(p) \subseteq Parents(h)
<1> SUFFICES ASSUME NEW d \in Parents(p) PROVE d \in Parents(h)
  BY Zenon
<1>1. PICK i \in 1..Len(h) : p = SubSeq(h, i, Len(h))
  BY Zenon DEF Parents
<1>2. p \in Seq(S) /\ Len(p) = Len(h) - i + 1
  BY <1>1, ParentOf
<1>3. PICK j \in 1..Len(p) : d = SubSeq(p, j, Len(p))
  BY Zenon DEF Parents
<1>4. i + j - 1 \in 1..Len(h)
  BY <1>2
<1>5. SubSeq(p, j, Len(p)) = SubSeq(h, i + j - 1, Len(h))
  BY <1>1, <1>2, <1>4
<1> QED BY <1>3, <1>4, <1>5, Zenon DEF Parents

(* Parents of the same length are the same. *)
LEMMA ParentsByLength ==
    ASSUME NEW S, NEW h \in Seq(S), NEW d \in Parents(h), NEW e \in Parents(h)
    PROVE  /\ Len(d) \in Nat
           /\ Len(d) = Len(e) => d = e
<1>1. PICK i \in 1..Len(h) : d = SubSeq(h, i, Len(h))
  BY Zenon DEF Parents
<1>2. PICK j \in 1..Len(h) : e = SubSeq(h, j, Len(h))
  BY Zenon DEF Parents
<1>3. Len(d) = Len(h) - i + 1 /\ Len(e) = Len(h) - j + 1
  BY <1>1, <1>2, ParentOf
<1>4. Len(d) \in Nat /\ (Len(d) = Len(e) => i = j)
  BY <1>3
<1> QED BY <1>1, <1>2, <1>4, Zenon

(* A set of numbers has a least one. *)
LEMMA LeastNumber ==
    ASSUME NEW T \in SUBSET Nat, T # {}
    PROVE  \E n \in T : \A m \in T : n <= m
<1> DEFINE Less == {ss \in Nat \X Nat : ss[1] < ss[2]}
<1>1. IsWellFoundedOn(Less, Nat)
  BY NatLessThanWellFounded, Zenon DEF OpToRel
<1> HIDE DEF Less
<1>2. PICK n \in T : \A m \in T : ~ (<<m, n>> \in Less)
  BY <1>1, WFMin, Zenon
<1>3. ASSUME NEW m \in T PROVE ~(m < n)
  <2>1. m \in Nat /\ n \in Nat
    BY Zenon
  <2>2. m < n => <<m, n>> \in Less
    BY <2>1, Zenon DEF Less
  <2> QED BY <1>2, <2>2, Zenon
<1> QED BY <1>3

(* Of the parents that a map names, one is the longest. *)
LEMMA LongestParent ==
    ASSUME NEW S, NEW h \in Seq(S), NEW near \in SUBSET Parents(h), near # {}
    PROVE  \E d \in near : \A e \in near : Len(e) <= Len(d)
<1> DEFINE At == {i \in 1..Len(h) : SubSeq(h, i, Len(h)) \in near}
<1>1. At \in SUBSET Nat /\ At # {}
  <2>1. PICK d \in near : d \in Parents(h)
    BY Zenon
  <2>2. PICK i \in 1..Len(h) : d = SubSeq(h, i, Len(h))
    BY <2>1, Zenon DEF Parents
  <2> QED BY <2>1, <2>2
<1>2. PICK i \in At : \A j \in At : i <= j
  BY <1>1, LeastNumber, Zenon
<1>3. ASSUME NEW e \in near PROVE Len(e) <= Len(SubSeq(h, i, Len(h)))
  <2>1. PICK j \in 1..Len(h) : e = SubSeq(h, j, Len(h))
    BY Zenon DEF Parents
  <2>2. j \in At
    BY <2>1, Zenon
  <2>3. Len(e) = Len(h) - j + 1 /\ Len(SubSeq(h, i, Len(h))) = Len(h) - i + 1
    BY <2>1, ParentOf
  <2>4. i \in Int /\ j \in Int /\ Len(h) \in Int /\ i <= j
    BY <1>2, <2>2
  <2> QED BY <2>3, <2>4
<1> QED BY <1>2, <1>3, Zenon

(* The property's own reading of a parent is the walk's. *)
LEMMA CoversIsWalk ==
    ASSUME NEW S, NEW h \in Seq(S), NEW T
    PROVE  Covers(T, h) <=> domain_in_set_or_parent(h, T)
<1>1. Len(h) \in Nat
  OBVIOUS
<1>2. ASSUME NEW n \in 0..(Len(h) - 1) PROVE SubSeq(h, n + 1, Len(h)) \in Parents(h)
  <2>1. n + 1 \in 1..Len(h)
    BY <1>1
  <2> QED BY <2>1, Zenon DEF Parents
<1>3. ASSUME NEW d \in Parents(h) PROVE \E n \in 0..(Len(h) - 1) : SubSeq(h, n + 1, Len(h)) = d
  <2>1. PICK i \in 1..Len(h) : d = SubSeq(h, i, Len(h))
    BY Zenon DEF Parents
  <2>2. i - 1 \in 0..(Len(h) - 1) /\ (i - 1) + 1 = i
    BY <1>1
  <2> QED BY <2>1, <2>2, Zenon
<1> QED BY <1>2, <1>3, Zenon DEF Covers, domain_in_set_or_parent

(* The level that the plan looks up is the one that counts. *)
LEMMA LevelCounts ==
    ASSUME NEW S, NEW h \in Seq(S), NEW a, NEW ce, NEW level
    PROVE  Consents(ce, h, a, level) <=> consent_level(h, a, ce) = level
<1> DEFINE sites == DOMAIN ce.site_overrides
           near == {d \in Parents(h) : d \in sites}
           Nearest(d) == d \in near /\ \A e \in near : Len(e) <= Len(d)
<1>1. ASSUME NEW d PROVE Covers({d}, h) <=> d \in Parents(h)
  <2>1. Covers({d}, h) <=> domain_in_set_or_parent(h, {d})
    BY CoversIsWalk, Zenon
  <2> QED BY <2>1, Zenon DEF domain_in_set_or_parent
<1>2. Covers(sites, h) <=> near # {}
  BY CoversIsWalk, Zenon DEF domain_in_set_or_parent
<1>3. ASSUME NEW d, NEW e, Nearest(d), Nearest(e) PROVE d = e
  <2>1. d \in Parents(h) /\ e \in Parents(h) /\ Len(e) <= Len(d) /\ Len(d) <= Len(e)
    BY <1>3, Zenon
  <2>2. Len(d) \in Nat /\ Len(e) \in Nat
    BY <2>1, ParentsByLength, Zenon
  <2> QED BY <2>1, <2>2, ParentsByLength
<1>4. ASSUME near # {}
      PROVE  Nearest(CHOOSE d \in near : \A e \in near : Len(e) <= Len(d))
  <2>1. near \in SUBSET Parents(h)
    BY Zenon
  <2>2. \E d \in near : \A e \in near : Len(e) <= Len(d)
    BY <2>1, <1>4, LongestParent, Zenon
  <2> QED BY <2>2, Zenon
<1>5. (\E d \in sites : /\ Covers({d}, h)
                        /\ ce.site_overrides[d] = level
                        /\ \A e \in sites : Covers({e}, h) => Len(e) <= Len(d))
        <=> \E d : Nearest(d) /\ ce.site_overrides[d] = level
  BY <1>1, Zenon
<1> DEFINE top == CHOOSE d \in near : \A e \in near : Len(e) <= Len(d)
<1>6. override_level(h, ce) = IF near = {} THEN ce.default_consent ELSE ce.site_overrides[top]
  BY Zenon DEF override_level
<1>7. near # {} => Nearest(top)
  BY <1>4, Zenon
<1>8. near = {} => \A d : ~Nearest(d)
  BY Zenon
<1> HIDE DEF top, Nearest, near, sites
<1>9. (\/ \E d : Nearest(d) /\ ce.site_overrides[d] = level
       \/ near = {} /\ ce.default_consent = level) <=> override_level(h, ce) = level
  <2>1. CASE near = {}
    BY <2>1, <1>6, <1>8, Zenon
  <2>2. CASE near # {}
    <3>1. Nearest(top) /\ override_level(h, ce) = ce.site_overrides[top]
      BY <2>2, <1>6, <1>7, Zenon
    <3>2. \A d : Nearest(d) => d = top
      BY <3>1, <1>3, Zenon
    <3> QED BY <2>2, <3>1, <3>2, Zenon
  <2> QED BY <2>1, <2>2, Zenon
<1>10. Consents(ce, h, a, level) <=>
         \/ a \in DOMAIN ce.user_profiles /\ ce.user_profiles[a] = level
         \/ a \notin DOMAIN ce.user_profiles /\ override_level(h, ce) = level
  BY <1>2, <1>5, <1>9, Zenon DEF Consents, sites
<1> QED BY <1>10, Zenon DEF consent_level

(* Two sequences of labels make one. *)
LEMMA ConcatSeq ==
    ASSUME NEW S, NEW s \in Seq(S), NEW t \in Seq(S)
    PROVE  s \o t \in Seq(S)
OBVIOUS

(* Hosts are sequences of labels. *)
LEMMA HostsAreSequences ==
    ASSUME NEW h \in Hosts
    PROVE  h \in Seq(Labels \cup {"www"})
<1>1. \A d \in Domains : d \in Seq(Labels \cup {"www"})
  BY PolicyAssumption
<1>2. <<"www">> \in Seq(Labels \cup {"www"})
  OBVIOUS
<1>3. \A d \in Domains : <<"www">> \o d \in Seq(Labels \cup {"www"})
  BY <1>1, <1>2, ConcatSeq, Zenon
<1> QED BY <1>1, <1>3, Zenon DEF Hosts

(* The table of the consent rule, from the types alone. *)
LEMMA TableHolds ==
    ASSUME TypeOK PROVE ConsentTable
<1> SUFFICES ASSUME NEW h \in Hosts, NEW a \in IPs
             PROVE  LET ce == cfg.consent_enforcement
                        filters == session_plan(cfg, rules, h, a).enable_http1_set_cookie_filter
                    IN CASE cfg.mode = "disabled" -> ~filters
                         [] cfg.mode # "disabled" /\ ~ce.enabled -> filters = Tracker(h)
                         [] OTHER -> filters = IF Covers(ce.analytics_domains, h)
                                                 THEN Consents(ce, h, a, "essential_only")
                                                 ELSE Tracker(h) /\ ~Consents(ce, h, a, "all")
  BY Zenon DEF ConsentTable
<1> DEFINE ce == cfg.consent_enforcement
           f == session_plan(cfg, rules, h, a).enable_http1_set_cookie_filter
           level == consent_level(h, a, ce)
           adv == blocked(h, cfg.tracker_set_cookie.domains, cfg.tracker_set_cookie.enabled, rules)
           ana == domain_in_set_or_parent(h, ce.analytics_domains)
<1>1. h \in Seq(Labels \cup {"www"})
  BY HostsAreSequences, Zenon
<1>2. /\ f \in BOOLEAN
      /\ cfg.mode = "disabled" => ~f
      /\ cfg.mode # "disabled" /\ ~ce.enabled => (f <=> adv)
      /\ cfg.mode # "disabled" /\ ce.enabled /\ ana => (f <=> level = "essential_only")
      /\ cfg.mode # "disabled" /\ ce.enabled /\ ~ana => (f <=> adv /\ level # "all")
  BY Zenon DEF session_plan, cookie_rule, blocked, domain_in_set_or_parent
<1>3. \A T : Covers(T, h) <=> domain_in_set_or_parent(h, T)
  BY <1>1, CoversIsWalk, Zenon
<1>4. Tracker(h) <=> adv
  BY <1>3, Zenon DEF Tracker, blocked
<1>5. Covers(ce.analytics_domains, h) <=> ana
  BY <1>3, Zenon
<1>6. /\ Consents(ce, h, a, "essential_only") <=> level = "essential_only"
      /\ Consents(ce, h, a, "all") <=> level = "all"
  BY <1>1, LevelCounts, Zenon
<1>7. /\ Tracker(h) \in BOOLEAN
      /\ Consents(ce, h, a, "essential_only") \in BOOLEAN
      /\ Consents(ce, h, a, "all") \in BOOLEAN
  BY Zenon DEF Tracker, Consents
<1> HIDE DEF ce, f, level, adv, ana
<1>8. CASE cfg.mode = "disabled"
  BY <1>8, <1>2, Zenon DEF ce, f
<1>9. CASE cfg.mode # "disabled" /\ ~ce.enabled
  <2>1. f = Tracker(h)
    BY <1>9, <1>2, <1>4, <1>7, Zenon
  <2> QED BY <1>9, <2>1, Zenon DEF ce, f
<1>10. CASE cfg.mode # "disabled" /\ ce.enabled
  <2>1. f = IF Covers(ce.analytics_domains, h)
              THEN Consents(ce, h, a, "essential_only")
              ELSE Tracker(h) /\ ~Consents(ce, h, a, "all")
    BY <1>10, <1>2, <1>4, <1>5, <1>6, <1>7, Zenon
  <2> QED BY <1>10, <2>1, Zenon DEF ce, f
<1> QED BY <1>8, <1>9, <1>10, Zenon

(* The session plan looks at a set of rules through blocked alone. *)
LEMMA PlanMatches ==
    ASSUME NEW fl, NEW h, NEW a
    PROVE  session_plan(cfg, fl, h, a).tracker_match <=>
             \/ /\ cfg.mode # "disabled"
                /\ blocked(h, cfg.tracker_set_cookie.domains, cfg.tracker_set_cookie.enabled, fl)
             \/ /\ cfg.consent_enforcement.enabled /\ cfg.mode # "disabled"
                /\ domain_in_set_or_parent(h, cfg.consent_enforcement.analytics_domains)
BY Zenon DEF session_plan

(* What BlocksFollowRules says, from the types alone. *)
LEMMA BlocksHold ==
    ASSUME TypeOK PROVE BlocksFollowRules
<1>1. ExceptionsOnlyUnblockLists
  <2> SUFFICES ASSUME NEW h \in Hosts, NEW a \in IPs, NEW e \in Domains,
                      NEW more, more = [rules EXCEPT !.exception_domains = @ \cup {e}],
                      NEW none, none = [rules EXCEPT !.block_domains = {}, !.exception_domains = {}]
               PROVE  /\ dns_plan(cfg, more, h) => dns_plan(cfg, rules, h)
                      /\ dns_plan(cfg, none, h) => dns_plan(cfg, more, h)
                      /\ session_plan(cfg, more, h, a).tracker_match
                           => session_plan(cfg, rules, h, a).tracker_match
                      /\ session_plan(cfg, none, h, a).tracker_match
                           => session_plan(cfg, more, h, a).tracker_match
    BY Zenon DEF ExceptionsOnlyUnblockLists
  <2>1. rules \in FilterListRules
    BY Zenon DEF TypeOK
  <2>2. \A S, enabled : /\ blocked(h, S, enabled, more) => blocked(h, S, enabled, rules)
                        /\ blocked(h, S, enabled, none) => blocked(h, S, enabled, more)
    <3>1. /\ more.block_domains = rules.block_domains
          /\ rules.exception_domains \subseteq more.exception_domains
          /\ none.block_domains = {}
      BY <2>1, Zenon DEF FilterListRules
    <3> QED BY <3>1, Zenon DEF blocked, domain_in_set_or_parent
  <2>3. /\ dns_plan(cfg, more, h) => dns_plan(cfg, rules, h)
        /\ dns_plan(cfg, none, h) => dns_plan(cfg, more, h)
    BY <2>2, Zenon DEF dns_plan
  <2> QED BY <2>2, <2>3, PlanMatches, Zenon
<1>2. SubdomainsBlocked
  <2> SUFFICES ASSUME rules.exception_domains = {}, NEW h \in Hosts, NEW p \in Parents(h),
                      dns_plan(cfg, rules, p)
               PROVE  dns_plan(cfg, rules, h)
    BY Zenon DEF SubdomainsBlocked
  <2>1. Parents(p) \subseteq Parents(h)
    BY HostsAreSequences, ParentsOfParents, Zenon
  <2> QED BY <2>1, Zenon DEF dns_plan, blocked, domain_in_set_or_parent
<1> QED BY <1>1, <1>2, Zenon DEF BlocksFollowRules

(* The mode that the command line overrides keeps a configuration valid. *)
LEMMA EffectiveValid ==
    ASSUME NEW f \in PolicyConfig, validate(f)
    PROVE  Effective(f) \in PolicyConfig /\ validate(Effective(f))
<1>1. CASE mode_override = NoOverride
  BY <1>1, Zenon DEF Effective
<1>2. CASE mode_override # NoOverride
  <2> DEFINE g == Effective(f)
  <2>1. g = [f EXCEPT !.mode = mode_override] /\ mode_override \in Modes
    BY <1>2, PolicyAssumption, Zenon DEF Effective
  <2>2. /\ g \in PolicyConfig
        /\ g.tracker_set_cookie = f.tracker_set_cookie
        /\ g.dns_block = f.dns_block
        /\ g.body_rewrite = f.body_rewrite
    BY <2>1, Zenon DEF PolicyConfig
  <2> HIDE DEF g
  <2>3. validate(g)
    BY <2>2, Zenon DEF validate
  <2> QED BY <2>2, <2>3, Zenon DEF g
<1> QED BY <1>1, <1>2, Zenon

(* At startup only a configuration that validates becomes active. *)
LEMMA ReloadInit ==
    Init => ReloadInv
<1> SUFFICES ASSUME Init PROVE ReloadInv
  BY Zenon
<1>1. disk \in PolicyConfig /\ validate(disk) /\ rules \in FilterListRules
  BY PolicyAssumption, Zenon DEF Init, Loadable
<1>2. cfg \in PolicyConfig /\ validate(cfg)
  BY <1>1, EffectiveValid, Zenon DEF Init
<1>3. /\ poll \in Poll
      /\ poll.last_mtime <= poll.seen /\ poll.seen <= mtime
      /\ poll.got = cfg
  BY <1>2 DEF Init, Poll, NoMtime
<1>4. mtime \in 1..(MaxEdits + 1) /\ refreshes \in 0..MaxRefreshes
  BY PolicyAssumption DEF Init
<1> QED BY <1>1, <1>2, <1>3, <1>4, Zenon DEF ReloadInv

(* Every step keeps the active configuration, and the one that the reload  *)
(* task has read, valid.                                                   *)
LEMMA ReloadNext ==
    ReloadInv /\ [Next]_vars => ReloadInv'
<1> SUFFICES ASSUME ReloadInv, [Next]_vars PROVE ReloadInv'
  BY Zenon
<1>0. /\ poll \in Poll /\ mtime \in Nat /\ MaxEdits \in Nat /\ MaxRefreshes \in Nat
      /\ poll.last_mtime \in Nat /\ poll.seen \in Nat /\ poll.got \in PolicyConfig
  BY PolicyAssumption DEF ReloadInv, Poll
<1>1. ASSUME NEW f \in Configs \cup {Broken}, EditFile(f) PROVE ReloadInv'
  <2>1. /\ disk' \in PolicyConfig \cup {Broken}
        /\ mtime' \in 1..(MaxEdits + 1)
        /\ poll.seen <= mtime'
        /\ UNCHANGED <<cfg, rules, poll, refreshes>>
    BY <1>0, <1>1, PolicyAssumption DEF EditFile, ReloadInv
  <2> QED BY <2>1, Zenon DEF ReloadInv
<1>2. CASE ReloadTick
  <2>1. /\ poll' \in Poll
        /\ poll'.last_mtime = poll.last_mtime
        /\ poll'.seen = mtime
        /\ poll'.got = poll.got
    BY <1>0, <1>2, Zenon DEF ReloadTick, Poll
  <2>2. UNCHANGED <<cfg, rules, disk, mtime, refreshes>>
    BY <1>2, Zenon DEF ReloadTick
  <2>3. poll'.last_mtime <= poll'.seen /\ poll'.seen <= mtime
    BY <1>0, <2>1 DEF ReloadInv
  <2> QED BY <2>1, <2>2, <2>3, Zenon DEF ReloadInv
<1>3. CASE ReloadRead
  <2>1. UNCHANGED <<cfg, rules, disk, mtime, refreshes>>
    BY <1>3, Zenon DEF ReloadRead
  <2>2. CASE Loadable(disk)
    <3>1. disk \in PolicyConfig /\ validate(disk)
      BY <2>2, Zenon DEF Loadable, ReloadInv
    <3>2. Effective(disk) \in PolicyConfig /\ validate(Effective(disk))
      BY <3>1, EffectiveValid, Zenon
    <3>3. /\ poll' \in Poll
          /\ poll'.last_mtime = poll.last_mtime
          /\ poll'.seen = poll.seen
          /\ poll'.got = Effective(disk)
      BY <1>0, <1>3, <2>2, <3>2, Zenon DEF ReloadRead, Poll
    <3> QED BY <2>1, <3>2, <3>3, Zenon DEF ReloadInv
  <2>3. CASE ~Loadable(disk)
    <3>1. /\ poll' \in Poll
          /\ poll'.last_mtime = poll.last_mtime
          /\ poll'.seen = poll.seen
          /\ poll'.got = poll.got
      BY <1>0, <1>3, <2>3, Zenon DEF ReloadRead, Poll
    <3> QED BY <2>1, <3>1, Zenon DEF ReloadInv
  <2> QED BY <2>2, <2>3, Zenon
<1>4. CASE replace_from_file
  <2>1. /\ poll' \in Poll
        /\ poll'.last_mtime = poll.seen
        /\ poll'.seen = poll.seen
        /\ poll'.got = poll.got
    BY <1>0, <1>4, Zenon DEF replace_from_file, Poll
  <2>2. cfg' = poll.got /\ UNCHANGED <<rules, disk, mtime, refreshes>>
    BY <1>4, Zenon DEF replace_from_file
  <2>3. poll'.last_mtime <= poll'.seen
    BY <1>0, <2>1
  <2> QED BY <1>0, <2>1, <2>2, <2>3, Zenon DEF ReloadInv
<1>5. ASSUME NEW fl \in RuleSets, replace_filter_list_rules(fl) PROVE ReloadInv'
  <2>1. rules' \in FilterListRules /\ UNCHANGED <<cfg, disk, mtime, poll>>
    BY <1>5, PolicyAssumption, Zenon DEF replace_filter_list_rules
  <2>2. refreshes' \in 0..MaxRefreshes
    BY <1>0, <1>5 DEF replace_filter_list_rules, ReloadInv
  <2> QED BY <2>1, <2>2, Zenon DEF ReloadInv
<1>6. ASSUME UNCHANGED <<cfg, rules, disk, mtime, poll, refreshes>> PROVE ReloadInv'
  BY <1>6, Zenon DEF ReloadInv
<1>7. CASE UNCHANGED vars
  BY <1>6, <1>7, Zenon DEF vars
<1>8. ASSUME NEW c \in Conns,
             \/ InterceptPlan(c)
             \/ InterceptBodyPlan(c)
             \/ \E http1 \in BOOLEAN : Negotiate(c, http1)
             \/ \E websocket \in BOOLEAN : FirstRequest(c, websocket)
             \/ FirstRequestBody(c)
             \/ FirstResponse(c)
             \/ \E rewritable \in BOOLEAN : ResponseBody(c, rewritable)
             \/ Copy(c)
      PROVE  ReloadInv'
  <2>1. UNCHANGED <<cfg, rules, disk, mtime, poll, refreshes>>
    BY <1>8, Zenon DEF InterceptPlan, InterceptBodyPlan, Negotiate, FirstRequest, FirstRequestBody,
                FirstResponse, ResponseBody, Copy
  <2> QED BY <1>6, <2>1, Zenon
<1> QED BY <1>1, <1>2, <1>3, <1>4, <1>5, <1>7, <1>8, Zenon DEF Next, ReloadTask

(* The types, from the two inductive invariants. *)
LEMMA TypesHold ==
    ReloadInv /\ ConnsInv => TypeOK
<1> SUFFICES ASSUME ReloadInv, ConnsInv PROVE TypeOK
  BY Zenon
<1>1. poll.pc \in {"idle", "changed", "read"} /\ poll.last_mtime \in NoMtime..mtime
  BY DEF ReloadInv, Poll, NoMtime
<1> QED BY <1>1, Zenon DEF ReloadInv, ConnsInv, TypeOK

(* Whatever configurations are loaded and rules refreshed, the cookies     *)
(* that plan_for_host_with_source_ip has filtered are those of the consent *)
(* table: profile before nearest site before default, for every host.      *)
THEOREM ConsentIsRespected ==
    Spec => []ConsentTable
<1>1. ReloadInv /\ ConnsInv => ConsentTable
  BY TypesHold, TableHolds, Zenon
<1> QED BY ReloadInit, ReloadNext, ConnsInit, ConnsNext, <1>1, PTL DEF Spec

(* Under every policy that can become active an exception of a filter list *)
(* only takes away blocks of the lists, in plan_for_host_with_source_ip    *)
(* and in plan_for_dns_query, and a blocked domain blocks its subdomains.  *)
THEOREM BlocksComeFromRules ==
    Spec => []BlocksFollowRules
<1>1. ReloadInv /\ ConnsInv => BlocksFollowRules
  BY TypesHold, BlocksHold, Zenon
<1> QED BY ReloadInit, ReloadNext, ConnsInit, ConnsNext, <1>1, PTL DEF Spec

-----------------------------------------------------------------------------
(* The filter lists *)

(* A list is none of the two that stand for a missing and a cut-off file,  *)
(* and what is published now is a list.                                    *)
LEMMA ListFacts ==
    ASSUME ListsTypeOK, NEW s \in Sources
    PROVE  /\ NoList \notin Lists /\ Cut \notin Lists /\ NoList # Cut
           /\ List(s) \in Lists /\ Part(s) \in Lists
           /\ List(s).source = s /\ Part(s).source = s
           /\ List(s).version = published[s] /\ Part(s).version = published[s]
           /\ List(s).whole
           /\ published[s] \in Nat
<1>1. published[s] \in 0..MaxVersion /\ MaxVersion \in Nat
  BY ListsAssumption, Zenon DEF ListsTypeOK
<1>2. "none" \notin Sources /\ "cut" \notin Sources
  BY ListsAssumption, Zenon
<1>3. NoList \notin Lists /\ Cut \notin Lists /\ NoList # Cut
  BY <1>2, Zenon DEF Lists, NoList, Cut
<1>4. List(s) = [source |-> s, version |-> published[s], whole |-> TRUE]
  BY Zenon DEF List
<1>5. /\ List(s) \in Lists
      /\ List(s).source = s
      /\ List(s).version = published[s]
      /\ List(s).whole
  BY <1>1, <1>4 DEF Lists
<1>6. /\ Part(s) \in Lists
      /\ Part(s).source = List(s).source
      /\ Part(s).version = List(s).version
  BY <1>5, Zenon DEF Part, Lists
<1> QED BY <1>1, <1>3, <1>5, <1>6

(* Versions are numbers. *)
LEMMA VersionsAreNumbers ==
    ASSUME NEW l \in Lists PROVE l.version \in Nat /\ l.source \in Sources
BY ListsAssumption DEF Lists

(* Where the task stands among the sources. *)
LEMMA TaskFacts ==
    ASSUME ListsTypeOK, TaskInv
    PROVE  /\ task.next \in 1..(Len(sources) + 1)
           /\ Len(sources) \in Nat \ {0}
           /\ task.results \in SUBSET Lists
           /\ task.pc \notin {"idle", "aggregate"} =>
                 task.next \in 1..Len(sources) /\ Source \in Sources
<1>1. sources \in Seq(Sources) /\ sources # <<>>
  BY ListsAssumption, Zenon
<1>2. task.next \in 1..(Len(sources) + 1) /\ task.results \in SUBSET Lists
  BY Zenon DEF ListsTypeOK, Task
<1> QED BY <1>1, <1>2 DEF TaskInv, Source, Sources

(* What the task is once a source is done. *)
LEMMA LoadedFacts ==
    ASSUME ListsTypeOK, TaskInv, task.pc \notin {"idle", "aggregate"},
           NEW found \in SUBSET Lists, Loaded(found)
    PROVE  /\ task' \in Task
           /\ task'.next = task.next + 1
           /\ task'.results = task.results \cup found
           /\ task'.pc = IF task.next < Len(sources) THEN "load" ELSE "aggregate"
<1>1. /\ task.next \in 1..Len(sources)
      /\ Len(sources) \in Nat
      /\ task.results \cup found \in SUBSET Lists
  BY TaskFacts, Zenon
<1>2. task' = [pc |-> IF task.next < Len(sources) THEN "load" ELSE "aggregate",
               next |-> task.next + 1, hops |-> 0, text |-> NoList,
               results |-> task.results \cup found]
  BY Zenon DEF Loaded, Idle
<1>3. task.next + 1 \in 1..(Len(sources) + 1) /\ 0 \in 0..MaxRedirects
  BY <1>1, ListsAssumption
<1>4. (IF task.next < Len(sources) THEN "load" ELSE "aggregate") \in {"load", "aggregate"}
  BY Zenon
<1> QED BY <1>1, <1>2, <1>3, <1>4, Zenon DEF Task

(* Between two sources the task holds nothing. *)
LEMMA LoadedTask ==
    ASSUME ListsTypeOK, TaskInv, task.pc \notin {"idle", "aggregate"}, up' = up,
           NEW found \in SUBSET Lists, Loaded(found)
    PROVE  TaskInv'
<1>1. task.next \in 1..Len(sources) /\ Len(sources) \in Nat
  BY TaskFacts, Zenon
<1>2. /\ task'.next = task.next + 1
      /\ task'.pc = IF task.next < Len(sources) THEN "load" ELSE "aggregate"
  BY LoadedFacts, Zenon
<1>3. up'
  BY Zenon DEF TaskInv
<1>4. CASE task.next < Len(sources)
  <2>1. task'.pc = "load" /\ task'.next \in 1..Len(sources)
    BY <1>1, <1>2, <1>4
  <2> QED BY <1>3, <2>1, Zenon DEF TaskInv
<1>5. CASE ~(task.next < Len(sources))
  <2>1. task'.pc = "aggregate" /\ task'.next = Len(sources) + 1
    BY <1>1, <1>2, <1>5
  <2> QED BY <1>3, <2>1, Zenon DEF TaskInv
<1> QED BY <1>4, <1>5, Zenon

(* The steps at which the task holds a download. *)
Writing == {"write", "rename", "rename_again"}

(* The cache keeps its copies when no file and no list at hand changes,    *)
(* whatever is published.                                                  *)
LEMMA CacheKept ==
    ASSUME ListsTypeOK, CacheInv, cache' = cache,
           \A u \in Urls : published'[u] \in Nat /\ published[u] <= published'[u],
           task'.pc \in Writing => /\ task.pc \in Writing
                                   /\ task'.next = task.next
                                   /\ task'.text = task.text
    PROVE  CacheInv'
<1>1. \A f \in Files : /\ cache'[f] # Cut
                       /\ cache'[f] # NoList => \E u \in Urls : cache_filename[u] = f
  BY Zenon DEF CacheInv
<1>2. ASSUME Distinct, NEW u \in Urls PROVE CopyOK(u)'
  <2> DEFINE l == cache[cache_filename[u]]
  <2>1. CopyOK(u)
    BY <1>2, Zenon DEF CacheInv
  <2>2. l \in Lists \cup {NoList, Cut} /\ u \in Sources
    BY ListsAssumption, Zenon DEF ListsTypeOK
  <2>3. l # NoList => l.version <= published'[u]
    <3> SUFFICES ASSUME l # NoList PROVE l.version <= published'[u]
      BY Zenon
    <3>1. l \in Lists /\ l.version <= published[u]
      BY <2>1, <2>2, Zenon DEF CopyOK
    <3>2. l.version \in Nat /\ published[u] \in Nat
      BY <2>2, <3>1, VersionsAreNumbers, ListFacts, Zenon
    <3> QED BY <3>1, <3>2
  <2>4. task'.pc \in Writing /\ Source' = u
          => task.pc \in Writing /\ Source = u /\ task'.text = task.text
    BY Zenon DEF Source
  <2> QED BY <2>1, <2>3, <2>4, Zenon DEF CopyOK, Writing
<1> QED BY <1>1, <1>2, Zenon DEF CacheInv, Distinct

(* The task begins or ends with nothing in hand: what is in the rules was  *)
(* there, or is the result of a load.                                      *)
LEMMA ResetKept ==
    ASSUME ListsInv, task' = Idle \/ task' = [Idle EXCEPT !.pc = "load"],
           installed' \subseteq installed \cup task.results,
           UNCHANGED <<CacheFails, published, cache>>,
           task' = Idle \/ up', tmp' \in [Files -> Lists \cup {NoList, Cut}],
           spawned' \in BOOLEAN, up' \in BOOLEAN
    PROVE  ListsInv'
<1>1. /\ sources \in Seq(Sources) /\ Len(sources) \in Nat
      /\ 1 \in 1..Len(sources) /\ MaxRedirects \in Nat
  BY TaskFacts, ListsAssumption DEF ListsInv
<1>2. /\ task' \in Task
      /\ task'.pc \in {"idle", "load"}
      /\ task'.pc = "load" => up'
      /\ task'.next = 1
      /\ task'.results = {}
  BY <1>1 DEF Idle, Task
<1>3. installed' \in SUBSET Lists
  BY TaskFacts, Zenon DEF ListsInv, ListsTypeOK
<1>4. ListsTypeOK'
  BY <1>2, <1>3, Zenon DEF ListsInv, ListsTypeOK
<1>5. TaskInv'
  BY <1>1, <1>2, Zenon DEF TaskInv
<1>6. \A u \in Urls : published'[u] \in Nat /\ published[u] <= published'[u]
  BY ListsAssumption, ListFacts DEF ListsInv
<1>7. CacheInv'
  BY <1>2, <1>6, CacheKept, Zenon DEF ListsInv, Writing
<1>8. FreshInv'
  <2>1. /\ installed' \cup task'.results \subseteq installed \cup task.results
        /\ 1..(task'.next - 1) = {}
    BY <1>2
  <2> QED BY <2>1, Zenon DEF ListsInv, FreshInv, AtLeast, Distinct
<1> QED BY <1>4, <1>5, <1>7, <1>8, Zenon DEF ListsInv

(* A source is done: the results stay as new as the rules if the list that *)
(* was found is, and if the copy it leaves is not older than the one that  *)
(* was there.                                                              *)
LEMMA LoadedFresh ==
    ASSUME ListsInv, task.pc \notin {"idle", "aggregate"},
           NEW found \in SUBSET Lists, Loaded(found), UNCHANGED <<CacheFails, installed>>,
           ~CacheFails /\ Distinct =>
              /\ \A u \in Urls : u # Source => cache'[cache_filename[u]] = cache[cache_filename[u]]
              /\ \A u \in Urls : \A l \in Lists :
                    AtLeast({cache[cache_filename[u]]}, u, l)
                      => AtLeast({cache'[cache_filename[u]]}, u, l)
              /\ \A u \in Urls : \A l \in found :
                    l.source = u => AtLeast({cache'[cache_filename[u]]}, u, l)
              /\ Source \in Urls /\ cache'[File] # NoList =>
                    /\ \E m \in found : m.source = Source
                    /\ \A l \in installed : l.source = Source => AtLeast(found, Source, l)
    PROVE  FreshInv'
<1> SUFFICES ASSUME ~CacheFails, Distinct, NEW u \in Urls
             PROVE  /\ \A l \in installed' \cup task'.results :
                          l.source = u => AtLeast({cache'[cache_filename[u]]}, u, l)
                    /\ \A j \in 1..(task'.next - 1) :
                          sources[j] = u /\ cache'[cache_filename[u]] # NoList =>
                             /\ \E m \in task'.results : m.source = u
                             /\ \A l \in installed' : l.source = u => AtLeast(task'.results, u, l)
  BY Zenon DEF FreshInv, AtLeast, Distinct
<1>1. /\ task'.next = task.next + 1
      /\ task'.results = task.results \cup found
      /\ task.next \in Nat
      /\ installed \cup task.results \subseteq Lists
  BY LoadedFacts, TaskFacts, SMTT(20) DEF ListsInv, ListsTypeOK
<1>2. /\ \A l \in installed \cup task.results :
            l.source = u => AtLeast({cache[cache_filename[u]]}, u, l)
      /\ \A j \in 1..(task.next - 1) :
            sources[j] = u /\ cache[cache_filename[u]] # NoList =>
               /\ \E m \in task.results : m.source = u
               /\ \A l \in installed : l.source = u => AtLeast(task.results, u, l)
  BY Zenon DEF ListsInv, FreshInv
<1>3. \A l \in installed' \cup task'.results :
         l.source = u => AtLeast({cache'[cache_filename[u]]}, u, l)
  BY <1>1, <1>2, Zenon
<1>4. ASSUME NEW j \in 1..(task'.next - 1), sources[j] = u, cache'[cache_filename[u]] # NoList
      PROVE  /\ \E m \in task'.results : m.source = u
             /\ \A l \in installed' : l.source = u => AtLeast(task'.results, u, l)
  <2>1. CASE u = Source
    BY <1>1, <1>4, <2>1, Zenon DEF File, AtLeast
  <2>2. CASE u # Source
    <3>1. j \in 1..(task.next - 1)
      BY <1>1, <1>4, <2>2 DEF Source
    <3>2. cache[cache_filename[u]] # NoList
      BY <1>4, <2>2, Zenon
    <3>3. /\ \E m \in task.results : m.source = u
          /\ \A l \in installed : l.source = u => AtLeast(task.results, u, l)
      BY <1>2, <1>4, <3>1, <3>2, Zenon
    <3>4. \A m \in task.results : m \in task'.results
      BY <1>1, Zenon
    <3> QED BY <3>3, <3>4, Zenon DEF AtLeast
  <2> QED BY <2>1, <2>2, Zenon
<1> QED BY <1>3, <1>4, Zenon

(* A source is done and the cache is as it was. *)
LEMMA LoadedKept ==
    ASSUME ListsInv, task.pc \notin {"idle", "aggregate"},
           NEW found \in SUBSET Lists, Loaded(found),
           UNCHANGED <<CacheFails, published, cache, installed, spawned, up>>,
           tmp' \in [Files -> Lists \cup {NoList, Cut}],
           ~CacheFails /\ Distinct =>
              /\ \A u \in Urls : \A l \in found :
                    l.source = u => AtLeast({cache[cache_filename[u]]}, u, l)
              /\ Source \in Urls /\ cache[File] # NoList =>
                    /\ \E m \in found : m.source = Source
                    /\ \A l \in installed : l.source = Source => AtLeast(found, Source, l)
    PROVE  ListsInv'
<1>1. task' \in Task /\ task'.pc \in {"load", "aggregate"}
  BY LoadedFacts, Zenon DEF ListsInv
<1>2. ListsTypeOK'
  BY <1>1, Zenon DEF ListsInv, ListsTypeOK
<1>3. TaskInv'
  BY LoadedTask, Zenon DEF ListsInv
<1>4. \A u \in Urls : published'[u] \in Nat /\ published[u] <= published'[u]
  BY ListsAssumption, ListFacts DEF ListsInv
<1>5. CacheInv'
  BY <1>1, <1>4, CacheKept, Zenon DEF ListsInv, Writing
<1>6. FreshInv'
  <2>1. ~CacheFails /\ Distinct =>
           /\ \A u \in Urls : u # Source => cache'[cache_filename[u]] = cache[cache_filename[u]]
           /\ \A u \in Urls : \A l \in Lists :
                 AtLeast({cache[cache_filename[u]]}, u, l)
                   => AtLeast({cache'[cache_filename[u]]}, u, l)
           /\ \A u \in Urls : \A l \in found :
                 l.source = u => AtLeast({cache'[cache_filename[u]]}, u, l)
           /\ Source \in Urls /\ cache'[File] # NoList =>
                 /\ \E m \in found : m.source = Source
                 /\ \A l \in installed : l.source = Source => AtLeast(found, Source, l)
    BY Zenon
  <2> QED BY <2>1, LoadedFresh, Zenon
<1> QED BY <1>2, <1>3, <1>5, <1>6, Zenon DEF ListsInv

(* Nothing that FreshInv speaks of changes. *)
LEMMA FreshKept ==
    ASSUME FreshInv, UNCHANGED <<CacheFails, cache, installed>>,
           task'.next = task.next, task'.results = task.results
    PROVE  FreshInv'
BY DEF FreshInv, AtLeast, Distinct

(* The task moves on with the same source, and no list changes. *)
LEMMA MoveKept ==
    ASSUME ListsInv, task.pc \notin {"idle", "aggregate"},
           NEW p \in {"download", "fallback"}, NEW n \in 0..MaxRedirects,
           Source \in Urls, task' = [task EXCEPT !.pc = p, !.hops = n],
           UNCHANGED <<CacheFails, published, cache, tmp, installed, spawned, up>>
    PROVE  ListsInv'
<1>1. /\ task' \in Task
      /\ task'.pc = p
      /\ task'.next = task.next
      /\ task'.results = task.results
  BY Zenon DEF ListsInv, ListsTypeOK, Task
<1>2. ListsTypeOK'
  BY <1>1, Zenon DEF ListsInv, ListsTypeOK
<1>3. TaskInv'
  BY <1>1, TaskFacts, Zenon DEF ListsInv, TaskInv, Source
<1>4. \A u \in Urls : published'[u] \in Nat /\ published[u] <= published'[u]
  BY ListsAssumption, ListFacts DEF ListsInv
<1>5. CacheInv'
  BY <1>1, <1>4, CacheKept, Zenon DEF ListsInv, Writing
<1>6. FreshInv'
  BY <1>1, FreshKept, Zenon DEF ListsInv
<1> QED BY <1>2, <1>3, <1>5, <1>6, Zenon DEF ListsInv

(* Something is published. *)
LEMMA PublishKept ==
    ASSUME ListsInv, NEW s \in Sources, Publish(s)
    PROVE  ListsInv'
<1>1. /\ published' = [published EXCEPT ![s] = published[s] + 1]
      /\ \A x \in Sources : published[x] < MaxVersion /\ published[x] \in 0..MaxVersion
      /\ MaxVersion \in Nat
      /\ published \in [Sources -> 0..MaxVersion]
      /\ UNCHANGED <<CacheFails, cache, tmp, installed, task, spawned, up>>
  BY ListsAssumption, Zenon DEF Publish, ListsInv, ListsTypeOK
<1>2. published' \in [Sources -> 0..MaxVersion]
  BY <1>1
<1>3. \A x \in Sources :
         published[x] \in Nat /\ published'[x] \in Nat /\ published[x] <= published'[x]
  BY <1>1
<1>4. ListsTypeOK'
  BY <1>1, <1>2, Zenon DEF ListsInv, ListsTypeOK
<1>5. TaskInv'
  <2>1. task.pc \in Writing => task.text.version <= published'[Source]
    <3> SUFFICES ASSUME task.pc \in Writing PROVE task.text.version <= published'[Source]
      BY Zenon
    <3>1. task.text \in Lists /\ task.text.version <= published[Source] /\ Source \in Sources
      BY ListsAssumption, Zenon DEF ListsInv, TaskInv, Writing
    <3>2. task.text.version \in Nat
      BY <3>1, VersionsAreNumbers, Zenon
    <3> QED BY <1>3, <3>1, <3>2
  <2> QED BY <1>1, <2>1, Zenon DEF ListsInv, TaskInv, Source, File, Writing
<1>6. \A u \in Urls : published'[u] \in Nat /\ published[u] <= published'[u]
  BY <1>3, ListsAssumption, Zenon
<1>7. CacheInv'
  BY <1>1, <1>6, CacheKept, Zenon DEF ListsInv
<1>8. FreshInv'
  BY <1>1, FreshKept, Zenon DEF ListsInv
<1> QED BY <1>4, <1>5, <1>7, <1>8, Zenon DEF ListsInv

(* The body that parse_http1_response gives is of the URL, not newer than  *)
(* what is published, and whole if its end shows.                          *)
LEMMA BodyFacts ==
    ASSUME ListsTypeOK, NEW u \in Urls, NEW text \in parse_http1_response(u)
    PROVE  /\ text \in Lists
           /\ text.source = u
           /\ text.version = published[u]
           /\ published[u] \in Nat
           /\ u \in Framed => text.whole
BY ListsAssumption, ListFacts DEF parse_http1_response

(* A download has come in. *)
LEMMA DownloadedKept ==
    ASSUME ListsInv, Downloaded
    PROVE  ListsInv'
<1>1. PICK text \in parse_http1_response(Source) :
         task' = [task EXCEPT !.pc = "write", !.text = text]
  BY Zenon DEF Downloaded
<1>2. /\ task.pc = "download" /\ Source \in Urls
      /\ UNCHANGED <<CacheFails, published, cache, tmp, installed, spawned, up>>
  BY Zenon DEF Downloaded, ListsInv, TaskInv
<1>3. /\ text \in Lists
      /\ text.source = Source
      /\ text.version = published[Source]
      /\ published[Source] \in Nat
      /\ Source \in Framed => text.whole
  BY <1>2, BodyFacts, Zenon DEF ListsInv
<1>4. /\ task' \in Task
      /\ task'.pc = "write"
      /\ task'.next = task.next
      /\ task'.text = text
      /\ task'.results = task.results
  BY <1>1, <1>3, Zenon DEF ListsInv, ListsTypeOK, Task
<1>5. Source' = Source
  BY <1>4, Zenon DEF Source
<1>6. ListsTypeOK'
  BY <1>2, <1>4, Zenon DEF ListsInv, ListsTypeOK
<1>7. TaskInv'
  <2>1. up /\ task.next \in 1..Len(sources)
    BY <1>2, Zenon DEF ListsInv, TaskInv
  <2> QED BY <1>2, <1>3, <1>4, <1>5, <2>1 DEF TaskInv
<1>8. CacheInv'
  <2>1. ASSUME Distinct, NEW u \in Urls PROVE CopyOK(u)'
    <3>1. CopyOK(u)
      BY <2>1, Zenon DEF ListsInv, CacheInv
    <3>2. Source' = u /\ cache[cache_filename[u]] # NoList
            => cache[cache_filename[u]].version <= text.version
      BY <1>3, <1>5, <3>1, Zenon DEF CopyOK
    <3> QED BY <1>2, <1>4, <3>1, <3>2, Zenon DEF CopyOK
  <2> QED BY <1>2, <2>1, Zenon DEF ListsInv, CacheInv, Distinct
<1>9. FreshInv'
  BY <1>2, <1>4, FreshKept, Zenon DEF ListsInv
<1> QED BY <1>6, <1>7, <1>8, <1>9, Zenon DEF ListsInv

(* The download is in the temporary file. *)
LEMMA WriteKept ==
    ASSUME ListsInv, WriteTmp
    PROVE  ListsInv'
<1>1. /\ task.pc = "write"
      /\ task' = [task EXCEPT !.pc = "rename"]
      /\ tmp' = [tmp EXCEPT ![File] = task.text]
      /\ UNCHANGED <<CacheFails, published, cache, installed, spawned, up>>
  BY Zenon DEF WriteTmp
<1>2. /\ task' \in Task
      /\ task'.pc = "rename"
      /\ task'.next = task.next
      /\ task'.text = task.text
      /\ task'.results = task.results
  BY <1>1, Zenon DEF ListsInv, ListsTypeOK, Task
<1>3. /\ up /\ task.next \in 1..Len(sources) /\ Source \in Urls
      /\ task.text \in Lists
      /\ task.text.source = Source
      /\ Source \in Framed => task.text.whole
      /\ task.text.version <= published[Source]
  BY <1>1, Zenon DEF ListsInv, TaskInv
<1>4. Source' = Source /\ File' = File /\ File \in Files
  BY <1>2, <1>3, ListsAssumption, Zenon DEF Source, File
<1>5. tmp' \in [Files -> Lists \cup {NoList, Cut}] /\ tmp'[File] = task.text
  BY <1>1, <1>3, <1>4, Zenon DEF ListsInv, ListsTypeOK
<1>6. ListsTypeOK'
  BY <1>1, <1>2, <1>5, Zenon DEF ListsInv, ListsTypeOK
<1>7. TaskInv'
  BY <1>1, <1>2, <1>3, <1>4, <1>5, Zenon DEF TaskInv
<1>8. \A u \in Urls : published'[u] \in Nat /\ published[u] <= published'[u]
  BY <1>1, ListsAssumption, ListFacts DEF ListsInv
<1>9. CacheInv'
  BY <1>1, <1>2, <1>8, CacheKept, Zenon DEF ListsInv, Writing
<1>10. FreshInv'
  BY <1>1, <1>2, FreshKept, Zenon DEF ListsInv
<1> QED BY <1>6, <1>7, <1>9, <1>10, Zenon DEF ListsInv

(* The rename is refused, where the cache directory fails. *)
LEMMA RefusedKept ==
    ASSUME ListsInv, RenameRefused
    PROVE  ListsInv'
<1>1. /\ task.pc = "rename" /\ CacheFails
      /\ task' = [task EXCEPT !.pc = "rename_again"]
      /\ cache' \in {cache, [cache EXCEPT ![File] = NoList]}
      /\ UNCHANGED <<CacheFails, published, tmp, installed, spawned, up>>
  BY Zenon DEF RenameRefused
<1>2. /\ task' \in Task
      /\ task'.pc = "rename_again"
      /\ task'.next = task.next
      /\ task'.text = task.text
      /\ task'.results = task.results
  BY <1>1, Zenon DEF ListsInv, ListsTypeOK, Task
<1>3. Source' = Source /\ File' = File
  BY <1>2, Zenon DEF Source, File
<1>4. \A f \in Files : cache'[f] \in {cache[f], NoList}
  BY <1>1, Zenon DEF ListsInv, ListsTypeOK
<1>5. cache' \in [Files -> Lists \cup {NoList, Cut}]
  BY <1>1, Zenon DEF ListsInv, ListsTypeOK
<1>6. ListsTypeOK'
  BY <1>1, <1>2, <1>5, Zenon DEF ListsInv, ListsTypeOK
<1>7. TaskInv'
  BY <1>1, <1>2, <1>3, Zenon DEF ListsInv, TaskInv
<1>8. CacheInv'
  <2>1. NoList # Cut
    BY Zenon DEF NoList, Cut
  <2>2. ASSUME Distinct, NEW u \in Urls PROVE CopyOK(u)'
    <3>1. CopyOK(u) /\ cache_filename[u] \in Files
      BY <2>2, ListsAssumption, Zenon DEF ListsInv, CacheInv
    <3> QED BY <1>1, <1>2, <1>3, <1>4, <2>1, <3>1, Zenon DEF CopyOK
  <2>3. \A f \in Files : /\ cache'[f] # Cut
                         /\ cache'[f] # NoList => \E u \in Urls : cache_filename[u] = f
    BY <1>4, <2>1, Zenon DEF ListsInv, CacheInv
  <2> QED BY <2>2, <2>3, Zenon DEF CacheInv, Distinct
<1>9. FreshInv'
  BY <1>1, Zenon DEF FreshInv
<1> QED BY <1>6, <1>7, <1>8, <1>9, Zenon DEF ListsInv

(* A local file is read or skipped. *)
LEMMA LocalKept ==
    ASSUME ListsInv, LoadLocal
    PROVE  ListsInv'
<1>1. /\ task.pc = "load" /\ Source \notin Urls
      /\ UNCHANGED <<CacheFails, published, cache, tmp, installed, spawned, up>>
      /\ tmp' \in [Files -> Lists \cup {NoList, Cut}]
  BY Zenon DEF LoadLocal, ListsInv, ListsTypeOK
<1>2. Source \in Sources
  BY <1>1, TaskFacts, Zenon DEF ListsInv
<1>3. CASE Loaded({List(Source)})
  <2>1. {List(Source)} \in SUBSET Lists /\ \A l \in {List(Source)} : l.source \notin Urls
    BY <1>1, <1>2, ListFacts DEF ListsInv
  <2> QED BY <1>1, <1>3, <2>1, LoadedKept, Zenon
<1>4. CASE Loaded({})
  BY <1>1, <1>4, LoadedKept, Zenon
<1> QED BY <1>3, <1>4, Zenon DEF LoadLocal

(* The download is used, although the cache could not be written. *)
LEMMA ErrorKept ==
    ASSUME ListsInv, CacheError
    PROVE  ListsInv'
<1>1. /\ CacheFails /\ task.pc \in Writing
      /\ Loaded({task.text})
      /\ UNCHANGED <<CacheFails, published, cache, installed, spawned, up>>
      /\ tmp' \in {tmp, [tmp EXCEPT ![File] = Cut]}
  BY Zenon DEF CacheError, Writing
<1>2. {task.text} \in SUBSET Lists /\ task.pc \notin {"idle", "aggregate"}
  BY <1>1, Zenon DEF ListsInv, TaskInv, Writing
<1>3. tmp' \in [Files -> Lists \cup {NoList, Cut}]
  BY <1>1, Zenon DEF ListsInv, ListsTypeOK
<1> QED BY <1>1, <1>2, <1>3, LoadedKept, Zenon

(* The cached copy stands in for a download that failed. *)
LEMMA FallbackKept ==
    ASSUME ListsInv, Fallback
    PROVE  ListsInv'
<1> DEFINE found == {cache[File]} \ {NoList}
<1>1. /\ task.pc = "fallback" /\ Source \in Urls
      /\ UNCHANGED <<CacheFails, published, cache, tmp, installed, spawned, up>>
      /\ tmp' \in [Files -> Lists \cup {NoList, Cut}]
  BY Zenon DEF Fallback, ListsInv, ListsTypeOK, TaskInv
<1>2. CASE Loaded(found)
  <2>1. File \in Files /\ File = cache_filename[Source]
    BY <1>1, ListsAssumption, Zenon DEF File
  <2>2. found \in SUBSET Lists
    BY <2>1 DEF ListsInv, ListsTypeOK, CacheInv
  <2>3. ASSUME ~CacheFails, Distinct
        PROVE  /\ \A u \in Urls : \A l \in found :
                     l.source = u => AtLeast({cache[cache_filename[u]]}, u, l)
               /\ cache[File] # NoList =>
                     /\ \E m \in found : m.source = Source
                     /\ \A l \in installed : l.source = Source => AtLeast(found, Source, l)
    <3>1. cache[File] # NoList => cache[File].source = Source
      BY <1>1, <2>1, <2>3, Zenon DEF ListsInv, CacheInv, CopyOK
    <3>2. \A l \in found : l.version >= l.version
      BY <2>2, VersionsAreNumbers
    <3>3. \A l \in installed : l.source = Source => AtLeast({cache[File]}, Source, l)
      BY <1>1, <2>1, <2>3, Zenon DEF ListsInv, FreshInv
    <3>4. \A u \in Urls : \A l \in found : l.source = u => AtLeast({cache[cache_filename[u]]}, u, l)
      BY <2>1, <3>1, <3>2, Zenon DEF AtLeast
    <3>5. cache[File] # NoList => found = {cache[File]}
      BY Zenon
    <3> QED BY <3>1, <3>3, <3>4, <3>5, Zenon
  <2> HIDE DEF found
  <2>4. task.pc \notin {"idle", "aggregate"}
    BY <1>1, Zenon
  <2> QED BY <1>1, <1>2, <2>2, <2>3, <2>4, LoadedKept, Zenon
<1>3. CASE CacheFails /\ Loaded({})
  BY <1>1, <1>3, LoadedKept, Zenon
<1> QED BY <1>2, <1>3, Zenon DEF Fallback

(* The download replaces the cached copy. *)
LEMMA RenameKept ==
    ASSUME ListsInv, Rename
    PROVE  ListsInv'
<1> DEFINE text == task.text
<1>1. /\ task.pc \in {"rename", "rename_again"}
      /\ task.pc \notin {"idle", "aggregate"}
      /\ cache' = [cache EXCEPT ![File] = tmp[File]]
      /\ tmp' = [tmp EXCEPT ![File] = NoList]
      /\ Loaded({text})
      /\ UNCHANGED <<CacheFails, published, installed, spawned, up>>
  BY Zenon DEF Rename
<1>2. /\ tmp[File] = text /\ Source \in Urls
      /\ text \in Lists
      /\ text.source = Source
      /\ Source \in Framed => text.whole
      /\ text.version <= published[Source]
  BY <1>1, Zenon DEF ListsInv, TaskInv
<1>3. File \in Files /\ File = cache_filename[Source]
  BY <1>2, ListsAssumption, Zenon DEF File
<1>4. text.version \in Nat /\ text # Cut /\ text # NoList
  BY <1>2, VersionsAreNumbers, ListFacts, ListsAssumption, Zenon DEF ListsInv
<1>5. /\ cache \in [Files -> Lists \cup {NoList, Cut}]
      /\ tmp \in [Files -> Lists \cup {NoList, Cut}]
  BY Zenon DEF ListsInv, ListsTypeOK
<1>6. /\ cache' \in [Files -> Lists \cup {NoList, Cut}]
      /\ tmp' \in [Files -> Lists \cup {NoList, Cut}]
      /\ cache'[File] = text
      /\ \A f \in Files : f # File => cache'[f] = cache[f]
  BY <1>1, <1>2, <1>3, <1>5, Zenon
<1>7. {text} \in SUBSET Lists
  BY <1>2, Zenon
<1>8. task' \in Task /\ task'.pc \in {"load", "aggregate"}
  BY <1>1, <1>7, LoadedFacts, Zenon DEF ListsInv
<1> HIDE DEF text
<1>9. ListsTypeOK'
  BY <1>1, <1>6, <1>8, Zenon DEF ListsInv, ListsTypeOK
<1>10. TaskInv'
  BY <1>1, <1>7, LoadedTask, Zenon DEF ListsInv
<1>11. CacheInv'
  <2>1. \A f \in Files : /\ cache'[f] # Cut
                         /\ cache'[f] # NoList => \E u \in Urls : cache_filename[u] = f
    BY <1>2, <1>3, <1>4, <1>6 DEF ListsInv, CacheInv
  <2>2. ASSUME Distinct, NEW u \in Urls PROVE CopyOK(u)'
    <3>1. CASE u = Source
      BY <1>1, <1>2, <1>3, <1>4, <1>6, <1>8, <3>1, Zenon DEF CopyOK
    <3>2. CASE u # Source
      <4>1. cache_filename[u] \in Files /\ cache_filename[u] # File
        BY <1>2, <1>3, <2>2, <3>2, ListsAssumption, Zenon DEF Distinct
      <4>2. CopyOK(u)
        BY <2>2, Zenon DEF ListsInv, CacheInv
      <4> QED BY <1>1, <1>6, <1>8, <4>1, <4>2, Zenon DEF CopyOK
    <3> QED BY <3>1, <3>2, Zenon
  <2> QED BY <2>1, <2>2, Zenon DEF CacheInv, Distinct
<1>12. FreshInv'
  <2>1. ASSUME ~CacheFails, Distinct
        PROVE  /\ \A u \in Urls : u # Source => cache'[cache_filename[u]] = cache[cache_filename[u]]
               /\ \A u \in Urls : \A l \in Lists :
                     AtLeast({cache[cache_filename[u]]}, u, l)
                       => AtLeast({cache'[cache_filename[u]]}, u, l)
               /\ \A u \in Urls : \A l \in {text} :
                     l.source = u => AtLeast({cache'[cache_filename[u]]}, u, l)
               /\ cache'[File] # NoList =>
                     /\ \E m \in {text} : m.source = Source
                     /\ \A l \in installed : l.source = Source => AtLeast({text}, Source, l)
    <3>1. \A u \in Urls : u # Source => cache'[cache_filename[u]] = cache[cache_filename[u]]
      BY <1>2, <1>3, <1>6, <2>1, ListsAssumption DEF Distinct
    <3>2. ASSUME NEW l \in Lists, AtLeast({cache[File]}, Source, l) PROVE AtLeast({text}, Source, l)
      <4>1. cache[File].source = Source /\ cache[File].version >= l.version
        BY <3>2, Zenon DEF AtLeast
      <4>2. cache[File] # NoList
        BY <4>1, <1>2, ListsAssumption DEF NoList
      <4>3. CopyOK(Source)
        BY <1>2, <2>1, Zenon DEF ListsInv, CacheInv
      <4>4. cache[File] # Cut /\ cache[File].version <= text.version
        BY <1>1, <1>3, <4>2, <4>3, Zenon DEF CopyOK, text
      <4>5. cache[File] \in Lists
        BY <1>3, <1>5, <4>2, <4>4, Zenon
      <4>6. cache[File].version \in Nat /\ l.version \in Nat
        BY <4>5, VersionsAreNumbers, Zenon
      <4>7. text.version >= l.version
        BY <1>4, <4>1, <4>4, <4>6
      <4> QED BY <1>2, <4>7, Zenon DEF AtLeast
    <3>3. \A l \in installed : /\ l \in Lists
                               /\ l.source = Source => AtLeast({cache[File]}, Source, l)
      BY <1>2, <1>3, <2>1, Zenon DEF ListsInv, FreshInv, ListsTypeOK
    <3>4. text.version >= text.version
      BY <1>4
    <3>5. AtLeast({text}, Source, text)
      BY <1>2, <3>4, Zenon DEF AtLeast
    <3>6. ASSUME NEW u \in Urls, NEW l \in Lists, AtLeast({cache[cache_filename[u]]}, u, l)
          PROVE  AtLeast({cache'[cache_filename[u]]}, u, l)
      <4>1. CASE u = Source
        BY <1>3, <1>6, <3>2, <3>6, <4>1, Zenon
      <4>2. CASE u # Source
        BY <3>1, <3>6, <4>2, Zenon
      <4> QED BY <4>1, <4>2, Zenon
    <3>7. ASSUME NEW u \in Urls, text.source = u
          PROVE  AtLeast({cache'[cache_filename[u]]}, u, text)
      BY <1>2, <1>3, <1>6, <3>5, <3>7, Zenon
    <3> QED BY <1>2, <3>1, <3>2, <3>3, <3>6, <3>7, Zenon
  <2> QED BY <1>1, <1>7, <2>1, LoadedFresh, Zenon
<1> QED BY <1>9, <1>10, <1>11, <1>12, Zenon DEF ListsInv

(* The first load starts with an empty cache and no rules. *)
LEMMA ListsInvInit ==
    ListsInit => ListsInv
<1> SUFFICES ASSUME ListsInit PROVE ListsInv
  BY Zenon
<1>1. /\ sources \in Seq(Sources) /\ Len(sources) \in Nat /\ 1 \in 1..Len(sources)
      /\ MaxRedirects \in Nat /\ MaxVersion \in Nat
  BY ListsAssumption
<1>2. /\ task \in Task
      /\ task.pc = "load"
      /\ task.next = 1
      /\ task.results = {}
  BY <1>1 DEF ListsInit, Idle, Task
<1>3. /\ published \in [Sources -> 0..MaxVersion]
      /\ cache \in [Files -> Lists \cup {NoList, Cut}]
      /\ tmp \in [Files -> Lists \cup {NoList, Cut}]
  BY <1>1 DEF ListsInit
<1>4. ListsTypeOK
  BY <1>2, <1>3, Zenon DEF ListsInit, ListsTypeOK
<1>5. TaskInv
  BY <1>1, <1>2, Zenon DEF ListsInit, TaskInv
<1>6. CacheInv
  <2>1. NoList # Cut /\ \A f \in Files : cache[f] = NoList
    BY Zenon DEF ListsInit, NoList, Cut
  <2>2. \A u \in Urls : cache[cache_filename[u]] = NoList
    BY <2>1, ListsAssumption, Zenon
  <2> QED BY <2>1, <2>2 DEF CacheInv, CopyOK
<1>7. FreshInv
  BY <1>2 DEF ListsInit, FreshInv
<1> QED BY <1>4, <1>5, <1>6, <1>7, Zenon DEF ListsInv

(* Every step keeps the inductive invariant. *)
LEMMA ListsInvStep ==
    ListsInv /\ [ListsNext]_listVars => ListsInv'
<1> SUFFICES ASSUME ListsInv, [ListsNext]_listVars PROVE ListsInv'
  BY Zenon
<1>0. /\ tmp \in [Files -> Lists \cup {NoList, Cut}] /\ spawned \in BOOLEAN /\ up \in BOOLEAN
      /\ task.hops \in 0..MaxRedirects /\ MaxRedirects \in Nat /\ RefreshEnabled \in BOOLEAN
      /\ task \in Task
  BY ListsAssumption, Zenon DEF ListsInv, ListsTypeOK, Task
<1>1. ASSUME NEW s \in Sources, Publish(s) PROVE ListsInv'
  BY <1>1, PublishKept, Zenon
<1>2. CASE LoadLocal
  BY <1>2, LocalKept, Zenon
<1>3. CASE StartDownload
  <2>1. 0 \in 0..MaxRedirects
    BY <1>0
  <2> QED BY <1>3, <2>1, MoveKept, Zenon DEF StartDownload
<1>4. CASE Redirected
  <2>1. /\ task.pc = "download" /\ Source \in Urls
        /\ UNCHANGED <<CacheFails, published, cache, tmp, installed, spawned, up>>
    BY <1>4, Zenon DEF Redirected, ListsInv, TaskInv
  <2>2. CASE task.hops < MaxRedirects
    <3>1. task.hops + 1 \in 0..MaxRedirects
      BY <1>0, <2>2
    <3>2. task' = [task EXCEPT !.pc = "download", !.hops = task.hops + 1]
      BY <1>0, <1>4, <2>1, <2>2, Zenon DEF Redirected, Task
    <3> QED BY <2>1, <3>1, <3>2, MoveKept, Zenon
  <2>3. CASE ~(task.hops < MaxRedirects)
    <3>1. task' = [task EXCEPT !.pc = "fallback", !.hops = task.hops]
      BY <1>0, <1>4, <2>3, Zenon DEF Redirected, Task
    <3> QED BY <1>0, <2>1, <3>1, MoveKept, Zenon
  <2> QED BY <2>2, <2>3, Zenon
<1>5. CASE Downloaded
  BY <1>5, DownloadedKept, Zenon
<1>6. CASE DownloadFails
  <2>1. /\ task.pc = "download" /\ Source \in Urls
        /\ UNCHANGED <<CacheFails, published, cache, tmp, installed, spawned, up>>
    BY <1>6, Zenon DEF DownloadFails, ListsInv, TaskInv
  <2>2. task' = [task EXCEPT !.pc = "fallback", !.hops = task.hops]
    BY <1>0, <1>6, Zenon DEF DownloadFails, Task
  <2> QED BY <1>0, <2>1, <2>2, MoveKept, Zenon
<1>7. CASE WriteTmp
  BY <1>7, WriteKept, Zenon
<1>8. CASE Rename
  BY <1>8, RenameKept, Zenon
<1>9. CASE RenameRefused
  BY <1>9, RefusedKept, Zenon
<1>10. CASE CacheError
  BY <1>10, ErrorKept, Zenon
<1>11. CASE Fallback
  BY <1>11, FallbackKept, Zenon
<1>12. CASE Install
  <2>1. (spawned \/ RefreshEnabled) \in BOOLEAN
    BY <1>0, Zenon
  <2> QED BY <1>0, <1>12, <2>1, ResetKept, Zenon DEF Install
<1>13. CASE AllFailed
  BY <1>0, <1>13, ResetKept, Zenon DEF AllFailed
<1>14. CASE RefreshTick
  BY <1>0, <1>14, ResetKept, Zenon DEF RefreshTick
<1>15. CASE Crash
  <2>1. tmp' \in {tmp, [tmp EXCEPT ![File] = Cut]}
    BY <1>15, Zenon DEF Crash
  <2>2. tmp' \in [Files -> Lists \cup {NoList, Cut}]
    BY <1>0, <2>1, Zenon
  <2> QED BY <1>15, <2>2, ResetKept, Zenon DEF Crash
<1>16. CASE Restart
  BY <1>0, <1>16, ResetKept, Zenon DEF Restart
<1>17. CASE UNCHANGED listVars
  <2>1. UNCHANGED <<CacheFails, published, cache, tmp, installed, task, spawned, up>>
    BY <1>17, Zenon DEF listVars
  <2>2. ListsTypeOK' /\ TaskInv'
    BY <2>1, Zenon DEF ListsInv, ListsTypeOK, TaskInv, Source, File
  <2>3. \A u \in Urls : published'[u] \in Nat /\ published[u] <= published'[u]
    BY <2>1, ListsAssumption, ListFacts DEF ListsInv
  <2>4. CacheInv'
    BY <2>1, <2>3, CacheKept, Zenon DEF ListsInv
  <2>5. FreshInv'
    BY <2>1, FreshKept, Zenon DEF ListsInv
  <2> QED BY <2>2, <2>4, <2>5, Zenon DEF ListsInv
<1> QED
  BY <1>1, <1>2, <1>3, <1>4, <1>5, <1>6, <1>7, <1>8, <1>9, <1>10, <1>11, <1>12, <1>13, <1>14,
     <1>15, <1>16, <1>17, Zenon DEF ListsNext, RefreshStep

(* When a load ends, the results have a list of every URL with a copy, and *)
(* one that is as new as the list in force.                                *)
LEMMA ResultsComplete ==
    ASSUME ListsInv, task.pc = "aggregate", ~CacheFails, Distinct, NEW u \in Urls,
           cache[cache_filename[u]] # NoList
    PROVE  /\ \E m \in task.results : m.source = u
           /\ \A l \in installed : l.source = u => AtLeast(task.results, u, l)
<1>1. task.next = Len(sources) + 1 /\ Len(sources) \in Nat
  BY TaskFacts, Zenon DEF ListsInv, TaskInv
<1>2. PICK j \in 1..Len(sources) : sources[j] = u
  BY ListsAssumption, Zenon DEF Sources
<1>3. j \in 1..(task.next - 1)
  BY <1>1
<1> QED BY <1>2, <1>3, Zenon DEF ListsInv, FreshInv

(* A cached copy is never the torn remains of cache_to_disk, and never     *)
(* another URL's list or the beginning of one, for any number of crashes   *)
(* and failures of the cache directory.                                    *)
THEOREM CacheStaysWhole ==
    ListsSpec => []CacheWhole
<1>1. ListsInv => CacheWhole
  <2> SUFFICES ASSUME ListsInv PROVE CacheWhole
    BY Zenon
  <2>1. ASSUME NEW f \in Files, Distinct, cache[f] # NoList
        PROVE  \E u \in Urls : /\ cache_filename[u] = f
                               /\ cache[f].source = u
                               /\ u \in Framed => cache[f].whole
    <3>1. PICK u \in Urls : cache_filename[u] = f
      BY <2>1, Zenon DEF ListsInv, CacheInv
    <3>2. CopyOK(u)
      BY <2>1, Zenon DEF ListsInv, CacheInv
    <3> QED BY <2>1, <3>1, <3>2, Zenon DEF CopyOK
  <2> QED BY <2>1, Zenon DEF CacheWhole, ListsInv, CacheInv
<1> QED BY ListsInvInit, ListsInvStep, <1>1, PTL DEF ListsSpec

(* refresh_filter_lists never replaces the active list of a URL by an      *)
(* older one and never drops it while the cache works, whichever downloads *)
(* fail.                                                                   *)
THEOREM ListsNeverGetOlder ==
    ListsSpec => NeverOlder
<1>1. ListsInv /\ [ListsNext]_listVars =>
        [~CacheFails /\ Distinct /\ up' =>
           \A l \in installed : l.source \in Urls =>
              \E m \in installed' : m.source = l.source /\ m.version >= l.version]_listVars
  <2> SUFFICES ASSUME ListsInv, ListsNext, ~CacheFails, Distinct, up',
                      NEW l \in installed, l.source \in Urls
               PROVE  \E m \in installed' : m.source = l.source /\ m.version >= l.version
    BY Zenon
  <2>1. l.version >= l.version
    BY VersionsAreNumbers DEF ListsInv, ListsTypeOK
  <2>2. CASE Install
    <3>1. AtLeast({cache[cache_filename[l.source]]}, l.source, l)
      BY Zenon DEF ListsInv, FreshInv
    <3>2. cache[cache_filename[l.source]] # NoList
      BY <3>1, ListsAssumption, SMTT(20) DEF AtLeast, NoList
    <3>3. AtLeast(task.results, l.source, l)
      BY <2>2, <3>2, ResultsComplete, Zenon DEF Install
    <3> QED BY <2>2, <3>3, Zenon DEF Install, AtLeast
  <2>3. CASE ~Install
    <3>1. installed' = installed
      BY <2>3, Zenon DEF ListsNext, RefreshStep, Publish, LoadLocal, StartDownload, Redirected, Downloaded,
                  DownloadFails, WriteTmp, Rename, RenameRefused, CacheError, Fallback, AllFailed,
                  RefreshTick, Crash, Restart
    <3> QED BY <2>1, <3>1, Zenon
  <2> QED BY <2>2, <2>3, Zenon
<1> QED BY ListsInvInit, ListsInvStep, <1>1, PTL DEF ListsSpec, NeverOlder

(* A refresh of which every source fails leaves the rules in force, and a  *)
(* load that ends brings the list of every URL that the cache holds.       *)
THEOREM ListsAreKeptActive ==
    ListsSpec => ListsStayActive
<1>1. ListsInv /\ [ListsNext]_listVars =>
        [/\ up' /\ installed # {} => installed' # {}
         /\ ~CacheFails /\ Distinct /\ up' /\ task.pc = "aggregate" /\ task'.pc = "idle" =>
              \A u \in Urls : cache[cache_filename[u]] # NoList =>
                 \E l \in installed' : l.source = u]_listVars
  <2> SUFFICES ASSUME ListsInv, ListsNext, up'
               PROVE  /\ installed # {} => installed' # {}
                      /\ ~CacheFails /\ Distinct /\ task.pc = "aggregate" /\ task'.pc = "idle" =>
                           \A u \in Urls : cache[cache_filename[u]] # NoList =>
                              \E l \in installed' : l.source = u
    BY Zenon
  <2>1. CASE Install
    <3>1. installed' = task.results /\ installed' # {} /\ task.pc = "aggregate"
      BY <2>1, Zenon DEF Install
    <3> QED BY <3>1, ResultsComplete, Zenon
  <2>2. CASE AllFailed
    <3>1. installed' = installed /\ task.results = {} /\ task.pc = "aggregate"
      BY <2>2, Zenon DEF AllFailed
    <3> QED BY <3>1, ResultsComplete, Zenon
  <2>3. CASE ~Install /\ ~AllFailed
    <3>1. installed' = installed
      BY <2>3, Zenon DEF ListsNext, RefreshStep, Publish, LoadLocal, StartDownload, Redirected, Downloaded,
                  DownloadFails, WriteTmp, Rename, RenameRefused, CacheError, Fallback,
                  RefreshTick, Crash, Restart
    <3>2. task.pc = "aggregate" => task'.pc = "aggregate"
      <4> SUFFICES ASSUME task.pc = "aggregate" PROVE task' = task
        BY Zenon
      <4>1. up
        BY Zenon DEF ListsInv, TaskInv
      <4> QED
        BY <2>3, <4>1, Zenon DEF ListsNext, RefreshStep, Publish, LoadLocal, StartDownload, Redirected,
                 Downloaded, DownloadFails, WriteTmp, Rename, RenameRefused, CacheError, Fallback,
                 RefreshTick, Crash, Restart
    <3> QED BY <3>1, <3>2, Zenon
  <2> QED BY <2>1, <2>2, <2>3, Zenon
<1> QED BY ListsInvInit, ListsInvStep, <1>1, PTL DEF ListsSpec, ListsStayActive
=============================================================================
