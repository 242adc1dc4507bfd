------------------------------- MODULE Policy -------------------------------
(***************************************************************************)
(* The policy engine of src/policy.rs: the plans it makes from the active  *)
(* configuration and the filter-list rules, the task of src/main.rs that   *)
(* reloads the configuration when its file changes, and the intercepted    *)
(* connections of src/mitm.rs, which ask for a plan several times and may  *)
(* get answers from different configurations.                              *)
(* A host or domain is the sequence of its labels, normalised.             *)
(***************************************************************************)
EXTENDS Naturals, Sequences

CONSTANTS
    Domains,        \* the domains that configurations and rules name
    IPs,            \* client addresses
    Configs,        \* the parsed configurations an operator may write
    RuleSets,       \* the filter-list rules a refresh may deliver
    Broken,         \* a file that is missing or does not parse
    mode_override,  \* args.policy_mode, or NoOverride
    NoOverride,
    ReloadEnabled,  \* args.policy_reload_interval_secs > 0
    Conns,          \* intercepted connections
    host,           \* the target host of each
    source_ip,      \* the client address of each
    MaxEdits,       \* bound: changes of the configuration file
    MaxRefreshes    \* bound: refreshes of the filter lists

Modes == {"disabled", "report_only", "enforce"}

Levels == {"essential_only", "analytics_ok", "all"}

PartialMaps(S, T) == UNION {[R -> T] : R \in SUBSET S}

TrackerSetCookieRule == [enabled : BOOLEAN, domains : SUBSET Domains]

DnsBlockRule == [enabled : BOOLEAN, domains : SUBSET Domains]

(* manual: script patterns, selectors or pixel stripping are configured. *)
BodyRewriteRule ==
    [enabled : BOOLEAN, manual : BOOLEAN, css_inject : BOOLEAN,
     referer_spoof_domains : SUBSET Domains, query_param_strip : BOOLEAN]

ConsentEnforcementRule ==
    [enabled : BOOLEAN, default_consent : Levels, analytics_domains : SUBSET Domains,
     site_overrides : PartialMaps(Domains, Levels), user_profiles : PartialMaps(IPs, Levels)]

PolicyConfig ==
    [mode : Modes, tracker_set_cookie : TrackerSetCookieRule, dns_block : DnsBlockRule,
     body_rewrite : BodyRewriteRule, consent_enforcement : ConsentEnforcementRule,
     websocket_blocking : BOOLEAN]

(* cosmetic: the domains with scoped selectors; global: any other pattern. *)
FilterListRules == [block_domains : SUBSET Domains, exception_domains : SUBSET Domains,
                    cosmetic : SUBSET Domains, global : BOOLEAN]

Labels == UNION {{d[i] : i \in DOMAIN d} : d \in Domains}

ASSUME PolicyAssumption ==
    /\ Domains \subseteq Seq(Labels)
    /\ Configs \subseteq PolicyConfig
    /\ RuleSets \subseteq FilterListRules
    /\ Broken \notin Configs
    /\ mode_override \in Modes \cup {NoOverride}
    /\ ReloadEnabled \in BOOLEAN
    /\ host \in [Conns -> Seq(Labels)]
    /\ source_ip \in [Conns -> IPs]
    /\ MaxEdits \in Nat
    /\ MaxRefreshes \in Nat

-----------------------------------------------------------------------------
(* Plans *)

(* The host itself and its parent domains, as the walk with split_once     *)
(* visits them.                                                            *)
Parents(h) == {SubSeq(h, i, Len(h)) : i \in 1..Len(h)}

domain_in_set_or_parent(h, S) == \E d \in Parents(h) : d \in S

(* PolicyConfig::validate *)
validate(c) ==
    /\ c.tracker_set_cookie.enabled => c.tracker_set_cookie.domains # {}
    /\ c.dns_block.enabled => c.dns_block.domains # {}
    /\ c.body_rewrite.enabled => c.body_rewrite.manual

(* load_policy_config_from_file: the override replaces the mode. *)
Loadable(f) == f # Broken /\ validate(f)

Effective(f) == IF mode_override = NoOverride THEN f ELSE [f EXCEPT !.mode = mode_override]

(* Mutant: an exception also covers the domains configured by hand. *)
blocked_unless_excepted(h, S, enabled, fl) ==
    /\ (enabled /\ domain_in_set_or_parent(h, S)) \/ domain_in_set_or_parent(h, fl.block_domains)
    /\ ~domain_in_set_or_parent(h, fl.exception_domains)

(* The union of configured domains and filter-list blocks that both the    *)
(* session plan and the DNS plan compute: exceptions take away list blocks *)
(* only.                                                                   *)
blocked(h, S, enabled, fl) ==
    \/ enabled /\ domain_in_set_or_parent(h, S)
    \/ /\ domain_in_set_or_parent(h, fl.block_domains)
       /\ ~domain_in_set_or_parent(h, fl.exception_domains)

(* The nearest override: the one of the longest of the host's parents. *)
override_level(h, ce) ==
    LET near == {d \in Parents(h) : d \in DOMAIN ce.site_overrides} IN
    IF near = {}
      THEN ce.default_consent
      ELSE ce.site_overrides[CHOOSE d \in near : \A e \in near : Len(e) <= Len(d)]

(* Mutant: a site override goes before the user's profile. *)
site_before_profile(h, ipa, ce) ==
    IF Parents(h) \cap DOMAIN ce.site_overrides # {} \/ ipa \notin DOMAIN ce.user_profiles
      THEN override_level(h, ce)
      ELSE ce.user_profiles[ipa]

(* A user profile goes before site overrides and the default. *)
consent_level(h, ipa, ce) ==
    IF ipa \in DOMAIN ce.user_profiles THEN ce.user_profiles[ipa] ELSE override_level(h, ce)

cookie_rule(category, level) ==
    \/ category = "advertising" /\ level # "all"
    \/ category = "analytics" /\ level = "essential_only"

(* plan_for_host_with_source_ip: one read lock on the configuration for    *)
(* the whole call, the rules read under it.                                *)
session_plan(c, fl, h, ipa) ==
    LET active == c.mode # "disabled"
        consent == c.consent_enforcement.enabled /\ active
        advertising == active /\ blocked(h, c.tracker_set_cookie.domains,
                                         c.tracker_set_cookie.enabled, fl)
        analytics == consent /\ domain_in_set_or_parent(h, c.consent_enforcement.analytics_domains)
        category == CASE consent /\ analytics -> "analytics"
                      [] consent /\ ~analytics /\ advertising -> "advertising"
                      [] OTHER -> "none"
    IN [mode |-> c.mode,
        tracker_match |-> advertising \/ analytics,
        enable_http1_set_cookie_filter |->
            IF consent THEN cookie_rule(category, consent_level(h, ipa, c.consent_enforcement))
                       ELSE advertising \/ analytics,
        websocket_blocking_enabled |-> c.websocket_blocking]

(* plan_for_dns_query *)
dns_plan(c, fl, h) ==
    c.mode # "disabled" /\ blocked(h, c.dns_block.domains, c.dns_block.enabled, fl)

(* plan_for_body_rewrite. The manual rules are given in every mode. *)
body_plan(c, fl, h) ==
    LET active == c.mode # "disabled"
        br == c.body_rewrite
    IN [mode |-> c.mode,
        manual |-> br.enabled /\ br.manual,
        should_rewrite |->
            /\ active
            /\ \/ br.enabled /\ (br.manual \/ br.css_inject)
               \/ fl.global \/ domain_in_set_or_parent(h, fl.cosmetic),
        referer_spoof |-> /\ active
                          /\ br.enabled
                          /\ domain_in_set_or_parent(h, br.referer_spoof_domains),
        query_param_strip |-> active /\ br.enabled /\ br.query_param_strip]

-----------------------------------------------------------------------------
VARIABLES
    cfg,         \* PolicyEngine::cfg
    rules,       \* PolicyEngine::filter_list_rules
    disk,        \* the configuration file
    mtime,       \* its modification time, which every change advances
    poll,        \* the reload task: its step, last_mtime, and what it has read
    conn,        \* the intercepted connections
    refreshes    \* filter-list refreshes so far

vars == <<cfg, rules, disk, mtime, poll, conn, refreshes>>

NoMtime == 0

Connection ==
    [pc : {"start", "planned", "negotiate", "request", "request_body", "response",
           "response_body", "copy", "done"},
     force_http1 : BOOLEAN,
     should_rewrite : BOOLEAN,
     relayed : BOOLEAN,    \* the relay looks at the traffic
     refused : BOOLEAN,    \* the request was answered with 403
     changed : BOOLEAN,    \* the request reaches the upstream changed
     stripped : BOOLEAN,   \* the response lost its Set-Cookie headers
     untagged : BOOLEAN,   \* the response lost its cache-tracking headers
     rewritten : BOOLEAN,  \* the response has a rewritten body
     steady : BOOLEAN]     \* ghost: no policy change since it started

NewConnection ==
    [pc |-> "start", force_http1 |-> FALSE, should_rewrite |-> FALSE, relayed |-> FALSE,
     refused |-> FALSE, changed |-> FALSE, stripped |-> FALSE, untagged |-> FALSE,
     rewritten |-> FALSE, steady |-> TRUE]

(* Only configurations that validate are ever active. *)
TypeOK ==
    /\ cfg \in PolicyConfig /\ validate(cfg)
    /\ rules \in FilterListRules
    /\ disk \in PolicyConfig \cup {Broken}
    /\ mtime \in 1..(MaxEdits + 1)
    /\ poll.pc \in {"idle", "changed", "read"}
    /\ poll.last_mtime \in NoMtime..mtime
    /\ conn \in [Conns -> Connection]
    /\ refreshes \in 0..MaxRefreshes

(* load_from_file at startup refuses a file that does not load. *)
Init ==
    /\ disk \in {f \in Configs : Loadable(f)}
    /\ cfg = Effective(disk)
    /\ rules \in RuleSets
    /\ mtime = 1
    /\ poll = [pc |-> "idle", last_mtime |-> NoMtime, seen |-> NoMtime, got |-> cfg]
    /\ conn = [c \in Conns |-> NewConnection]
    /\ refreshes = 0

(* The connections that have asked for a plan have seen another policy. *)
Unsettle(same) ==
    conn' = IF same THEN conn
                    ELSE [c \in Conns |-> [conn[c] EXCEPT !.steady = conn[c].pc = "start"]]

(* The operator saves the file, whole or not. *)
EditFile(f) ==
    /\ mtime <= MaxEdits
    /\ disk' = f
    /\ mtime' = mtime + 1
    /\ UNCHANGED <<cfg, rules, poll, conn, refreshes>>

(* A tick of the reload task compares the modification time; a file that   *)
(* is missing is an error here, and the next tick tries again.             *)
ReloadTick ==
    /\ ReloadEnabled
    /\ poll.pc = "idle"
    /\ mtime # poll.last_mtime
    /\ poll' = [poll EXCEPT !.pc = "changed", !.seen = mtime]
    /\ UNCHANGED <<cfg, rules, disk, mtime, conn, refreshes>>

(* load_policy_config_from_file reads whatever the file holds by now; an   *)
(* error leaves last_mtime alone, so that the next tick tries again.       *)
ReloadRead ==
    /\ poll.pc = "changed"
    /\ poll' = IF Loadable(disk)
                 THEN [poll EXCEPT !.pc = "read", !.got = Effective(disk)]
                 ELSE [poll EXCEPT !.pc = "idle"]
    /\ UNCHANGED <<cfg, rules, disk, mtime, conn, refreshes>>

(* Mutant: the time is taken after the file has been read. *)
replace_then_stat ==
    /\ poll.pc = "read"
    /\ cfg' = poll.got
    /\ poll' = [poll EXCEPT !.pc = "idle", !.last_mtime = mtime]
    /\ Unsettle(cfg' = cfg)
    /\ UNCHANGED <<rules, disk, mtime, refreshes>>

(* replace_from_file swaps the configuration under the write lock. *)
replace_from_file ==
    /\ poll.pc = "read"
    /\ cfg' = poll.got
    /\ poll' = [poll EXCEPT !.pc = "idle", !.last_mtime = poll.seen]
    /\ Unsettle(cfg' = cfg)
    /\ UNCHANGED <<rules, disk, mtime, refreshes>>

replace_filter_list_rules(fl) ==
    /\ refreshes < MaxRefreshes
    /\ rules' = fl
    /\ refreshes' = refreshes + 1
    /\ Unsettle(rules' = rules)
    /\ UNCHANGED <<cfg, disk, mtime, poll>>

-----------------------------------------------------------------------------
(* An intercepted connection *)

Plan(c) == session_plan(cfg, rules, host[c], source_ip[c])

Rewrite(c) == body_plan(cfg, rules, host[c])

(* intercept_tls_tunnel asks for two plans, one after the other. *)
InterceptPlan(c) ==
    /\ conn[c].pc = "start"
    /\ conn' = [conn EXCEPT ![c].pc = "planned",
                            ![c].force_http1 = Plan(c).enable_http1_set_cookie_filter]
    /\ UNCHANGED <<cfg, rules, disk, mtime, poll, refreshes>>

(* Mutant: HTTP/1.1 is only forced for body rewriting. *)
force_for_body(c) ==
    /\ conn[c].pc = "planned"
    /\ conn' = [conn EXCEPT ![c].pc = "negotiate",
                            ![c].force_http1 = Rewrite(c).manual,
                            ![c].should_rewrite = Rewrite(c).should_rewrite]
    /\ UNCHANGED <<cfg, rules, disk, mtime, poll, refreshes>>

InterceptBodyPlan(c) ==
    /\ conn[c].pc = "planned"
    /\ conn' = [conn EXCEPT ![c].pc = "negotiate",
                            ![c].force_http1 = @ \/ Rewrite(c).manual,
                            ![c].should_rewrite = Rewrite(c).should_rewrite]
    /\ UNCHANGED <<cfg, rules, disk, mtime, poll, refreshes>>

(* Both handshakes succeed; without force_http1 either side may or may not *)
(* choose HTTP/1.1, and the relay only runs where a body is to be changed. *)
Negotiate(c, http1) ==
    LET relay == conn[c].force_http1 \/ (http1 /\ conn[c].should_rewrite) IN
    /\ conn[c].pc = "negotiate"
    /\ conn' = [conn EXCEPT ![c].pc = IF relay THEN "request" ELSE "copy",
                            ![c].relayed = relay]
    /\ UNCHANGED <<cfg, rules, disk, mtime, poll, refreshes>>

(* The first request: a WebSocket upgrade to a tracker is answered with    *)
(* 403; the conditional headers of a request to a tracker, here one that   *)
(* has some, are removed.                                                  *)
FirstRequest(c, websocket) ==
    LET refuse == websocket /\ Plan(c).tracker_match /\ Plan(c).websocket_blocking_enabled IN
    /\ conn[c].pc = "request"
    /\ conn' = [conn EXCEPT ![c].pc = IF refuse THEN "done" ELSE "request_body",
                            ![c].refused = refuse,
                            ![c].changed = ~refuse /\ Plan(c).tracker_match]
    /\ UNCHANGED <<cfg, rules, disk, mtime, poll, refreshes>>

FirstRequestBody(c) ==
    /\ conn[c].pc = "request_body"
    /\ conn' = [conn EXCEPT ![c].pc = "response",
                            ![c].changed = \/ @
                                           \/ Rewrite(c).referer_spoof
                                           \/ Rewrite(c).query_param_strip]
    /\ UNCHANGED <<cfg, rules, disk, mtime, poll, refreshes>>

(* apply_http1_response_header_policy on a response that sets a cookie and *)
(* has cache-tracking headers; those go with the tracker match of the same *)
(* plan, whatever the mode.                                                *)
FirstResponse(c) ==
    /\ conn[c].pc = "response"
    /\ conn' = [conn EXCEPT ![c].pc = "response_body",
                            ![c].stripped = /\ Plan(c).enable_http1_set_cookie_filter
                                            /\ Plan(c).mode = "enforce",
                            ![c].untagged = Plan(c).tracker_match]
    /\ UNCHANGED <<cfg, rules, disk, mtime, poll, refreshes>>

(* attempt_body_rewrite sends the original in report_only mode and where   *)
(* the body cannot be rewritten.                                           *)
ResponseBody(c, rewritable) ==
    /\ conn[c].pc = "response_body"
    /\ conn' = [conn EXCEPT ![c].pc = "done",
                            ![c].rewritten = /\ rewritable
                                             /\ Rewrite(c).should_rewrite
                                             /\ Rewrite(c).mode # "report_only"]
    /\ UNCHANGED <<cfg, rules, disk, mtime, poll, refreshes>>

(* copy_bidirectional *)
Copy(c) ==
    /\ conn[c].pc = "copy"
    /\ conn' = [conn EXCEPT ![c].pc = "done"]
    /\ UNCHANGED <<cfg, rules, disk, mtime, poll, refreshes>>

ReloadTask == ReloadTick \/ ReloadRead \/ replace_from_file

Next ==
    \/ \E f \in Configs \cup {Broken} : EditFile(f)
    \/ ReloadTask
    \/ \E fl \in RuleSets : replace_filter_list_rules(fl)
    \/ \E c \in Conns :
          \/ InterceptPlan(c)
          \/ InterceptBodyPlan(c)
          \/ \E http1 \in BOOLEAN : Negotiate(c, http1)
          \/ \E websocket \in BOOLEAN : FirstRequest(c, websocket)
          \/ FirstRequestBody(c)
          \/ FirstResponse(c)
          \/ \E rewritable \in BOOLEAN : ResponseBody(c, rewritable)
          \/ Copy(c)

Spec == Init /\ [][Next]_vars

(* The interval timer of the reload task keeps ticking. *)
FairSpec == Spec /\ WF_vars(ReloadTask)

-----------------------------------------------------------------------------
(* Properties *)

(* The named domains and an unnamed subdomain of each. *)
Hosts == Domains \cup {<<"www">> \o d : d \in Domains}

(* A set that names the host or a domain it lies in. *)
Covers(S, h) == \E d \in S : \E n \in 0..(Len(h) - 1) : SubSeq(h, n + 1, Len(h)) = d

(* The level of consent that counts for a host and a client: the profile's *)
(* first, then that of the nearest site, then the default.                 *)
Consents(ce, h, a, level) ==
    \/ a \in DOMAIN ce.user_profiles /\ ce.user_profiles[a] = level
    \/ /\ a \notin DOMAIN ce.user_profiles
       /\ \/ \E d \in DOMAIN ce.site_overrides :
                /\ Covers({d}, h)
                /\ ce.site_overrides[d] = level
                /\ \A e \in DOMAIN ce.site_overrides : Covers({e}, h) => Len(e) <= Len(d)
          \/ ~Covers(DOMAIN ce.site_overrides, h) /\ ce.default_consent = level

Tracker(h) ==
    \/ cfg.tracker_set_cookie.enabled /\ Covers(cfg.tracker_set_cookie.domains, h)
    \/ Covers(rules.block_domains, h) /\ ~Covers(rules.exception_domains, h)

(* Which cookies the plan filters is the table of the consent rule: with   *)
(* everything allowed nothing is filtered, analytics only without consent  *)
(* to analytics, advertising otherwise; the user's profile decides before  *)
(* the site and its parents do, and without consent enforcement every      *)
(* tracker is filtered.                                                    *)
ConsentTable ==
    TypeOK /\ \A h \in Hosts, a \in IPs :
        LET ce == cfg.consent_enforcement
            filters == session_plan(cfg, rules, h, a).enable_http1_set_cookie_filter
        IN CASE cfg.mode = "disabled" -> ~filters
             [] cfg.mode # "disabled" /\ ~ce.enabled -> filters = Tracker(h)
             [] OTHER -> filters = IF Covers(ce.analytics_domains, h)
                                     THEN Consents(ce, h, a, "essential_only")
                                     ELSE Tracker(h) /\ ~Consents(ce, h, a, "all")

(* An exception of a filter list never adds a block and never takes away   *)
(* one that the configuration asks for, in the session plan and for DNS:   *)
(* "manual config still wins".                                             *)
ExceptionsOnlyUnblockLists ==
    \A h \in Hosts, a \in IPs, e \in Domains :
        LET more == [rules EXCEPT !.exception_domains = @ \cup {e}]
            none == [rules EXCEPT !.block_domains = {}, !.exception_domains = {}]
        IN /\ dns_plan(cfg, more, h) => dns_plan(cfg, rules, h)
           /\ dns_plan(cfg, none, h) => dns_plan(cfg, more, h)
           /\ session_plan(cfg, more, h, a).tracker_match
                => session_plan(cfg, rules, h, a).tracker_match
           /\ session_plan(cfg, none, h, a).tracker_match
                => session_plan(cfg, more, h, a).tracker_match

(* A block of a domain extends to its subdomains: where no exception is in *)
(* force, a name whose parent the DNS plan blocks is blocked too.          *)
SubdomainsBlocked ==
    rules.exception_domains = {} =>
        \A h \in Hosts : \A p \in Parents(h) :
            dns_plan(cfg, rules, p) => dns_plan(cfg, rules, h)

(* What is blocked follows the rules and nothing else.                     *)
BlocksFollowRules == ExceptionsOnlyUnblockLists /\ SubdomainsBlocked

(* A connection during which the policy does not change loses its cookies  *)
(* exactly when the plan says so and the mode is enforce: the plan asked   *)
(* at interception puts the connection on the relay that asks again.       *)
CookiesFollowPolicy ==
    \A c \in Conns :
        conn[c].steady /\ conn[c].pc = "done" /\ ~conn[c].refused =>
            (conn[c].stripped <=> Plan(c).enable_http1_set_cookie_filter /\ cfg.mode = "enforce")

(* In disabled mode a connection passes as it is: no refusal, no changed   *)
(* request, no stripped header and no rewritten body, although the manual  *)
(* rewriting rules still put it on the relay.                              *)
DisabledIsInert ==
    \A c \in Conns :
        conn[c].steady /\ cfg.mode = "disabled" =>
            /\ ~conn[c].refused
            /\ ~conn[c].changed
            /\ ~conn[c].stripped
            /\ ~conn[c].untagged
            /\ ~conn[c].rewritten

(* What the report_only mode keeps: the response is passed on with its     *)
(* cookies and its body.                                                   *)
ReportOnlyKeepsResponse ==
    \A c \in Conns :
        conn[c].steady /\ cfg.mode = "report_only" => ~conn[c].stripped /\ ~conn[c].rewritten

(* Each mode does to a connection what it is for, as long as the policy    *)
(* that the connection asks several times stays the same.                  *)
ConnectionsFollow == CookiesFollowPolicy /\ DisabledIsInert /\ ReportOnlyKeepsResponse

(* The README says of report_only that it logs what would have been        *)
(* blocked "without actually blocking it".                                 *)
ReportOnlyBlocksNothing ==
    \A c \in Conns :
        conn[c].steady /\ cfg.mode = "report_only" => ~conn[c].refused /\ ~conn[c].stripped

(* The inductive invariant: how far the plan asked at interception binds a *)
(* connection whose policy has not changed, and which effects each step    *)
(* can already have had.                                                   *)
ConnInv(c) ==
    /\ conn[c] \in Connection
    /\ conn[c].pc \notin {"response_body", "done"}
          => ~conn[c].stripped /\ ~conn[c].untagged
    /\ conn[c].pc # "done" => ~conn[c].refused /\ ~conn[c].rewritten
    /\ conn[c].pc \in {"start", "planned", "negotiate", "request", "copy"} => ~conn[c].changed
    /\ conn[c].steady =>
          /\ conn[c].pc \in {"planned", "negotiate"} /\ Plan(c).enable_http1_set_cookie_filter
                => conn[c].force_http1
          /\ conn[c].pc = "copy" => ~Plan(c).enable_http1_set_cookie_filter
          /\ conn[c].pc \in {"response_body", "done"} /\ ~conn[c].refused =>
                (conn[c].stripped <=>
                    Plan(c).enable_http1_set_cookie_filter /\ cfg.mode = "enforce")
          /\ conn[c].stripped => cfg.mode = "enforce"
          /\ conn[c].rewritten => cfg.mode \notin {"disabled", "report_only"}
          /\ conn[c].refused \/ conn[c].changed \/ conn[c].untagged => cfg.mode # "disabled"

ConnsInv == conn \in [Conns -> Connection] /\ \A c \in Conns : ConnInv(c)

Poll == [pc : {"idle", "changed", "read"}, last_mtime : Nat, seen : Nat, got : PolicyConfig]

(* The inductive invariant of the reload task: what it has read validates, *)
(* and the time that it takes over is never later than the file's.         *)
ReloadInv ==
    /\ cfg \in PolicyConfig /\ validate(cfg)
    /\ rules \in FilterListRules
    /\ disk \in PolicyConfig \cup {Broken}
    /\ mtime \in 1..(MaxEdits + 1)
    /\ poll \in Poll
    /\ poll.last_mtime <= poll.seen /\ poll.seen <= mtime
    /\ validate(poll.got)
    /\ refreshes \in 0..MaxRefreshes

(* Once the file is left alone and loads, it becomes the active            *)
(* configuration, whichever edits fell between the look at the             *)
(* modification time, the read and the swap of earlier reloads.            *)
ReloadCatchesUp ==
    ReloadEnabled /\ mtime = MaxEdits + 1 /\ Loadable(disk) ~> cfg = Effective(disk)
=============================================================================
