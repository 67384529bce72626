------------------------------ MODULE GitProxy ------------------------------
(***************************************************************************)
(* How workspace_checkout.rs reaches a remote: directly, or through the    *)
(* proxy that the environment names for its scheme, unless NO_PROXY        *)
(* excludes its host.  NO_PROXY is a convention with many spellings, and   *)
(* the code works on their text; here the text is computed as it does, and *)
(* compared with what the spelling means.                                  *)
(*                                                                         *)
(* A text is a sequence of characters.  Letters are in lower case already, *)
(* a port is its digits, and of loopback addresses there is one.           *)
(***************************************************************************)
EXTENDS Naturals, Sequences
LOCAL INSTANCE SequencesExt

CONSTANTS
  Labels,    \* the labels host names are made of: texts
  Ports,     \* ports: texts
  MaxLabels  \* bound: the labels of a host name

ASSUME ProxyAssumption == MaxLabels \in Nat

Loopback == <<"l">>                    \* localhost, or an address of its kind
Ipv6 == <<"f", ":", ":", "1">>
Digits == {"8", "9"}
NoText == <<>>
NoPort == <<>>
ProxyNames == {"HTTPS_PROXY", "https_proxy", "HTTP_PROXY", "http_proxy", "ALL_PROXY", "all_proxy"}

VARIABLES
  remote,       \* where a repository is
  environment   \* the backend's: proxies by name, and what NO_PROXY lists
                \* and no_proxy

proxyVars == <<remote, environment>>

(***************************************************************************)
(* Text                                                                    *)
(***************************************************************************)

\* trim and trim_matches.
TrimMatches(text, chars) ==
  LET first == SelectInSeq(text, LAMBDA c : c \notin chars)
      last == SelectLastInSeq(text, LAMBDA c : c \notin chars)
  IN  IF first = 0 THEN NoText ELSE SubSeq(text, first, last)

\* trim_start_matches, as often as it is there.
TrimStart(text, prefix) ==
  LET Times(n) == FlattenSeq([i \in 1..n |-> prefix])
      times == CHOOSE n \in 0..Len(text) :
                 /\ IsPrefix(Times(n), text)
                 /\ ~IsPrefix(Times(n + 1), text)
  IN  SubSeq(text, times * Len(prefix) + 1, Len(text))

From(text, i) == SubSeq(text, i, Len(text))
Before(text, i) == SubSeq(text, 1, i - 1)
IsPort(text) == text # NoText /\ ToSet(text) \subseteq Digits

(***************************************************************************)
(* An entry of NO_PROXY                                                    *)
(***************************************************************************)

\* split_no_proxy_entry: a host in brackets, or one with a port behind its
\* only colon.
SplitEntry(entry) ==
  LET closing == SelectInSeq(entry, LAMBDA c : c = "]")
      colon == SelectLastInSeq(entry, LAMBDA c : c = ":")
      rest == From(entry, closing + 1)
  IN  CASE IsPrefix(<<"[">>, entry) /\ closing # 0 ->
             [host |-> SubSeq(entry, 2, closing - 1),
              port |-> IF IsPrefix(<<":">>, rest) /\ IsPort(Tail(rest)) THEN Tail(rest) ELSE NoPort]
        [] /\ ~(IsPrefix(<<"[">>, entry) /\ closing # 0)
           /\ colon # 0 /\ ~Contains(Before(entry, colon), ":")
           /\ IsPort(From(entry, colon + 1)) ->
             [host |-> Before(entry, colon), port |-> From(entry, colon + 1)]
        [] OTHER -> [host |-> entry, port |-> NoPort]

\* Mutant: any name that ends like the entry is in its domain.
EndsLikeEntry(host, entryHost) == IsSuffix(entryHost, host)

\* host_matches_no_proxy_entry: the host, or one whose name goes on before it
\* with a dot.
HostMatches(host, entryHost) ==
  \/ host = entryHost
  \/ IsSuffix(<<".">> \o entryHost, host)

\* no_proxy_entry_matches.
EntryMatches(host, port, entry) ==
  LET text == TrimMatches(entry, {" "})
      split == SplitEntry(text)
      entryHost == TrimStart(TrimStart(TrimMatches(split.host, {"[", "]"}), <<"*", ".">>), <<".">>)
  IN  /\ text # NoText
      /\ \/ text = <<"*">>
         \/ /\ split.port \in {NoPort, port}
            /\ entryHost # NoText
            /\ HostMatches(host, entryHost)

(***************************************************************************)
(* The proxy for a remote                                                  *)
(***************************************************************************)

\* normalized_url_host.
HostOf(url) == TrimMatches(url.host, {"[", "]"})

\* should_bypass_git_proxy: both spellings of NO_PROXY count.
Bypassed(url) ==
  \/ HostOf(url) = Loopback
  \/ \E name \in {"NO_PROXY", "no_proxy"} :
       \E i \in DOMAIN environment.excluded[name] :
          EntryMatches(HostOf(url), url.port, environment.excluded[name][i])

\* proxy_env_names_for_scheme.
ProxyNamesFor(scheme) ==
  IF scheme = "http" THEN <<"HTTP_PROXY", "http_proxy", "ALL_PROXY", "all_proxy">>
  ELSE <<"HTTPS_PROXY", "https_proxy", "ALL_PROXY", "all_proxy">>

\* git_env_value: what is blank is not set.
IsSet(name) == environment.proxy[name] \notin {"unset", "blank"}

\* git_proxy_config_for_remote_from_env: a path or a URL of another scheme is
\* reached directly, and without any variable git looks for itself ("auto").
ProxyConfig ==
  LET named == SelectSeq(ProxyNamesFor(remote.scheme), IsSet)
  IN  CASE remote.scheme \notin {"http", "https"} -> "bypass"
        [] remote.scheme \in {"http", "https"} /\ Bypassed(remote) -> "bypass"
        [] OTHER -> IF named = <<>> THEN "auto" ELSE environment.proxy[named[1]]

(***************************************************************************)
(* What is configured, by its meaning                                      *)
(***************************************************************************)

\* Names as sequences of labels.
HostNames == UNION {[1..n -> Labels] : n \in 1..MaxLabels}

Dotted(labels) ==
  FlattenSeq([i \in 1..Len(labels) |-> IF i = 1 THEN labels[i] ELSE <<".">> \o labels[i]])

\* What an operator may mean to exclude: everything, a domain and what is
\* below it, or an address.
Meanings ==
  [kind : {"all"}, name : {<<>>}, port : {NoPort}]
    \cup [kind : {"domain"}, name : HostNames, port : {NoPort} \cup Ports]
    \cup [kind : {"address"}, name : {<<>>}, port : {NoPort} \cup Ports]

\* The ways to write it.
WithPort(text, port) == IF port = NoPort THEN text ELSE text \o <<":">> \o port
Spellings(meaning) ==
  CASE meaning.kind = "all" -> {<<"*">>, <<" ", "*">>}
    [] meaning.kind = "domain" ->
         {WithPort(lead \o Dotted(meaning.name), meaning.port) \o end :
            lead \in {NoText, <<".">>, <<"*", ".">>}, end \in {NoText, <<" ">>}}
    [] meaning.kind = "address" ->
         {WithPort(<<"[">> \o Ipv6 \o <<"]">>, meaning.port)}
           \cup (IF meaning.port = NoPort THEN {Ipv6} ELSE {})

Entries == UNION {[means : {m}, text : Spellings(m)] : m \in Meanings}

Excludes(meaning) ==
  /\ meaning.port \in {NoPort, remote.port}
  /\ CASE meaning.kind = "all" -> TRUE
       [] meaning.kind = "domain" -> remote.name # <<>> /\ IsSuffix(meaning.name, remote.name)
       [] meaning.kind = "address" -> remote.host = <<"[">> \o Ipv6 \o <<"]">>

(***************************************************************************)
(* Specification: any remote in any environment                            *)
(***************************************************************************)

Remotes ==
  UNION {[scheme : {"https", "http"}, name : {n}, host : {Dotted(n)}, port : Ports] : n \in HostNames}
    \cup [scheme : {"https"}, name : {<<>>},
          host : {Loopback, <<"[">> \o Ipv6 \o <<"]">>}, port : Ports]
    \cup [scheme : {"path"}, name : {<<>>}, host : {NoText}, port : {NoPort}]

Environments ==
  {[proxy |-> [n \in ProxyNames |-> IF n \in DOMAIN p THEN p[n] ELSE "unset"],
    excluded |-> l.texts, means |-> l.means] :
     p \in [{"https_proxy", "ALL_PROXY"} -> {"unset", "blank", "p", "q"}],
     l \in {[texts |-> [NO_PROXY |-> <<e.text>>, no_proxy |-> <<>>], means |-> {e.means}] : e \in Entries}
           \cup {[texts |-> [NO_PROXY |-> <<NoText>>, no_proxy |-> <<<<"a">>, e.text>>],
                  means |-> {e.means, [kind |-> "domain", name |-> <<<<"a">>>>, port |-> NoPort]}] :
                   e \in Entries}}

ProxyInit == remote \in Remotes /\ environment \in Environments
ProxySpec == ProxyInit /\ [][UNCHANGED proxyVars]_proxyVars

(***************************************************************************)
(* Property                                                                *)
(***************************************************************************)

\* A remote goes through the first proxy that is set for its scheme, and a
\* host that is excluded, in whichever spelling, through none - and no other
\* host for having a name that looks like it (no_proxy_entry_matches).
ProxiesAreAsConfigured ==
  LET excluded == remote.host = Loopback \/ \E m \in environment.means : Excludes(m)
      own == IF remote.scheme = "https" THEN environment.proxy["https_proxy"] ELSE "unset"
      all == environment.proxy["ALL_PROXY"]
  IN  ProxyConfig =
        CASE remote.scheme = "path" -> "bypass"
          [] remote.scheme # "path" /\ excluded -> "bypass"
          [] OTHER -> IF own \in {"p", "q"} THEN own ELSE IF all \in {"p", "q"} THEN all ELSE "auto"
=============================================================================
