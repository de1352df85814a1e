------------------------------- MODULE Resolvers -------------------------------
(***************************************************************************)
(* How the first request of a connection finds its target: the chain of    *)
(* HTTPProtocolTargetResolver.Resolve (http-resolver.go) over the          *)
(* resolvers main gives it, and the wrappers that later parse the same     *)
(* request again to rewrite it for the target.                             *)
(*                                                                         *)
(* A path is what its first element says it is:                            *)
(*   "docker"    /docker:local/...                                         *)
(*   "host"      /host:<host>...                                           *)
(*   "nohost"    /host: without a host                                     *)
(*   "job"       /x: or /y: with registry, repository, tag and port        *)
(*   "badjob"    /x: or /y: with something else                            *)
(*   "badenv"    a job with an environment definition that has no "="      *)
(*   "monitor"   /monitor:broker...                                        *)
(*   "page"      any other                                                 *)
(***************************************************************************)
EXTENDS Naturals, Sequences

Paths == {"docker", "host", "nohost", "job", "badjob", "badenv", "monitor", "page"}

\* rest is the path after a job's element, referer the path of a Referer header
\* that names the same host, or "none".
Requests ==
    [path : Paths \ {"job"}, rest : {"page"}, referer : {"none", "page", "job", "badjob", "badenv"}]
      \cup [path : {"job"}, rest : {"page", "monitor"}, referer : {"none", "job"}]

\* The answer of a resolver: a target, "none", "error", or that it panics.
IsTarget(answer) == answer \notin {"none", "error", "panic"}

DockerResolver(q) == IF q.path = "docker" THEN "docker" ELSE "error"

\* Mutant: the host is not looked at.
HostResolverAny(q) == IF q.path \in {"host", "nohost"} THEN "host" ELSE "none"

HostResolver(q) == IF q.path = "host" THEN "host" ELSE "none"

\* The path that says what the broker is asked for: a request without a job in
\* its own path, such as one a page of the container makes, has it in its Referer.
JobPath(q) == IF q.path \in {"job", "badjob", "badenv"} THEN q.path ELSE q.referer

AsksBroker(q) == JobPath(q) = "job"

\* The definitions that have no "=" are found before the broker is asked.
BrokerResolver(q, granted) ==
    CASE AsksBroker(q) -> IF granted THEN "slot" ELSE "error"
      [] JobPath(q) = "badjob" -> "error"
      [] JobPath(q) = "badenv" -> "panic"
      [] OTHER -> "none"

\* The broker's resolver has taken the job's element off the path of the request
\* the next resolvers look at, also when the job was refused.
MonitorResolver(q) ==
    LET path == IF q.path = "job" THEN q.rest ELSE q.path
    IN IF path = "monitor" THEN "monitor" ELSE "none"

\* hasRoot: the -root option is given.
RootResolver(q, hasRoot) == IF hasRoot THEN "root" ELSE "none"

Chain(q, granted, hasRoot) ==
    <<DockerResolver(q), HostResolver(q), BrokerResolver(q, granted),
      MonitorResolver(q), RootResolver(q, hasRoot)>>

\* The broker's resolver is reached when the resolvers before it have no target.
PassedOn(q) == ~IsTarget(DockerResolver(q)) /\ ~IsTarget(HostResolver(q))

ReachesBroker(q) == AsksBroker(q) /\ PassedOn(q)

\* The panic of a resolver is not recovered from: there is no target, nor a program.
EndsProgram(q) == JobPath(q) = "badenv" /\ PassedOn(q)

\* The first target wins; an error is for the next resolver to make good.
Resolve(q, granted, hasRoot) ==
    LET answers == Chain(q, granted, hasRoot)
        found == {i \in DOMAIN answers : IsTarget(answers[i])}
    IN IF found = {} THEN "none"
       ELSE answers[CHOOSE i \in found : \A j \in found : i <= j]

Targets == {"docker", "host", "slot", "monitor", "root"}

\* The targets that have the client's connection wrapped.
Wrapped == Targets \ {"monitor"}

\* WrapProxyConnection: the request, parsed again from its bytes, can be rewritten
\* for the target.
Rewrites(target, q) ==
    CASE target = "docker" -> q.path = "docker"
      [] target = "host" -> q.path = "host"
      [] target = "slot" -> q.path \notin {"badjob", "badenv"}
      [] target = "root" -> TRUE
=============================================================================
