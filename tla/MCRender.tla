------------------------------- MODULE MCRender -------------------------------
(* An application of two containers of its own and a store, with arguments  *)
(* chosen so that every call succeeds and fails, and conflicts with another.*)
EXTENDS Renderer

MCContainer    == {"app", "web", "db", "db_upgrade", "perms"}
MCTemplateName == {"app", "web", ""}
MCUpgradeName  == [n \in {"db"} |-> "db_upgrade"]
MCImage        == {"image", "missing"}
MCProfile      == {"", "low", "unknown"}

\* One family of calls at a time, and those pairs where one family meets
\* what another one left behind.
MCKinds ==
    {{k} : k \in {"ports", "net", "mounts", "settings", "devices", "environment",
                  "health", "entries"}}
    \cup {{"perms", "stores"}, {"settings", "net"}, {"notes", "health"}}

-----------------------------------------------------------------------------
\* One IPv4 address, one of IPv6 in two spellings, and the wildcards.
MCHostIp == {"0.0.0.0", "::", "0::0", "10.0.0.2", "fd00::2", "fd00:0::2"}
MCParse ==
    [ip \in MCHostIp |->
        CASE ip = "0.0.0.0" -> AnyOf(4)
          [] ip \in {"::", "0::0"} -> AnyOf(6)
          [] ip = "10.0.0.2" -> [family |-> 4, host |-> ip]
          [] OTHER -> [family |-> 6, host |-> "fd00::2"]]
Specific == "10.0.0.2"
Port(bind, mode, published, target, proto, ips) ==
    [bind |-> bind, mode |-> mode, published |-> published, target |-> target,
     proto |-> proto, ips |-> ips]

MCPortCall ==
    {Port("published", "ingress", 80, 0, "tcp", <<>>),
     Port("published", "host", 80, 8080, "tcp", <<"::">>),
     Port("published", "ingress", 80, 8080, "tcp", <<"0.0.0.0">>),
     Port("published", "ingress", 80, 8080, "tcp", <<Specific>>),
     Port("published", "ingress", 80, 8080, "tcp", <<"0::0">>),
     Port("published", "ingress", 80, 0, "tcp", <<"fd00::2">>),
     Port("published", "ingress", 80, 0, "tcp", <<"fd00:0::2">>),
     Port("published", "ingress", 80, 0, "tcp", <<Specific, "localhost">>),
     Port("published", "ingress", 53, 53, "udp", <<Specific>>),
     Port("published", "ingress", 0, 0, "tcp", <<>>),
     Port("published", "weird", 80, 0, "tcp", <<>>),
     Port("unknown", "ingress", 80, 0, "tcp", <<>>),
     Port("exposed", "ingress", 80, 0, "tcp", <<>>),
     Port("exposed", "ingress", 80, 0, "sctp", <<>>),
     Port("", "ingress", 80, 0, "tcp", <<>>)}

MCPortalCall ==
    {[name |-> n, valid |-> TRUE, host |-> NoIp, port |-> 0,
      of |-> Port("published", "ingress", 80, 0, "tcp", <<"::", Specific>>)] : n \in {"Web UI", "Admin"}}
    \cup {[name |-> "Web UI", valid |-> TRUE, host |-> NoIp, port |-> 0,
           of |-> Port("exposed", "ingress", 80, 0, "tcp", <<>>)]}

-----------------------------------------------------------------------------
Join(valid, ipv4, aliases) ==
    [valid |-> valid, interface |-> None, mac |-> None, ipv4 |-> ipv4, ipv6 |-> None,
     gw_priority |-> None, priority |-> None, aliases |-> aliases]

MCNetName    == {"lan", "iot"}
MCJoinConfig == {Join(TRUE, None, <<>>), Join(TRUE, "10.0.0.9", <<"a">>),
                 Join(FALSE, "bad", <<"a", "b">>), Join(TRUE, None, <<"b", "b">>)}

-----------------------------------------------------------------------------
Options == [complete |-> TRUE, keys |-> <<>>]
Storage(type, source, readOnly, opt) ==
    [type |-> type, source |-> source, readOnly |-> readOnly, autoPerms |-> TRUE,
     acl |-> FALSE, opt |-> opt]

MCStorageConfig ==
    {Storage("host_path", "/dev", FALSE, Options),
     Storage("host_path", "/root", FALSE, Options),
     Storage("host_path", "/mnt/pool", FALSE, Options),
     Storage("volume", "/dev", FALSE, Options),
     Storage("volume", "cache", FALSE, Options),
     Storage("ix_volume", "config", TRUE, Options),
     Storage("temporary", "cache", TRUE, Options),
     Storage("anonymous", "", FALSE, Options),
     Storage("nfs", "", FALSE, [complete |-> TRUE, keys |-> <<"vers">>]),
     Storage("cifs", "", FALSE, [complete |-> TRUE, keys |-> <<"user">>]),
     Storage("tmpfs", "", FALSE, Options),
     Storage("tmpfs", "", FALSE, [complete |-> FALSE, keys |-> <<>>]),
     Storage("unknown", "", FALSE, Options)}

MCSystemPath == {"/dev/a"}
MCMountPath  == {"/data", "/run/udev", "/"}
MCConfigName == {"crontasks"}
MCConfigData == {<<"text", "">>, <<"text", "tasks">>, <<"text", "other">>}
MCAllowed    == {"/dev", "/run/udev", "/var/run/docker.sock", "/mnt/pool"}

-----------------------------------------------------------------------------
Choice(field, value) == [field |-> field, value |-> value, retries |-> 0]

MCSetting ==
    {Choice("user", 1000), Choice("grace", 90), Choice("tty", TRUE),
     Choice("privileged", TRUE), Choice("ipc", "host"), Choice("ipc", "web"),
     Choice("pid", "host"), Choice("cgroup", "host"), Choice("profile", "none"),
     [field |-> "restart", value |-> "always", retries |-> 2]}

MCGroupCall == {[id |-> 44, text |-> FALSE], [id |-> 100, text |-> TRUE]}
MCDeviceCall ==
    {[host |-> "/dev/a", path |-> "/dev/a", slash |-> slash, valid |-> TRUE] : slash \in BOOLEAN}
    \cup {[host |-> source, path |-> "/dev/b", slash |-> FALSE, valid |-> TRUE] :
             source \in {"/dev/dri", "/mnt/pool"}}

MCEntryCall ==
    {Entry("cap", "CHOWN", "known"), Entry("cap", "X", "unknown"),
     Entry("label", "tier", "x"), Entry("label", "com.docker.compose", "x"),
     Entry("sysctl", "net.a", "net"), Entry("sysctl", "", "net"),
     Entry("security_opt", "no-new-privileges", "false"), Entry("security_opt", "seccomp", "x"),
     Entry("extra_host", "h", "1"), Entry("extra_host", "h", "unknown"),
     Entry("dns_opt", "ndots", "1"), Entry("dns_search", "x.y", "x.y"),
     Entry("dns_nameserver", "1.1.1.1", "1.1.1.1"),
     Entry("cgroup_rule", "c_1_2", "rw"), Entry("cgroup_rule", "c_1_2", "r")}

MCVarName    == {"TZ", "REDIS_PASSWORD", ""}
MCHealthCall == {[port |-> "default", valid |-> TRUE], [port |-> "none", valid |-> FALSE]}

-----------------------------------------------------------------------------
MCActionCall ==
    {[text |-> "data", valid |-> TRUE, uid |-> 568, cfg |-> Storage("volume", "data", FALSE, Options)],
     [text |-> "cache", valid |-> TRUE, uid |-> 568, cfg |-> Storage("temporary", "cache", TRUE, Options)],
     [text |-> "data", valid |-> TRUE, uid |-> -1, cfg |-> Storage("ix_volume", "config", FALSE, Options)]}

Make(kind, image, cfg, port) ==
    [name |-> "db", kind |-> kind, image |-> image, cfg |-> cfg, port |-> port, complete |-> TRUE]

Data == Storage("ix_volume", "config", FALSE, Options)

MCStoreCall ==
    {Make(kind, kind, Data, "custom") :
        kind \in {"redis", "mariadb", "mongodb", "elastic", "meili", "solr", "memcached",
                  "tika", "guacd", "cron", "postgres"}}
    \cup {Make("redis", "redis", Storage("tmpfs", "", FALSE, Options), "default"),
          Make("redis", "postgres", Data, "default"),
          Make("redis", "redis", Data, "invalid"),
          Make("postgres", "timescale", Storage("volume", "data", FALSE, Options), "default"),
          Make("postgres", "postgres19", Data, "default")}

-----------------------------------------------------------------------------
Images ==
    [i \in {"image", "container_utils_image", "postgres_upgrade_image", "redis", "mariadb",
            "mongodb", "elastic", "meili", "solr", "memcached", "tika", "guacd", "cron",
            "postgres", "timescale", "postgres19"} |->
        [repo |-> IF i = "postgres19" THEN "postgres" ELSE i,
         major |-> IF i = "postgres19" THEN 19 ELSE 17]]

Plain ==
    [gpu |-> "none", runAs |-> 0, skipGeneric |-> TRUE, labels |-> {}, dns |-> {},
     nets |-> <<>>, hostNetwork |-> FALSE, images |-> Images,
     datasets |-> [d \in {"config"} |-> "/mnt/.ix-apps/config"]]

Lan(members) == <<[net |-> "lan", members |-> members]>>

MCValues ==
    {Plain,
     [Plain EXCEPT !.gpu = "kfd", !.runAs = 1000, !.skipGeneric = FALSE,
         !.labels = {[key |-> "tier", on |-> {"app"}]},
         !.dns = {Entry("dns_opt", "ndots", "2")},
         !.nets = Lan({[container |-> "app", cfg |-> Join(TRUE, None, <<"a">>)]})],
     [Plain EXCEPT !.gpu = "nvidia", !.hostNetwork = TRUE],
     [Plain EXCEPT !.gpu = "no_uuid"],
     [Plain EXCEPT !.labels = {[key |-> "tier", on |-> {"ghost"}]}],
     [Plain EXCEPT !.nets = Lan({}) \o Lan({})]}

Taken(ip, port, by) == [ip |-> ip, port |-> port, by |-> by]
Host(docker, api) ==
    [docker |-> docker, api |-> api,
     taken |-> {Taken(Specific, 53, "WebUI"), Taken("0.0.0.0", 80, "self")},
     networks |-> {External("lan")}]

MCHost == {Host(TRUE, "validate_ports"), Host(FALSE, "none")}
=============================================================================
