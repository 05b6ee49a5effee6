------------------------------ MODULE MCProxyAccess ------------------------------
(* An instance of ProxyAccess. *)
EXTENDS ProxyAccess

CONSTANTS c1, c2, a, b

Config(mode, host, daemon, path, serial) ==
  [mode |-> mode, host |-> host, daemon |-> daemon, path |-> path, serial |-> serial]

MCCalls == {c1, c2}
MCHosts == {a, b}

MCRequests ==
  { Config("ssh", a, FALSE, FALSE, FALSE), Config("ssh", a, TRUE, FALSE, FALSE),
    Config("ssh", b, FALSE, TRUE, TRUE),
    Config("auto-ssh-remote", a, FALSE, FALSE, FALSE),
    Config("auto-ssh-remote", Here, FALSE, FALSE, TRUE),
    Config("auto-wsl-nat", Here, FALSE, FALSE, FALSE),
    Config("override", Here, FALSE, FALSE, TRUE),
    Config("auto-local", Here, FALSE, FALSE, FALSE),
    Config("local", Here, FALSE, FALSE, TRUE) }
=============================================================================
