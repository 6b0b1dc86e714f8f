--------------------------- MODULE ConciergeConfig ---------------------------
(***************************************************************************)
(* The Concierge's static configuration loader, FromPath in                *)
(* internal/config/concierge/config.go.  It reads a file, decodes the      *)
(* YAML, fills in defaults for omitted fields, runs the validations in     *)
(* order and returns the first error, else the config.  The model runs     *)
(* FromPath step by step on one file chosen from Files; pc names the next  *)
(* step and err the error returned (None while there is none).             *)
(*                                                                         *)
(* A file is abstracted to the fields FromPath looks at.  Nil stands for   *)
(* an omitted optional field (a nil pointer after decoding).               *)
(***************************************************************************)
EXTENDS Integers

CONSTANTS
    Files,          \* the configuration files FromPath may be given
    Nil,            \* an omitted field
    None,           \* no error
    ValidSuffixes,  \* the API group suffixes groupsuffix.Validate accepts
    DefaultSuffix,  \* groupsuffix.PinnipedDefaultSuffix
    ValidLogLevels  \* the log levels plog accepts

\* The names NamesConfigSpec must give (validateNames).
RequiredNames == {"servingCertificateSecret", "credentialIssuer",
                  "apiService", "impersonationLoadBalancerService",
                  "impersonationClusterIPService",
                  "impersonationTLSCertificateSecret",
                  "impersonationCACertificateSecret",
                  "impersonationSignerSecret", "agentServiceAccount"}

aboutAYear == 60 * 60 * 24 * 365
about9Months == 60 * 60 * 24 * 30 * 9
aggregatedAPIServerPortDefault == 10250
impersonationProxyPortDefault == 8444

\* What the decoder can produce: the Config struct's int64 and string
\* pointers are an integer or a string, or Nil when the field is omitted;
\* the names are strings; the labels map is a value other than Nil.
FileRecords ==
    [readOK : BOOLEAN, yamlOK : BOOLEAN,
     duration : Int \cup {Nil}, renew : Int \cup {Nil},
     aggPort : Int \cup {Nil}, impPort : Int \cup {Nil},
     suffix : STRING \cup {Nil}, names : SUBSET STRING, logLevel : STRING,
     labels : STRING \cup {Nil}, agentPrefix : STRING \cup {Nil},
     agentImage : STRING \cup {Nil}]

\* The errors FromPath returns, one per step that can fail.
Errors == {"read file", "decode yaml", "validate api",
           "validate apiGroupSuffix", "validate aggregatedAPIServerPort",
           "validate impersonationProxyServerPort", "validate names",
           "validate log level"}

ASSUME ConciergeConfigAssumption ==
    /\ Nil \notin Int \cup STRING
    /\ Nil \notin {DefaultSuffix, "pinniped-kube-cert-agent-", "debian:latest",
                   "empty"}
    /\ None # Nil
    /\ None \notin Errors
    /\ DefaultSuffix \in ValidSuffixes
    /\ ValidSuffixes \subseteq STRING
    /\ ValidLogLevels \subseteq STRING
    /\ Files \subseteq FileRecords

\* The fields of a decoded Config, each Nil when the file omits it:
\* the serving certificate's durationSeconds and renewBeforeSeconds, the two
\* server ports, the API group suffix, the names given, the log level, the
\* labels and the kube cert agent's name prefix and image.  readOK and
\* yamlOK say whether ReadFile and yaml.Unmarshal succeed.
VARIABLES
    file,      \* the file FromPath was given
    cfg,       \* the Config being built
    pc,        \* the next step of FromPath
    err,       \* the error returned, None if none
    logLevel   \* the process-wide log level plog holds

vars == <<file, cfg, pc, err, logLevel>>

-----------------------------------------------------------------------------
(* The defaulting helpers, each on the field it sets.                      *)

\* Mutant: the two defaults exchanged.
maybeSetAPIDefaults_swapped(c) ==
    [c EXCEPT !.duration = IF @ = Nil THEN about9Months ELSE @,
              !.renew = IF @ = Nil THEN aboutAYear ELSE @]

maybeSetAPIDefaults(c) ==
    [c EXCEPT !.duration = IF @ = Nil THEN aboutAYear ELSE @,
              !.renew = IF @ = Nil THEN about9Months ELSE @]

maybeSetPortDefault(p, default) == IF p = Nil THEN default ELSE p

maybeSetAPIGroupSuffixDefault(s) == IF s = Nil THEN DefaultSuffix ELSE s

maybeSetKubeCertAgentDefaults(c) ==
    [c EXCEPT !.agentPrefix = IF @ = Nil THEN "pinniped-kube-cert-agent-"
                              ELSE @,
              !.agentImage = IF @ = Nil THEN "debian:latest" ELSE @]

\* The defaults FromPath applies, in its order.
WithDefaults(c) ==
    maybeSetKubeCertAgentDefaults(
        [maybeSetAPIDefaults(c) EXCEPT
            !.aggPort = maybeSetPortDefault(@, aggregatedAPIServerPortDefault),
            !.impPort = maybeSetPortDefault(@, impersonationProxyPortDefault),
            !.suffix = maybeSetAPIGroupSuffixDefault(@)])

(* The validators; each is TRUE when the check passes.                     *)

validateAPI(c) == c.duration >= c.renew /\ c.renew > 0

validateAPIGroupSuffix(s) == s \in ValidSuffixes

\* Mutant: the upper bound of the port range excluded.
validateServerPort_openTop(port) == port >= 1024 /\ port < 65535
\* It cannot be below 1024 because the container is not running as root.
validateServerPort(port) == port >= 1024 /\ port <= 65535

validateNames(names) == RequiredNames \subseteq names

-----------------------------------------------------------------------------
Init ==
    /\ file \in Files
    /\ cfg = file
    /\ pc = "read"
    /\ err = None
    /\ logLevel \in ValidLogLevels

\* A step that ends FromPath with error e.
Fail(e) == /\ err' = e /\ pc' = "done" /\ UNCHANGED <<file, cfg, logLevel>>

\* A step that passes on to step next.
Pass(next) == /\ pc' = next /\ UNCHANGED <<file, cfg, err, logLevel>>

ReadFile ==
    /\ pc = "read"
    /\ IF file.readOK THEN Pass("decode") ELSE Fail("read file")

DecodeYAML ==
    /\ pc = "decode"
    /\ IF file.yamlOK THEN Pass("defaults") ELSE Fail("decode yaml")

SetDefaults ==
    /\ pc = "defaults"
    /\ cfg' = WithDefaults(cfg)
    /\ pc' = "api"
    /\ UNCHANGED <<file, err, logLevel>>

\* Mutant: the log level is installed right after the API check, before the
\* suffix, port and name validations.
Validate_levelEarly ==
    \/ /\ pc = "api"
       /\ IF validateAPI(cfg)
          THEN /\ pc' = "suffix"
               /\ logLevel' = IF cfg.logLevel \in ValidLogLevels
                              THEN cfg.logLevel ELSE logLevel
               /\ UNCHANGED <<file, cfg, err>>
          ELSE Fail("validate api")
    \/ /\ pc = "suffix"
       /\ IF validateAPIGroupSuffix(cfg.suffix) THEN Pass("aggPort")
          ELSE Fail("validate apiGroupSuffix")
    \/ /\ pc = "aggPort"
       /\ IF validateServerPort(cfg.aggPort) THEN Pass("impPort")
          ELSE Fail("validate aggregatedAPIServerPort")
    \/ /\ pc = "impPort"
       /\ IF validateServerPort(cfg.impPort) THEN Pass("names")
          ELSE Fail("validate impersonationProxyServerPort")
    \/ /\ pc = "names"
       /\ IF validateNames(cfg.names) THEN Pass("logLevel")
          ELSE Fail("validate names")

\* The validations in FromPath's order: the first that fails ends it.
Validate ==
    \/ /\ pc = "api"
       /\ IF validateAPI(cfg) THEN Pass("suffix") ELSE Fail("validate api")
    \/ /\ pc = "suffix"
       /\ IF validateAPIGroupSuffix(cfg.suffix) THEN Pass("aggPort")
          ELSE Fail("validate apiGroupSuffix")
    \/ /\ pc = "aggPort"
       /\ IF validateServerPort(cfg.aggPort) THEN Pass("impPort")
          ELSE Fail("validate aggregatedAPIServerPort")
    \/ /\ pc = "impPort"
       /\ IF validateServerPort(cfg.impPort) THEN Pass("names")
          ELSE Fail("validate impersonationProxyServerPort")
    \/ /\ pc = "names"
       /\ IF validateNames(cfg.names) THEN Pass("logLevel")
          ELSE Fail("validate names")

\* Mutant: omitted labels stay nil.
withLabelDefault_missing(l) == l
\* FromPath's last step: omitted labels become an empty map.
withLabelDefault(l) == IF l = Nil THEN "empty" ELSE l

\* plog.ValidateAndSetLogLevelGlobally sets the process-wide level when the
\* level is valid; then FromPath makes empty labels of omitted ones.
ValidateAndSetLogLevel ==
    /\ pc = "logLevel"
    /\ IF cfg.logLevel \in ValidLogLevels
       THEN /\ logLevel' = cfg.logLevel
            /\ cfg' = [cfg EXCEPT !.labels = withLabelDefault(@)]
            /\ pc' = "done"
            /\ UNCHANGED <<file, err>>
       ELSE Fail("validate log level")

\* After pc = "done" FromPath has returned: nothing is enabled.
Next == ReadFile \/ DecodeYAML \/ SetDefaults \/ Validate
        \/ ValidateAndSetLogLevel

Spec == Init /\ [][Next]_vars

-----------------------------------------------------------------------------
(* Properties.                                                             *)

Pcs == {"read", "decode", "defaults", "api", "suffix", "aggPort", "impPort",
        "names", "logLevel", "done"}

\* The loader's variables have their types, and a Config FromPath returns
\* without error has no nil field left: callers dereference the pointers
\* (*config.APIGroupSuffix, ...) and range over the labels.
TypeOK ==
    /\ file \in Files
    /\ pc \in Pcs
    /\ logLevel \in ValidLogLevels
    /\ (pc = "done" /\ err = None) =>
          \A f \in {"duration", "renew", "aggPort", "impPort", "suffix",
                    "agentPrefix", "agentImage", "labels"} : cfg[f] # Nil

\* The TCP ports a process that does not run as root may listen on.
UnprivilegedPorts == 1024..65535

\* The value the reference gives an omitted field.
Given(x, default) == IF x = Nil THEN default ELSE x

\* The reference: a file is accepted exactly when it can be read and
\* decoded and, with the documented defaults for omitted fields, the
\* serving certificate renews within its lifetime and after a positive
\* time, both ports are unprivileged TCP ports, the suffix is valid, every
\* required name is given and the log level is known.
Acceptable(f) ==
    LET duration == Given(f.duration, aboutAYear)
        renew == Given(f.renew, about9Months)
    IN /\ f.readOK /\ f.yamlOK
       /\ 0 < renew /\ renew <= duration
       /\ Given(f.aggPort, aggregatedAPIServerPortDefault) \in UnprivilegedPorts
       /\ Given(f.impPort, impersonationProxyPortDefault) \in UnprivilegedPorts
       /\ Given(f.suffix, DefaultSuffix) \in ValidSuffixes
       /\ RequiredNames \subseteq f.names
       /\ f.logLevel \in ValidLogLevels

\* FromPath agrees with the reference on every file: it returns without
\* error exactly for the acceptable files, keeps every field the file
\* gives, and sets the global log level only for a file it accepts.
MatchesReference ==
    pc = "done" =>
        /\ (err = None) <=> Acceptable(file)
        /\ err = None =>
              /\ \A f \in DOMAIN file : file[f] # Nil => cfg[f] = file[f]
              /\ logLevel = file.logLevel

\* The defaults validate: a readable file that gives only the required
\* names and a known log level is accepted.  It checks the default
\* constants against validateAPI and validateServerPort.
DefaultsAccepted ==
    LET minimal == /\ file.readOK /\ file.yamlOK
                   /\ \A f \in {"duration", "renew", "aggPort", "impPort",
                                 "suffix"} : file[f] = Nil
                   /\ RequiredNames \subseteq file.names
                   /\ file.logLevel \in ValidLogLevels
    IN (pc = "done" /\ minimal) => err = None

\* FromPath changes the process-wide log level only in the step that returns
\* the Config without error: a file rejected by a validation that precedes
\* plog.ValidateAndSetLogLevelGlobally (config.go line 80), or by that call
\* itself, leaves the level the process had.  The call is the last check, so
\* no file is rejected after the level has been set.
LogLevelSetOnlyOnSuccess ==
    [][logLevel' # logLevel =>
         pc' = "done" /\ err' = None /\ Acceptable(file')]_vars

==============================================================================
