------------------------ MODULE ConciergeConfigProofs ------------------------
(***************************************************************************)
(* Proofs that FromPath, as ConciergeConfig models it, agrees with the     *)
(* reference Acceptable on every file the decoder can produce, returns no *)
(* Config with a nil field, and accepts a file that relies on every       *)
(* default: for every set of files, suffixes and log levels, not only the *)
(* boundary values the run enumerates.                                     *)
(***************************************************************************)
EXTENDS ConciergeConfig, TLAPS

\* The Config after FromPath's defaulting calls, and the one it returns.
Defaulted == WithDefaults(file)
Returned == [Defaulted EXCEPT !.labels = withLabelDefault(@)]

AfterDefaults == {"api", "suffix", "aggPort", "impPort", "names", "logLevel"}

\* The inductive invariant: what FromPath has established when it reaches
\* each step.  Before the defaults the Config is the decoded file; after
\* them it is the defaulted file; every validation before pc has passed;
\* once FromPath returns, it returned an error exactly for the files the
\* reference rejects, and otherwise the defaulted file with the labels set
\* and the file's log level installed.
IInv ==
    /\ file \in Files
    /\ pc \in Pcs
    /\ logLevel \in ValidLogLevels
    /\ err \in Errors \cup {None}
    /\ pc \in {"read", "decode", "defaults"} => cfg = file /\ err = None
    /\ pc \in {"decode", "defaults"} => file.readOK
    /\ pc = "defaults" => file.yamlOK
    /\ pc \in AfterDefaults =>
          /\ cfg = Defaulted /\ err = None /\ file.readOK /\ file.yamlOK
    /\ pc \in AfterDefaults \ {"api"} => validateAPI(Defaulted)
    /\ pc \in {"aggPort", "impPort", "names", "logLevel"} =>
          validateAPIGroupSuffix(Defaulted.suffix)
    /\ pc \in {"impPort", "names", "logLevel"} =>
          validateServerPort(Defaulted.aggPort)
    /\ pc \in {"names", "logLevel"} => validateServerPort(Defaulted.impPort)
    /\ pc = "logLevel" => validateNames(Defaulted.names)
    /\ pc = "done" => ((err = None) <=> Acceptable(file))
    /\ (pc = "done" /\ err = None) =>
          cfg = Returned /\ logLevel = file.logLevel

-----------------------------------------------------------------------------
(* What the defaulting helpers compute.                                    *)

\* WithDefaults replaces each omitted defaulted field by its default and
\* leaves every other field as decoded.
LEMMA WithDefaultsValue ==
    ASSUME NEW f \in FileRecords
    PROVE  WithDefaults(f) =
             [f EXCEPT !.duration = Given(f.duration, aboutAYear),
                       !.renew = Given(f.renew, about9Months),
                       !.aggPort = Given(f.aggPort,
                                         aggregatedAPIServerPortDefault),
                       !.impPort = Given(f.impPort,
                                         impersonationProxyPortDefault),
                       !.suffix = Given(f.suffix, DefaultSuffix),
                       !.agentPrefix = Given(f.agentPrefix,
                                             "pinniped-kube-cert-agent-"),
                       !.agentImage = Given(f.agentImage, "debian:latest")]
BY DEF WithDefaults, maybeSetAPIDefaults, maybeSetPortDefault,
       maybeSetAPIGroupSuffixDefault, maybeSetKubeCertAgentDefaults, Given,
       FileRecords

\* A port is unprivileged exactly when it lies between 1024 and 65535.
LEMMA PortsMembership ==
    ASSUME NEW x \in Int
    PROVE  (1024 <= x /\ x <= 65535) <=> x \in UnprivilegedPorts
BY SMTT(60) DEF UnprivilegedPorts

\* The validations FromPath runs on the defaulted file, in its order, hold
\* together exactly when the reference accepts the file.
LEMMA ValidationsMeanAcceptable ==
    ASSUME NEW f \in FileRecords
    PROVE  Acceptable(f) <=>
             /\ f.readOK /\ f.yamlOK
             /\ validateAPI(WithDefaults(f))
             /\ validateAPIGroupSuffix(WithDefaults(f).suffix)
             /\ validateServerPort(WithDefaults(f).aggPort)
             /\ validateServerPort(WithDefaults(f).impPort)
             /\ validateNames(WithDefaults(f).names)
             /\ WithDefaults(f).logLevel \in ValidLogLevels
<1>1. /\ WithDefaults(f).duration = Given(f.duration, aboutAYear)
      /\ WithDefaults(f).renew = Given(f.renew, about9Months)
      /\ WithDefaults(f).aggPort = Given(f.aggPort,
                                        aggregatedAPIServerPortDefault)
      /\ WithDefaults(f).impPort = Given(f.impPort,
                                        impersonationProxyPortDefault)
      /\ WithDefaults(f).suffix = Given(f.suffix, DefaultSuffix)
      /\ WithDefaults(f).names = f.names
      /\ WithDefaults(f).logLevel = f.logLevel
  BY WithDefaultsValue DEF FileRecords
<1>2. /\ Given(f.duration, aboutAYear) \in Int
      /\ Given(f.renew, about9Months) \in Int
      /\ Given(f.aggPort, aggregatedAPIServerPortDefault) \in Int
      /\ Given(f.impPort, impersonationProxyPortDefault) \in Int
  BY DEF Given, FileRecords, aboutAYear, about9Months,
         aggregatedAPIServerPortDefault, impersonationProxyPortDefault
<1>3. f.readOK \in BOOLEAN /\ f.yamlOK \in BOOLEAN
  BY DEF FileRecords
<1>4. validateAPI(WithDefaults(f)) <=>
        /\ 0 < Given(f.renew, about9Months)
        /\ Given(f.renew, about9Months) <= Given(f.duration, aboutAYear)
  BY <1>1, <1>2 DEF validateAPI
<1>5. validateServerPort(WithDefaults(f).aggPort) <=>
        Given(f.aggPort, aggregatedAPIServerPortDefault) \in UnprivilegedPorts
  <2> DEFINE p == WithDefaults(f).aggPort
  <2>1. p \in Int
    BY <1>1, <1>2
  <2>2. (1024 <= p /\ p <= 65535) <=> p \in UnprivilegedPorts
    BY <2>1, PortsMembership
  <2>3. validateServerPort(p) <=> (1024 <= p /\ p <= 65535)
    BY DEF validateServerPort
  <2>. QED
    BY <2>2, <2>3, <1>1
<1>7. validateServerPort(WithDefaults(f).impPort) <=>
        Given(f.impPort, impersonationProxyPortDefault) \in UnprivilegedPorts
  <2> DEFINE p == WithDefaults(f).impPort
  <2>1. p \in Int
    BY <1>1, <1>2
  <2>2. (1024 <= p /\ p <= 65535) <=> p \in UnprivilegedPorts
    BY <2>1, PortsMembership
  <2>3. validateServerPort(p) <=> (1024 <= p /\ p <= 65535)
    BY DEF validateServerPort
  <2>. QED
    BY <2>2, <2>3, <1>1
<1>6. /\ validateAPIGroupSuffix(WithDefaults(f).suffix) <=>
           Given(f.suffix, DefaultSuffix) \in ValidSuffixes
      /\ validateNames(WithDefaults(f).names) <=> RequiredNames \subseteq f.names
      /\ WithDefaults(f).logLevel = f.logLevel
  BY <1>1 DEF validateAPIGroupSuffix, validateNames
<1>. QED
  BY <1>3, <1>4, <1>5, <1>6, <1>7 DEF Acceptable

\* The fields FromPath defaults, which the returned Config always sets.
DefaultedFields == {"duration", "renew", "aggPort", "impPort", "suffix",
                    "agentPrefix", "agentImage", "labels"}

\* The Config FromPath returns has no nil field.
LEMMA ReturnedHasNoNil ==
    ASSUME NEW f \in FileRecords
    PROVE  \A g \in DefaultedFields :
              [WithDefaults(f) EXCEPT !.labels = withLabelDefault(@)][g] # Nil
<1> DEFINE w == WithDefaults(f)
<1> DEFINE r == [w EXCEPT !.labels = withLabelDefault(@)]
<1>1. /\ Nil \notin Int
      /\ Nil \notin {DefaultSuffix, "pinniped-kube-cert-agent-",
                     "debian:latest", "empty"}
  BY ConciergeConfigAssumption
<1>2. /\ w.duration = Given(f.duration, aboutAYear)
      /\ w.renew = Given(f.renew, about9Months)
      /\ w.aggPort = Given(f.aggPort, aggregatedAPIServerPortDefault)
      /\ w.impPort = Given(f.impPort, impersonationProxyPortDefault)
      /\ w.suffix = Given(f.suffix, DefaultSuffix)
      /\ w.agentPrefix = Given(f.agentPrefix, "pinniped-kube-cert-agent-")
      /\ w.agentImage = Given(f.agentImage, "debian:latest")
      /\ w.labels = f.labels
      /\ DOMAIN w = DOMAIN f
  BY WithDefaultsValue DEF FileRecords
<1>3. /\ f.duration \in Int \cup {Nil} /\ f.renew \in Int \cup {Nil}
      /\ f.aggPort \in Int \cup {Nil} /\ f.impPort \in Int \cup {Nil}
  BY DEF FileRecords
<1>6. /\ Given(f.duration, aboutAYear) \in Int
      /\ Given(f.renew, about9Months) \in Int
      /\ Given(f.aggPort, aggregatedAPIServerPortDefault) \in Int
      /\ Given(f.impPort, impersonationProxyPortDefault) \in Int
  BY <1>3 DEF Given, aboutAYear, about9Months,
             aggregatedAPIServerPortDefault, impersonationProxyPortDefault
<1>7. /\ Given(f.suffix, DefaultSuffix) # Nil
      /\ Given(f.agentPrefix, "pinniped-kube-cert-agent-") # Nil
      /\ Given(f.agentImage, "debian:latest") # Nil
  BY <1>1 DEF Given
<1>4. r.labels # Nil
  BY <1>1, <1>2 DEF withLabelDefault, FileRecords
<1>5. \A g \in DefaultedFields \ {"labels"} : r[g] = w[g]
  BY <1>2 DEF DefaultedFields, FileRecords
<1>. QED
  BY <1>1, <1>2, <1>4, <1>5, <1>6, <1>7 DEF DefaultedFields
\* A file FromPath is given is a decoded Config, and the defaulted Config
\* has the file's names and log level.
LEMMA FileFacts ==
    ASSUME IInv
    PROVE  /\ file \in FileRecords
           /\ file.readOK \in BOOLEAN /\ file.yamlOK \in BOOLEAN
           /\ Defaulted.names = file.names
           /\ Defaulted.logLevel = file.logLevel
<1>1. file \in FileRecords
  BY ConciergeConfigAssumption DEF IInv
<1>. QED
  BY <1>1, WithDefaultsValue DEF FileRecords, Defaulted

-----------------------------------------------------------------------------
(* The invariant holds initially and is preserved by every step.           *)

LEMMA InitIInv == Init => IInv
BY ConciergeConfigAssumption DEF Init, IInv, Pcs, AfterDefaults

\* A step that ends FromPath with error e keeps the invariant when the
\* reference rejects the file.
LEMMA FailIInv ==
    ASSUME IInv, NEW e \in Errors, Fail(e), ~Acceptable(file)
    PROVE  IInv'
BY ConciergeConfigAssumption DEF IInv, Fail, Pcs, AfterDefaults, Defaulted

LEMMA ReadFileIInv ==
    ASSUME IInv, ReadFile
    PROVE  IInv'
<1>1. CASE file.readOK
  BY <1>1 DEF ReadFile, Pass, IInv, Pcs, AfterDefaults, Defaulted, Returned
<1>2. CASE ~file.readOK
  <2>1. ~Acceptable(file)
    BY <1>2 DEF Acceptable
  <2>2. Fail("read file")
    BY <1>2 DEF ReadFile
  <2>. QED
    BY <2>1, <2>2, FailIInv DEF Errors
<1>. QED
  BY <1>1, <1>2

LEMMA DecodeYAMLIInv ==
    ASSUME IInv, DecodeYAML
    PROVE  IInv'
<1>1. CASE file.yamlOK
  BY <1>1 DEF DecodeYAML, Pass, IInv, Pcs, AfterDefaults, Defaulted, Returned
<1>2. CASE ~file.yamlOK
  <2>1. ~Acceptable(file)
    BY <1>2 DEF Acceptable
  <2>2. Fail("decode yaml")
    BY <1>2 DEF DecodeYAML
  <2>. QED
    BY <2>1, <2>2, FailIInv DEF Errors
<1>. QED
  BY <1>1, <1>2

LEMMA SetDefaultsIInv ==
    ASSUME IInv, SetDefaults
    PROVE  IInv'
BY DEF SetDefaults, IInv, Pcs, AfterDefaults, Defaulted, Returned
\* Once the defaults are set, the reference accepts the file exactly when
\* every validation holds of the Config.
LEMMA AcceptableAfterDefaults ==
    ASSUME IInv, pc \in AfterDefaults
    PROVE  Acceptable(file) <=>
             /\ validateAPI(cfg)
             /\ validateAPIGroupSuffix(cfg.suffix)
             /\ validateServerPort(cfg.aggPort)
             /\ validateServerPort(cfg.impPort)
             /\ validateNames(cfg.names)
             /\ cfg.logLevel \in ValidLogLevels
<1>1. file \in FileRecords /\ cfg = WithDefaults(file)
      /\ file.readOK /\ file.yamlOK
  BY FileFacts DEF IInv, Defaulted
<1>. QED
  BY <1>1, ValidationsMeanAcceptable

\* Each validation either passes on to the next or fails FromPath, and
\* fails it only for a file the reference rejects.
LEMMA ValidateIInv ==
    ASSUME IInv, Validate
    PROVE  IInv'
<1>0. /\ cfg' = cfg /\ file' = file /\ logLevel' = logLevel
      /\ pc \in AfterDefaults /\ pc' \in Pcs
  BY DEF Validate, Pass, Fail, AfterDefaults, Pcs
<1>1. CASE pc = "api"
  <2>1. CASE validateAPI(cfg)
    <3>1. pc' = "suffix" /\ err' = err
      BY <1>1, <2>1 DEF Validate, Pass
    <3>. QED
      BY <1>0, <1>1, <2>1, <3>1 DEF IInv, AfterDefaults, Defaulted, Returned
  <2>2. CASE ~validateAPI(cfg)
    <3>1. ~Acceptable(file)
      BY <1>0, <1>1, <2>2, AcceptableAfterDefaults
    <3>2. Fail("validate api")
      BY <1>1, <2>2 DEF Validate
    <3>. QED
      BY <3>1, <3>2, FailIInv DEF Errors
  <2>. QED
    BY <2>1, <2>2
<1>2. CASE pc = "suffix"
  <2>1. CASE validateAPIGroupSuffix(cfg.suffix)
    <3>1. pc' = "aggPort" /\ err' = err
      BY <1>2, <2>1 DEF Validate, Pass
    <3>. QED
      BY <1>0, <1>2, <2>1, <3>1 DEF IInv, AfterDefaults, Defaulted, Returned
  <2>2. CASE ~validateAPIGroupSuffix(cfg.suffix)
    <3>1. ~Acceptable(file)
      BY <1>0, <1>2, <2>2, AcceptableAfterDefaults
    <3>2. Fail("validate apiGroupSuffix")
      BY <1>2, <2>2 DEF Validate
    <3>. QED
      BY <3>1, <3>2, FailIInv DEF Errors
  <2>. QED
    BY <2>1, <2>2
<1>3. CASE pc = "aggPort"
  <2>1. CASE validateServerPort(cfg.aggPort)
    <3>1. pc' = "impPort" /\ err' = err
      BY <1>3, <2>1 DEF Validate, Pass
    <3>. QED
      BY <1>0, <1>3, <2>1, <3>1 DEF IInv, AfterDefaults, Defaulted, Returned
  <2>2. CASE ~validateServerPort(cfg.aggPort)
    <3>1. ~Acceptable(file)
      BY <1>0, <1>3, <2>2, AcceptableAfterDefaults
    <3>2. Fail("validate aggregatedAPIServerPort")
      BY <1>3, <2>2 DEF Validate
    <3>. QED
      BY <3>1, <3>2, FailIInv DEF Errors
  <2>. QED
    BY <2>1, <2>2
<1>4. CASE pc = "impPort"
  <2>1. CASE validateServerPort(cfg.impPort)
    <3>1. pc' = "names" /\ err' = err
      BY <1>4, <2>1 DEF Validate, Pass
    <3>. QED
      BY <1>0, <1>4, <2>1, <3>1 DEF IInv, AfterDefaults, Defaulted, Returned
  <2>2. CASE ~validateServerPort(cfg.impPort)
    <3>1. ~Acceptable(file)
      BY <1>0, <1>4, <2>2, AcceptableAfterDefaults
    <3>2. Fail("validate impersonationProxyServerPort")
      BY <1>4, <2>2 DEF Validate
    <3>. QED
      BY <3>1, <3>2, FailIInv DEF Errors
  <2>. QED
    BY <2>1, <2>2
<1>5. CASE pc = "names"
  <2>1. CASE validateNames(cfg.names)
    <3>1. pc' = "logLevel" /\ err' = err
      BY <1>5, <2>1 DEF Validate, Pass
    <3>. QED
      BY <1>0, <1>5, <2>1, <3>1 DEF IInv, AfterDefaults, Defaulted, Returned
  <2>2. CASE ~validateNames(cfg.names)
    <3>1. ~Acceptable(file)
      BY <1>0, <1>5, <2>2, AcceptableAfterDefaults
    <3>2. Fail("validate names")
      BY <1>5, <2>2 DEF Validate
    <3>. QED
      BY <3>1, <3>2, FailIInv DEF Errors
  <2>. QED
    BY <2>1, <2>2
<1>. QED
  BY <1>1, <1>2, <1>3, <1>4, <1>5 DEF Validate

\* The last step installs the file's log level and returns the defaulted
\* Config with the labels set when the level parses, and fails otherwise;
\* either way the result agrees with the reference.
LEMMA ValidateAndSetLogLevelIInv ==
    ASSUME IInv, ValidateAndSetLogLevel
    PROVE  IInv'
<1>0. /\ pc = "logLevel"
      /\ cfg = Defaulted /\ err = None
      /\ validateAPI(cfg) /\ validateAPIGroupSuffix(cfg.suffix)
      /\ validateServerPort(cfg.aggPort) /\ validateServerPort(cfg.impPort)
      /\ validateNames(cfg.names)
  BY DEF ValidateAndSetLogLevel, IInv, AfterDefaults
<1>1. CASE cfg.logLevel \in ValidLogLevels
  <2>1. /\ logLevel' = cfg.logLevel
        /\ cfg' = [cfg EXCEPT !.labels = withLabelDefault(@)]
        /\ pc' = "done" /\ file' = file /\ err' = err
    BY <1>1 DEF ValidateAndSetLogLevel
  <2>2. Acceptable(file)
    BY <1>0, <1>1, AcceptableAfterDefaults DEF AfterDefaults
  <2>3. cfg' = Returned'
    BY <1>0, <2>1 DEF Returned, Defaulted
  <2>4. logLevel' = file.logLevel
    BY <1>0, <2>1, FileFacts
  <2>. QED
    BY <1>0, <1>1, <2>1, <2>2, <2>3, <2>4 DEF IInv, Pcs, AfterDefaults
<1>2. CASE cfg.logLevel \notin ValidLogLevels
  <2>1. ~Acceptable(file)
    BY <1>0, <1>2, AcceptableAfterDefaults DEF AfterDefaults
  <2>2. Fail("validate log level")
    BY <1>2 DEF ValidateAndSetLogLevel
  <2>. QED
    BY <2>1, <2>2, FailIInv DEF Errors
<1>. QED
  BY <1>1, <1>2

\* A step that changes none of the variables keeps the invariant.
LEMMA StutterIInv ==
    ASSUME IInv, UNCHANGED vars
    PROVE  IInv'
BY DEF vars, IInv, Defaulted, Returned

\* Every step of FromPath, and every stutter, keeps the invariant.
LEMMA NextIInv == IInv /\ [Next]_vars => IInv'
BY ReadFileIInv, DecodeYAMLIInv, SetDefaultsIInv, ValidateIInv,
   ValidateAndSetLogLevelIInv, StutterIInv DEF Next

-----------------------------------------------------------------------------
(* What the returned Config keeps, and the file that relies on defaults.   *)

\* The returned Config keeps every field the file gives: defaulting and the
\* label default only fill in omitted fields.
LEMMA ReturnedKeepsGiven ==
    ASSUME NEW f \in FileRecords
    PROVE  \A g \in DOMAIN f :
              f[g] # Nil =>
                [WithDefaults(f) EXCEPT !.labels = withLabelDefault(@)][g]
                  = f[g]
<1> DEFINE w == WithDefaults(f)
<1>1. /\ w.duration = Given(f.duration, aboutAYear)
      /\ w.renew = Given(f.renew, about9Months)
      /\ w.aggPort = Given(f.aggPort, aggregatedAPIServerPortDefault)
      /\ w.impPort = Given(f.impPort, impersonationProxyPortDefault)
      /\ w.suffix = Given(f.suffix, DefaultSuffix)
      /\ w.agentPrefix = Given(f.agentPrefix, "pinniped-kube-cert-agent-")
      /\ w.agentImage = Given(f.agentImage, "debian:latest")
      /\ w.labels = f.labels /\ w.readOK = f.readOK /\ w.yamlOK = f.yamlOK
      /\ w.names = f.names /\ w.logLevel = f.logLevel
      /\ DOMAIN w = DOMAIN f
  BY WithDefaultsValue DEF FileRecords
<1>2. DOMAIN f = {"readOK", "yamlOK", "duration", "renew", "aggPort",
                  "impPort", "suffix", "names", "logLevel", "labels",
                  "agentPrefix", "agentImage"}
  BY DEF FileRecords
<1>. QED
  BY <1>1, <1>2 DEF Given, withLabelDefault

\* A file that is read and decoded, omits every defaulted setting, names
\* the required resources and gives a valid log level is acceptable: the
\* defaults of FromPath pass its own validations.
LEMMA MinimalAcceptable ==
    ASSUME NEW f \in FileRecords, f.readOK, f.yamlOK,
           \A g \in {"duration", "renew", "aggPort", "impPort", "suffix"} :
              f[g] = Nil,
           RequiredNames \subseteq f.names, f.logLevel \in ValidLogLevels
    PROVE  Acceptable(f)
<1>1. /\ Given(f.duration, aboutAYear) = aboutAYear
      /\ Given(f.renew, about9Months) = about9Months
      /\ Given(f.aggPort, aggregatedAPIServerPortDefault) = 10250
      /\ Given(f.impPort, impersonationProxyPortDefault) = 8444
      /\ Given(f.suffix, DefaultSuffix) = DefaultSuffix
  BY DEF Given, aggregatedAPIServerPortDefault, impersonationProxyPortDefault
<1>2. 0 < about9Months /\ about9Months <= aboutAYear
  BY DEF about9Months, aboutAYear
<1>3. 10250 \in UnprivilegedPorts /\ 8444 \in UnprivilegedPorts
  <2>1. (1024 <= 10250 /\ 10250 <= 65535) <=> 10250 \in UnprivilegedPorts
    BY PortsMembership
  <2>2. (1024 <= 8444 /\ 8444 <= 65535) <=> 8444 \in UnprivilegedPorts
    BY PortsMembership
  <2>. QED
    BY <2>1, <2>2
<1>4. DefaultSuffix \in ValidSuffixes
  BY ConciergeConfigAssumption
<1>. QED
  BY <1>1, <1>2, <1>3, <1>4 DEF Acceptable

-----------------------------------------------------------------------------
(* The properties the run checks, for every instance.                      *)

\* Whatever file it is given, FromPath never returns without error a Config
\* with a defaulted field left nil (config.go's defaulting helpers together
\* with the label default of validateAndSetLogLevel).
THEOREM ConciergeConfigTypeCorrect == Spec => []TypeOK
<1>1. IInv => TypeOK
  <2> SUFFICES ASSUME IInv PROVE TypeOK
    OBVIOUS
  <2>1. file \in FileRecords
    BY FileFacts
  <2>2. (pc = "done" /\ err = None) => \A g \in DefaultedFields : cfg[g] # Nil
    BY <2>1, ReturnedHasNoNil DEF IInv, Returned, Defaulted
  <2>. QED
    BY <2>2 DEF IInv, TypeOK, DefaultedFields
<1>. QED
  BY <1>1, InitIInv, NextIInv, PTL DEF Spec

\* FromPath returns without error exactly for the files the reference
\* Acceptable accepts, and then returns every field the file gives unchanged
\* and has installed the file's log level (FromPath's order of defaulting,
\* validations and validateAndSetLogLevel in config.go).
THEOREM MatchesReferenceHolds == Spec => []MatchesReference
<1>1. IInv => MatchesReference
  <2> SUFFICES ASSUME IInv, pc = "done" PROVE MatchesReference
    BY DEF MatchesReference
  <2>1. file \in FileRecords
    BY FileFacts
  <2>2. err = None =>
          \A g \in DOMAIN file : file[g] # Nil => cfg[g] = file[g]
    BY <2>1, ReturnedKeepsGiven DEF IInv, Returned, Defaulted
  <2>. QED
    BY <2>2 DEF IInv, MatchesReference
<1>. QED
  BY <1>1, InitIInv, NextIInv, PTL DEF Spec

\* A file that omits every defaulted setting is accepted: the defaults in
\* config.go pass the validations FromPath runs on them.
THEOREM DefaultsAcceptedHolds == Spec => []DefaultsAccepted
<1>1. IInv => DefaultsAccepted
  <2> SUFFICES ASSUME IInv, pc = "done", file.readOK, file.yamlOK,
                      \A g \in {"duration", "renew", "aggPort", "impPort",
                                "suffix"} : file[g] = Nil,
                      RequiredNames \subseteq file.names,
                      file.logLevel \in ValidLogLevels
               PROVE  err = None
    BY DEF DefaultsAccepted
  <2>1. file \in FileRecords
    BY FileFacts
  <2>2. Acceptable(file)
    BY <2>1, MinimalAcceptable
  <2>. QED
    BY <2>2 DEF IInv
<1>. QED
  BY <1>1, InitIInv, NextIInv, PTL DEF Spec

\* One step of LogLevelSetOnlyOnSuccess.
LogLevelStep ==
    logLevel' # logLevel => pc' = "done" /\ err' = None /\ Acceptable(file')

\* Only the last step of FromPath writes the log level, and only when the
\* level parses, which is then the step that returns the Config.
LEMMA NextLogLevelStep == IInv /\ [Next]_vars => [LogLevelStep]_vars
<1>. SUFFICES ASSUME IInv, [Next]_vars PROVE [LogLevelStep]_vars
  OBVIOUS
<1>1. CASE ReadFile \/ DecodeYAML \/ SetDefaults \/ Validate \/ UNCHANGED vars
  <2>1. logLevel' = logLevel
    BY <1>1 DEF ReadFile, DecodeYAML, SetDefaults, Validate, Pass, Fail, vars
  <2>. QED
    BY <2>1 DEF LogLevelStep
<1>2. CASE ValidateAndSetLogLevel
  <2>1. pc = "logLevel"
    BY <1>2 DEF ValidateAndSetLogLevel
  <2>2. CASE cfg.logLevel \in ValidLogLevels
    <3>1. pc' = "done" /\ err' = err /\ file' = file
      BY <1>2, <2>2 DEF ValidateAndSetLogLevel
    <3>2. err = None
      BY <2>1 DEF IInv, AfterDefaults
    <3>3. /\ validateAPI(cfg) /\ validateAPIGroupSuffix(cfg.suffix)
          /\ validateServerPort(cfg.aggPort) /\ validateServerPort(cfg.impPort)
          /\ validateNames(cfg.names)
      BY <2>1 DEF IInv, AfterDefaults
    <3>4. Acceptable(file)
      BY <2>1, <2>2, <3>3, AcceptableAfterDefaults DEF AfterDefaults
    <3>. QED
      BY <3>1, <3>2, <3>4 DEF LogLevelStep
  <2>3. CASE cfg.logLevel \notin ValidLogLevels
    <3>1. logLevel' = logLevel
      BY <1>2, <2>3 DEF ValidateAndSetLogLevel, Fail
    <3>. QED
      BY <3>1 DEF LogLevelStep
  <2>. QED
    BY <2>2, <2>3
<1>. QED
  BY <1>1, <1>2 DEF Next

\* FromPath changes the process-wide log level only when it returns the
\* Config without error, for every file: a file that any validation of
\* config.go rejects leaves the level the process had.
THEOREM LogLevelSetOnlyOnSuccessHolds == Spec => LogLevelSetOnlyOnSuccess
<1>1. IInv /\ [Next]_vars => [LogLevelStep]_vars
  BY NextLogLevelStep
<1>. QED
  BY <1>1, InitIInv, NextIInv, PTL DEF Spec, LogLevelSetOnlyOnSuccess,
                                   LogLevelStep
==============================================================================
