------------------------------ MODULE Settings ------------------------------
(***************************************************************************)
(* How both programs find their settings (server/config, agent/config):    *)
(* parseFlags, then the file, then the environment, then SetFlags, each    *)
(* writing to the same Params.  A setting is a string, "unset" for the nil *)
(* pointer.  The library that reads the environment (env/v6) is external:  *)
(* it overwrites a setting whose variable is there and not empty.          *)
(***************************************************************************)
EXTENDS Naturals

Unset == "unset"

(* The name of each setting in the file.  encoding/json takes the field's  *)
(* name where the tag gives none; the tag of StoreInterval is "restore".   *)
ServerTag ==
    [UseGRPC |-> "UseGRPC", SecretKey |-> "SecretKey", CryptoKey |-> "crypto_key",
     TrustedSubnet |-> "trusted_subnet", StoreInterval |-> "restore"]

(* "-" is no name: the secret key of an agent can not be in the file. *)
AgentTag == [UseGRPC |-> "UseGRPC", SecretKey |-> "-", CryptoKey |-> "crypto_key"]

(* A launch l has l.flag with its defaults, l.env, the contents l.file,     *)
(* and the name of the file in the flag, l.config, and in the environment, *)
(* l.CONFIG.  That variable wins over the flag, even if it is empty.        *)
FileName(l) == IF l.CONFIG # Unset THEN l.CONFIG ELSE l.config

(* Only numbers and truth values can be wrong. *)
Fits(s, v) ==
    CASE s = "StoreInterval" -> v \in {Unset, "0", "300"}
      [] s = "UseGRPC" -> v \in {Unset, "true", "false"}
      [] OTHER -> TRUE

(* parseConfigFile *)
InFile(l, tag) ==
    [s \in DOMAIN tag |->
        IF FileName(l) # "" /\ tag[s] \in DOMAIN l.file /\ tag[s] # "-"
        THEN l.file[tag[s]] ELSE Unset]

(* What is in q goes over what is in p: env.Parse over the file, and, the  *)
(* other way round, the flags under both.                                  *)
Over(q, p) == [s \in DOMAIN p |-> IF q[s] \in {Unset, ""} THEN p[s] ELSE q[s]]
Under(q, p) == [s \in DOMAIN p |-> IF p[s] = Unset THEN q[s] ELSE p[s]]

(* Mutated form of Initialize: the file is read after the environment. *)
InitializeFileLast(l, tag) ==
    Under(l.flag, [s \in DOMAIN tag |->
        IF InFile(l, tag)[s] # Unset THEN InFile(l, tag)[s]
        ELSE Over(l.env, InFile(l, tag))[s]])

Initialize(l, tag) == Under(l.flag, Over(l.env, InFile(l, tag)))

(* A value that is not of its setting's type is a panic. *)
Panics(l, tag) ==
    \E s \in DOMAIN tag : ~Fits(s, l.env[s]) \/ ~Fits(s, InFile(l, tag)[s])
=============================================================================
