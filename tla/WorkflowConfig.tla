---------------------------- MODULE WorkflowConfig ----------------------------
(***************************************************************************)
(* The Nacos settings of a workflow's config provider.  They come from     *)
(* four layers, the nearest first: the workflow's item, the defaults of    *)
(* workflow_configs, the root config's nacos section and the settings the  *)
(* root provider itself was loaded with.  A layer is a function from the   *)
(* fields it names to their values, like the mapping it was parsed from.   *)
(* A document's name is the sequence of its parts.                         *)
(***************************************************************************)
EXTENDS Naturals, Sequences, FiniteSets, FiniteSetsExt

CONSTANT None

NoLayer == [field \in {} |-> None]

Value(layer, field) == IF field \in DOMAIN layer THEN layer[field] ELSE None

Item(cfg, w) == IF w \in DOMAIN cfg.items THEN cfg.items[w] ELSE NoLayer

Layers(cfg, w) == <<Item(cfg, w), cfg.defaults, cfg.root, cfg.base>>

\* The nearest layer that has a value.
Pick(cfg, w, field) ==
    LET layers == Layers(cfg, w)
        having == {i \in DOMAIN layers : Value(layers[i], field) # None}
    IN  IF having = {} THEN None ELSE layers[Min(having)][field]

\* A layer that names the field decides, even with a null; then it is off.
Enabled(cfg, w) ==
    CASE "enabled" \in DOMAIN Item(cfg, w) -> Item(cfg, w).enabled = TRUE
      [] "enabled" \notin DOMAIN Item(cfg, w) /\ "enabled" \in DOMAIN cfg.defaults ->
            cfg.defaults.enabled = TRUE
      [] OTHER -> TRUE

\* str.format with the workflow's name.
Format(template, w) ==
    [i \in DOMAIN template |-> IF template[i] = "{workflow}" THEN w ELSE template[i]]

\* Mutant: the document is looked up in every layer, like the other fields.
DataIdPicked(cfg, w) ==
    IF Pick(cfg, w, "data_id") \in {None, <<>>} THEN <<w, ".yaml">> ELSE Pick(cfg, w, "data_id")

\* Is there a name, and is it not blank?
Names(layer, field) == Value(layer, field) \notin {None, <<>>}

\* Only the item and the template of the defaults name a workflow's document.
DataId(cfg, w) ==
    CASE Names(Item(cfg, w), "data_id") -> Item(cfg, w).data_id
      [] ~Names(Item(cfg, w), "data_id") /\ Names(cfg.defaults, "data_id_template") ->
            Format(cfg.defaults.data_id_template, w)
      [] OTHER -> <<w, ".yaml">>

\* None: the provider has its local file only.
Settings(cfg, w) ==
    IF cfg.switched_off \/ ~Enabled(cfg, w) \/ Pick(cfg, w, "server_addr") \in {None, ""}
    THEN None
    ELSE [server_addr |-> Pick(cfg, w, "server_addr"),
          data_id     |-> DataId(cfg, w),
          group       |-> IF Pick(cfg, w, "group") \in {None, ""} THEN "DEFAULT_GROUP"
                          ELSE Pick(cfg, w, "group")]
===============================================================================
