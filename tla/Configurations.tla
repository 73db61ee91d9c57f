--------------------------- MODULE Configurations ---------------------------
(***************************************************************************)
(* What Configurator.updateConfiguration makes of the answers of the       *)
(* servers: tables of hosts, items and macros become the items in use and  *)
(* the queries of each configuration item, by their periods.  A text is a  *)
(* sequence of tokens: user macros, punctuation and names.                 *)
(***************************************************************************)
EXTENDS Integers, Sequences, SequencesExt

CONSTANTS
  UserMacros,   \* tokens that are user macros, {$...}
  Suffix,       \* the token configSuffix
  Parsed        \* parseXMLConfig: what the texts that are valid XML parse to

ASSUME ParsedAssumption == \A text \in DOMAIN Parsed : {"prefix", "discovery", "query", "multiquery"}
                                                        \subseteq DOMAIN Parsed[text]

NoCell == <<"undefined">>
Thrown == <<"thrown">>
NoKeys == <<<<"undefined">>>>    \* the attribute item or items is missing

-----------------------------------------------------------------------------
(* Tables: fields are the names of the columns, data the rows. *)

\* findIndex of each field, 0 where there is none.
GetFieldOffsetMap(fields, source) ==
  [f \in ToSet(fields) |->
     LET at == {k \in DOMAIN source.fields : source.fields[k] = f}
     IN  IF at = {} THEN 0 ELSE Min(at)]

Cell(row, offset) == IF offset \in DOMAIN row THEN row[offset] ELSE NoCell

\* The columns in the order of the source, under the names in the order of the caller.
GetUsefulFields(fields, source) ==
  LET offsets == GetFieldOffsetMap(fields, source)
      Useful(row) ==
        LET kept == SelectSeq([k \in DOMAIN row |-> k], LAMBDA k : \E f \in DOMAIN offsets : offsets[f] = k)
        IN  [k \in DOMAIN kept |-> row[kept[k]]]
  IN  [fields |-> fields, data |-> [r \in DOMAIN source.data |-> Useful(source.data[r])]]

-----------------------------------------------------------------------------
(* User macros *)

\* The macros of each host that has some.
GroupMacrosByHostid(hostmacro) ==
  LET at == GetFieldOffsetMap(<<"hostid", "macro", "value">>, hostmacro)
      hosts == {Cell(m, at["hostid"]) : m \in ToSet(hostmacro.data)}
  IN  [h \in hosts |->
         LET own == SelectSeq(hostmacro.data, LAMBDA m : Cell(m, at["hostid"]) = h)
         IN  [k \in DOMAIN own |-> [macro |-> Cell(own[k], at["macro"]), value |-> Cell(own[k], at["value"])]]]

\* str.replace(m, value): the first occurrence, with the dollar patterns of its second argument.
ReplaceFirst(text, m, value) ==
  LET i == Min({k \in DOMAIN text : text[k] = m})
      inserted == [k \in DOMAIN value |->
                     IF value[k] = "$&" THEN m ELSE IF value[k] = "$$" THEN "$" ELSE value[k]]
  IN  IF m \in ToSet(text)
      THEN SubSeq(text, 1, i - 1) \o inserted \o SubSeq(text, i + 1, Len(text))
      ELSE text

Matches(text) == SelectSeq(text, LAMBDA token : token \in UserMacros)

\* substituteMacros of a string: one match after the other; an unknown macro is left as it is.
SubstituteMacros(text, macros) ==
  LET Substitute(str, m) ==
        LET known == SelectSeq(macros, LAMBDA m1 : m1.macro = m)
        IN  IF known = <<>> THEN str ELSE ReplaceFirst(str, m, known[1].value)
  IN  FoldLeft(Substitute, text, Matches(text))

\* Without any macro of the host there is nothing to look them up in.
Substituted(text, macros, host) ==
  IF Matches(text) = <<>> THEN text
  ELSE IF host \notin DOMAIN macros THEN Thrown
  ELSE SubstituteMacros(text, macros[host])

-----------------------------------------------------------------------------
(* Configuration items *)

\* cfgSuffixRegExp.exec: the name behind the last comma it can take, or behind the bracket.
NoDb == <<>>
Punctuation == {",", "[", "]", " "}
ConfigDb(key) ==
  LET Name == {k \in DOMAIN key : key[k] \notin Punctuation}
      Starts == {i + 2 : i \in {k \in DOMAIN key : key[k] = Suffix /\ k < Len(key) /\ key[k + 1] = "["}}
      NameAt(s) == {e \in s .. Len(key) - 1 : s .. e \subseteq Name /\ key[e + 1] = "]"}
      Taken(i) == {s \in {i} \cup {k + 1 : k \in {j \in i .. Len(key) : key[j] = ","}} : NameAt(s) # {}}
      Good == {i \in Starts : Taken(i) # {}}
      s == Max(Taken(Max(Good)))
  IN  IF Good = {} THEN NoDb ELSE SubSeq(key, s, Max(NameAt(s)))

AllQueries(parms) == parms.discovery \o parms.query \o parms.multiquery
Item(param) == IF param.items # NoKeys THEN param.items ELSE param.item

\* Without keys the loop below throws, and parseXMLConfig answers undefined.
Groupable(parms) == \A param \in ToSet(AllQueries(parms)) : Item(param) # NoKeys

\* groupParamsByTime: discovery first, items instead of item, every key behind the prefix.
GroupParamsByTime(parms) ==
  LET Prefixed(param) ==
        [param EXCEPT !.item = [k \in DOMAIN Item(param) |-> parms.prefix \o Item(param)[k]]]
      Timed(t) == SelectSeq(AllQueries(parms), LAMBDA param : param.time = t)
  IN  [t \in {param.time : param \in ToSet(AllQueries(parms))} |->
         [k \in DOMAIN Timed(t) |-> Prefixed(Timed(t)[k])]]

\* The steps of each item, by the second column, from the fourth on.
PreprocOf(item_preproc) ==
  LET ids == {row[2] : row \in ToSet(item_preproc.data)}
  IN  [id \in ids |->
         LET own == SelectSeq(item_preproc.data, LAMBDA row : row[2] = id)
         IN  [k \in DOMAIN own |-> SubSeq(own[k], 4, Len(own[k]))]]

ItemFields == <<"itemid", "type", "hostid", "key_", "status", "value_type", "params">>
HostFields == <<"hostid", "host", "status", "name">>
ItemAt == [f \in ToSet(ItemFields) |-> CHOOSE k \in DOMAIN ItemFields : ItemFields[k] = f]

\* Mutant: items of hosts that are disabled are kept.
EnabledRegardless(answer, itemsAt, hostsAt) ==
  LET On(row, at) == Cell(row, at["status"]) = 0
  IN  [answer EXCEPT !.hosts.data = SelectSeq(@, LAMBDA h : On(h, hostsAt)),
                     !.items.data = SelectSeq(@, LAMBDA i : On(i, itemsAt))]

\* What is not disabled, by the offsets given.
Enabled(answer, itemsAt, hostsAt) ==
  LET On(row, at) == Cell(row, at["status"]) = 0
      hosts == SelectSeq(answer.hosts.data, LAMBDA h : On(h, hostsAt))
      HostOf(i) == \E h \in ToSet(hosts) : Cell(h, hostsAt["hostid"]) = Cell(i, itemsAt["hostid"])
  IN  [answer EXCEPT !.hosts.data = hosts,
                     !.items.data = SelectSeq(@, LAMBDA i : On(i, itemsAt) /\ HostOf(i))]

\* The tables a server keeps: zabbixConfig.
ZabbixConfig(answer, itemsAt, hostsAt) ==
  LET enabled == Enabled(answer, itemsAt, hostsAt)
  IN  [hosts |-> GetUsefulFields(HostFields, enabled.hosts),
       items |-> GetUsefulFields(ItemFields, enabled.items),
       hostmacro |-> answer.hostmacro,
       item_preproc |-> PreprocOf(answer.item_preproc)]

\* The items with the macros in their keys and params replaced.
WithMacros(zcfg) ==
  LET at == GetFieldOffsetMap(ItemFields, zcfg.items)
      macros == GroupMacrosByHostid(zcfg.hostmacro)
      Of(item, f) == Substituted(Cell(item, at[f]), macros, Cell(item, at["hostid"]))
  IN  [k \in DOMAIN zcfg.items.data |->
         LET item == zcfg.items.data[k]
         IN  [item EXCEPT ![at["key_"]] = Of(item, "key_"), ![at["params"]] = Of(item, "params")]]

\* zabbix.params: the configuration items that name a database the server may monitor, with
\* queries that can be read.
ParamsOf(items, dbs) ==
  LET at == ItemAt
      Db(item) == ConfigDb(item[at["key_"]])
      Timers(item) == GroupParamsByTime(Parsed[item[at["params"]]])
      good == SelectSeq(items, LAMBDA item :
                /\ Db(item) # NoDb /\ Db(item) \in dbs
                /\ item[at["params"]] \in DOMAIN Parsed
                /\ Groupable(Parsed[item[at["params"]]]))
  IN  [k \in DOMAIN good |->
         [confItemid |-> good[k][at["itemid"]], hostid |-> good[k][at["hostid"]],
          dbName |-> Db(good[k]), timers |-> Timers(good[k])]]

\* updateConfiguration after all servers have answered: the offsets of the first answer serve
\* for all, and one text without its macros ends the update.
Converted(answers, dbs) ==
  LET itemsAt == GetFieldOffsetMap(<<"status", "hostid">>, answers[1].items)
      hostsAt == GetFieldOffsetMap(<<"status", "hostid">>, answers[1].hosts)
      zcfgs == [z \in DOMAIN answers |-> ZabbixConfig(answers[z], itemsAt, hostsAt)]
      items == [z \in DOMAIN answers |-> WithMacros(zcfgs[z])]
  IN  IF \E z \in DOMAIN answers : \E item \in ToSet(items[z]) :
            Thrown \in {item[ItemAt["key_"]], item[ItemAt["params"]]}
      THEN Thrown
      ELSE [z \in DOMAIN answers |->
              [items |-> items[z], preproc |-> zcfgs[z].item_preproc, params |-> ParamsOf(items[z], dbs[z])]]

-----------------------------------------------------------------------------
(* What they are for *)

\* A row by the names of its columns.
Named(source, row) == [f \in ToSet(source.fields) |-> row[GetFieldOffsetMap(source.fields, source)[f]]]
Records(source) == [k \in DOMAIN source.data |-> Named(source, source.data[k])]

\* Macros replaced all at once.
Resolved(text, macros) ==
  LET Known(token) == {k \in DOMAIN macros : macros[k].macro = token}
  IN  FlattenSeq([k \in DOMAIN text |->
        IF Known(text[k]) = {} THEN <<text[k]>> ELSE macros[Min(Known(text[k]))].value])

\* Macros in a text, each replaced wherever it stands, whatever comes before it, if their values
\* have no macros of their own; one that is not known is left as it is and costs no other.
MacrosResolved(text, macros) ==
  (\A k \in DOMAIN macros : ToSet(macros[k].value) \cap (UserMacros \cup {"$&", "$$"}) = {})
    => SubstituteMacros(text, macros) = Resolved(text, macros)

IsName(text) == text # <<>> /\ ToSet(text) \cap Punctuation = {}

\* The key of a configuration item, prefix.Suffix[someid,...,db], names its last parameter.
DbNamed(prefix, params) ==
  ConfigDb(prefix \o <<Suffix, "[">> \o FoldRight(LAMBDA p, rest : p \o (IF rest = <<>> THEN <<>> ELSE <<",">>) \o rest,
                                                   params, <<>>) \o <<"]">>)
    = Last(params)

\* Columns in the order updateConfiguration names them in, and in the same places everywhere.
InOrder(answers) ==
  \A z \in DOMAIN answers :
    /\ SelectSeq(answers[z].items.fields, LAMBDA f : f \in ToSet(ItemFields)) = ItemFields
    /\ SelectSeq(answers[z].hosts.fields, LAMBDA f : f \in ToSet(HostFields)) = HostFields
    /\ answers[z].items.fields = answers[1].items.fields
    /\ answers[z].hosts.fields = answers[1].hosts.fields

\* The enabled items of enabled hosts.
InUse(answer) ==
  SelectSeq(Records(answer.items), LAMBDA i :
    i.status = 0 /\ \E h \in ToSet(Records(answer.hosts)) : h.hostid = i.hostid /\ h.status = 0)

OwnMacros(answer, host) == SelectSeq(Records(answer.hostmacro), LAMBDA m : m.hostid = host)

\* The queries of a period are those that ask for it, whatever their kind, and no other.
IsConfigOf(config, item, key, parms) ==
  /\ config.confItemid = item.itemid /\ config.hostid = item.hostid /\ config.dbName = ConfigDb(key)
  /\ DOMAIN config.timers = {q.time : q \in ToSet(AllQueries(parms))}
  /\ \A t \in DOMAIN config.timers :
       {[q EXCEPT !.item = NoKeys] : q \in ToSet(config.timers[t])}
         = {[q EXCEPT !.item = NoKeys] : q \in {p \in ToSet(AllQueries(parms)) : p.time = t}}
  /\ \A t \in DOMAIN config.timers : \A q \in ToSet(config.timers[t]) : \A k \in DOMAIN q.item :
       \E p \in ToSet(AllQueries(parms)) :
         /\ [p EXCEPT !.item = NoKeys] = [q EXCEPT !.item = NoKeys]
         /\ q.item[k] = parms.prefix \o Item(p)[k]

\* The host of each item in use defines the macros of the item: it takes none from a template.
OnOwnHost(answer) ==
  \A i \in ToSet(InUse(answer)) :
    ToSet(Matches(i.key_ \o i.params)) \subseteq {m.macro : m \in ToSet(OwnMacros(answer, i.hostid))}

\* The whole update, of answers that need no templates: it goes through, and each server gets, of
\* its own answer, exactly the enabled items of enabled hosts with the macros of their own host, and
\* of the configuration items among them those that name an allowed database and have queries;
\* each query under its period, with its keys behind the prefix.
ConfigurationConverted(answers, dbs) ==
  InOrder(answers) /\ (\A z \in DOMAIN answers : OnOwnHost(answers[z])) =>
    \A converted \in {Converted(answers, dbs)} :
      /\ converted # Thrown
      /\ \A z \in DOMAIN answers :
           LET made == converted[z]
               used == InUse(answers[z])
               Text(i, f) == Resolved(i[f], OwnMacros(answers[z], i.hostid))
               configs == SelectSeq(used, LAMBDA i :
                            /\ ConfigDb(Text(i, "key_")) \in dbs[z]
                            /\ Text(i, "params") \in DOMAIN Parsed
                            /\ Groupable(Parsed[Text(i, "params")]))
           IN  /\ [k \in DOMAIN made.items |->
                     <<made.items[k][ItemAt["itemid"]], made.items[k][ItemAt["key_"]]>>]
                    = [k \in DOMAIN used |-> <<used[k].itemid, Text(used[k], "key_")>>]
               /\ Len(made.params) = Len(configs)
               /\ \A k \in DOMAIN configs :
                    IsConfigOf(made.params[k], configs[k], Text(configs[k], "key_"),
                               Parsed[Text(configs[k], "params")])
=============================================================================
