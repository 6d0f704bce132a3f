---------------------------- MODULE MCBootMounts ----------------------------
(***************************************************************************)
(* Instances of ToolStart and BootMounts for TLC: machines with plugins of *)
(* one name in usr and etc, skip lists that name one, both or another, and *)
(* triggers for none, one and three rows; two disks with an ESP and an     *)
(* XBOOTLDR each, one XBOOTLDR on no disk, in every order of three mounts, *)
(* and an answer of bootctl cut in the name of a mount point.              *)
(***************************************************************************)
EXTENDS BootMounts

Words == STRING
Usr == <<<<"usr/10">>, <<"usr/20">>>>
Etc == <<<<"etc/20">>>>
Lines == {<<>>, <<<<"systemd">>>>,
          <<<<"usr", "/", "lib">>, <<"dracut">>, <<"/", "etc">>>>,
          <<<<"usr", "/", "lib">>, <<"usr", "/", "bin">>, <<"etc", "/", "x">>>>}

Types == [esp1 |-> "esp", esp2 |-> "esp", boot1 |-> "xbootldr", boot2 |-> "xbootldr",
          boot3 |-> "xbootldr", home |-> "other"]
Disks == [esp1 |-> "disk1", esp2 |-> "disk2", boot1 |-> "disk1", boot2 |-> "disk2",
          boot3 |-> "none", home |-> "disk1"]

Plain(part, target) == [part |-> part, target |-> target, kind |-> "plain"]

SmallMounts ==
  {Plain("esp1", "/efi"), Plain("esp2", "/efi"), Plain("esp2", "/efi2"), Plain("boot1", "/boot"),
   Plain("boot2", "/boot2"), Plain("boot3", "/boot3"), Plain("home", "/home"),
   [part |-> "esp1", target |-> "/efi", kind |-> "auto"],
   [part |-> "esp1", target |-> "/srv", kind |-> "bind"]}

\* What is left names another mount point, or none.
SmallCuts == {<<"/efi2", "/efi">>, <<"/efi", "/ef">>, <<"/boot2", "/boot">>}

SmallTables ==
  {t \in UNION {[1..n -> SmallMounts] : n \in 0..3} : \A j, k \in DOMAIN t : t[j] = t[k] => j = k}

Tools ==
  [prog : {"tool"}, others : {{}}, file : {"sample", "admin"}, sample : {TRUE}, edits : {0},
   usr : {<<>>, Usr}, etc : {<<>>, Etc},
   skips : {<<>>, <<<<"usr/20">>>>, <<<<"usr/20">>, <<"etc/20">>>>, <<<<"none">>, <<"usr/10">>>>},
   lines : Lines, oper : {"add", "remove"}, table : {<<>>}, nvram : {NoPart}]

SharedFile ==
  [prog : {"tool"}, others : {{"a"}, {"a", "b"}}, file : {"none", "sample", "admin"},
   sample : BOOLEAN, edits : {1}, usr : {Usr}, etc : {Etc}, skips : {<<<<"usr/20">>>>},
   lines : {<<>>}, oper : {"add"}, table : {<<>>}, nvram : {NoPart}]

\* Where the firmware says nothing, two mounts are enough.
Mounters ==
  {m \in [prog : {"mounts"}, others : {{}}, file : {"sample"}, sample : {TRUE}, edits : {0},
   usr : {Usr}, etc : {Etc}, skips : {<<>>}, lines : {<<>>}, oper : {"add"},
   table : SmallTables, nvram : {"esp1", "esp2", NoPart}] :
   m.nvram = NoPart => Len(m.table) <= 2}

SmallMachines == Tools \cup SharedFile \cup Mounters

=============================================================================
