----------------------------- MODULE MCOfgwrite ------------------------------
(* The instance of Ofgwrite that TLC checks, see MCOfgwrite.cfg.           *)
EXTENDS Ofgwrite

M(dir, dev) == [dir |-> dir, dev |-> dev, movable |-> TRUE]
Share(dir, dev) == [dir |-> dir, dev |-> dev, movable |-> FALSE]

(* What every box has mounted, and the mounts below /media and elsewhere.  *)
Base == <<M(<<>>, "root"), M(<<"dev">>, "devtmpfs"), M(<<"dev", "pts">>, "devpts"),
          M(<<"proc">>, "proc"), M(<<"sys">>, "sysfs"),
          M(<<"var", "volatile">>, "tmpfs"), M(<<"newroot">>, "tmpfs2")>>

Layout(mounts, image) == [table |-> Base \o mounts, image |-> image]
Hdd == <<"media", "hdd">>
Net == <<"media", "net">>
Usb == <<"mnt", "usb">>
Media == M(<<"media">>, "media")

MCLayouts ==
  {Layout(<<M(Hdd, "sda1"), Share(Net, "nfs")>>, Hdd \o <<"image">>),
   Layout(<<Media, Share(Net, "nfs"), M(Hdd, "sda1")>>, Hdd \o <<"image">>),
   Layout(<<M(Hdd, "sda1"), M(<<"mnt">>, "mnt"), M(Usb, "sdb1")>>, Usb),
   Layout(<<M(Hdd, "sda1"), M(Hdd \o <<"nfs">>, "nfs")>>, Hdd),
   Layout(<<M(Hdd, "sda1")>>, <<"var", "volatile", "tmp">>),
   Layout(<<M(<<"var", "volatile", "tmp">>, "tmp"), M(Hdd, "sda1")>>,
          <<"var", "volatile", "tmp">>),
   [table |-> SubSeq(Base, 1, 5) \o <<Base[7], M(<<"var", "volatile", "tmp">>, "tmp")>>,
    image |-> <<"var", "volatile", "tmp">>],
   Layout(<<M(Hdd, "sda1"), Share(Net, "nfs")>>, Net),
   Layout(<<M(Hdd, "sda1"), M(Usb, "sda1")>>, Hdd),
   Layout(<<M(Hdd, "sda1"), M(Hdd, "sdb1"), M(Net, "sdc1")>>, Hdd),
   Layout(<<M(Hdd, "sda1")>>, <<"home", "root">>)}
==============================================================================
