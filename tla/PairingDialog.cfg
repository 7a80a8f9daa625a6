SPECIFICATION FairSpec
CONSTANTS
 Ids = {"a","b","c","bad","m","n"}
 Providers={"openai"}
 Emails={"e1","e2"}
 ProviderIds={"i1"}
 NoValue=NoValue
 Groups={"g1","g2","h"}
 Names={"work","home"}
 MaxGroups=2
 MaxAccounts=3
 Transfers={"t","u"}
 Sender<-MCSender
 Unfit={"bad"}
 Fresh={"m","n"}
 People<-MCPeople
 Receivers<-MCReceivers
 MaxTurns=2
 Total<-MCTotal
INVARIANTS NoTwins TransferArrives ToldOnce
PROPERTIES SignInsAreKept ImportIsOfComparedFrames VerificationEnds
CHECK_DEADLOCK FALSE
