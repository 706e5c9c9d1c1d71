SPECIFICATION FairSpec
CONSTANTS
    AllPorts = AllPorts
    None = None
    self = self
    anchor = anchor
    peer = peer
    web = web
    db = db
    ssh = ssh
    http = http
    Self = self
    Member = {self, anchor, peer}
    Ports = {ssh, http}
    Records <- MCRecords
    Dirs <- MCDirs
    Tables <- MCTables
    MaxChanges = 2
    MaxFaults = 2
PROPERTIES OneView LinksKept Settles
