SPECIFICATION MCSpec
CHECK_DEADLOCK FALSE
CONSTANTS
    o1 = o1
    o2 = o2
    photos = photos
    files1 = files1
    d1 = d1
    d2 = d2
    Op = {o1, o2}
    Vol = {photos, files1}
    Disk = {d1, d2}
    Initial <- FilesOnDisk
    Request <- Moves
    StorageFaults = 2
    immich = immich
    paperless = paperless
    RestoreBundle = {immich, paperless}
    Deployment <- OneRunning
    Custom = FALSE
    MaxRequests = 0
    RestoreFaults = 0
    MaxDeaths = 0
PROPERTY RestoreCompletes
