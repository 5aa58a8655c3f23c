------------------------------ MODULE UvmIoctls ------------------------------
(***************************************************************************)
(* The UVM ioctls of decode/ioctl_uvm.rs.  Their numbers carry no size, so *)
(* the structure is read without a check (with_params).                    *)
(***************************************************************************)
EXTENDS DecodeSteps

with_params(t, more) ==
    <<read_pod("arg", 0, t, NoRoom, <<Put("arg_unreadable")>>)>>
        \o more \o <<Put("ok")>>

decode_initialize == with_params(UvmInitializeParams, <<>>)
decode_reserve_va == with_params(UvmReserveVaParams, <<>>)
decode_release_va == with_params(UvmReserveVaParams, <<>>)
decode_region_commit == with_params(UvmRegionCommitParams, <<>>)
decode_region_decommit == with_params(UvmReserveVaParams, <<>>)
decode_region_set_stream == with_params(UvmRegionSetStreamParams, <<>>)
decode_set_stream_running == with_params(UvmSetStreamRunningParams, <<>>)
decode_set_stream_stopped ==
    with_params(UvmSetStreamStoppedParams, <<List(32)>>)
decode_add_session == with_params(UvmAddSessionParams, <<>>)
decode_enable_counters == with_params(UvmEnableCountersParams, <<List(32)>>)
decode_map_counter == with_params(UvmMapCounterParams, <<>>)
decode_create_event_queue == with_params(UvmCreateEventQueueParams, <<>>)
decode_remove_event_queue == with_params(UvmRemoveEventQueueParams, <<>>)
decode_map_event_queue == with_params(UvmMapEventQueueParams, <<>>)
decode_event_ctrl == with_params(UvmEventCtrlParams, <<>>)
decode_get_gpu_uuid_table ==
    with_params(UvmGetGpuUuidTableParams, <<List(32)>>)
decode_region_set_backing == with_params(UvmRegionSetBackingParams, <<>>)
decode_region_unset_backing == with_params(UvmRegionUnsetBackingParams, <<>>)
decode_create_range_group == with_params(UvmCreateRangeGroupParams, <<>>)
decode_destroy_range_group == with_params(UvmDestroyRangeGroupParams, <<>>)
decode_register_gpu_vaspace == with_params(UvmRegisterGpuVaspaceParams, <<>>)
decode_unregister_gpu_vaspace ==
    with_params(UvmUnregisterGpuVaspaceParams, <<>>)
decode_register_channel == with_params(UvmRegisterChannelParams, <<>>)
decode_unregister_channel == with_params(UvmUnregisterChannelParams, <<>>)
decode_enable_peer_access == with_params(UvmPeerAccessParams, <<>>)
decode_disable_peer_access == with_params(UvmPeerAccessParams, <<>>)
decode_set_range_group == with_params(UvmSetRangeGroupParams, <<>>)
decode_map_external_allocation ==
    with_params(UvmMapExternalAllocationParams, <<List(256)>>)
decode_free == with_params(UvmFreeParams, <<>>)
decode_mem_map == with_params(UvmMemMapParams, <<>>)
decode_register_gpu == with_params(UvmRegisterGpuParams, <<>>)
decode_unregister_gpu == with_params(UvmUnregisterGpuParams, <<>>)
decode_pageable_mem_access == with_params(UvmPageableMemAccessParams, <<>>)
decode_prevent_migration_range_groups ==
    with_params(UvmRangeGroupsParams, <<List(32)>>)
decode_allow_migration_range_groups ==
    with_params(UvmRangeGroupsParams, <<List(32)>>)
decode_set_preferred_location ==
    with_params(UvmSetPreferredLocationParams, <<>>)
decode_unset_preferred_location == with_params(UvmReserveVaParams, <<>>)
decode_enable_read_duplication == with_params(UvmReserveVaParams, <<>>)
decode_disable_read_duplication == with_params(UvmReserveVaParams, <<>>)
decode_set_accessed_by == with_params(UvmSetAccessedByParams, <<>>)
decode_unset_accessed_by == with_params(UvmSetAccessedByParams, <<>>)
decode_migrate == with_params(UvmMigrateParams, <<>>)
decode_migrate_range_group == with_params(UvmMigrateRangeGroupParams, <<>>)
decode_enable_system_wide_atomics == with_params(UvmGpuUuidParams, <<>>)
decode_disable_system_wide_atomics == with_params(UvmGpuUuidParams, <<>>)
decode_tools_init_event_tracker ==
    with_params(UvmToolsInitEventTrackerParams, <<>>)
decode_tools_set_notification_threshold ==
    with_params(UvmToolsSetNotificationThresholdParams, <<>>)
decode_tools_event_queue_enable_events ==
    with_params(UvmToolsFlagsParams, <<>>)
decode_tools_event_queue_disable_events ==
    with_params(UvmToolsFlagsParams, <<>>)
decode_tools_enable_counters == with_params(UvmToolsFlagsParams, <<>>)
decode_tools_disable_counters == with_params(UvmToolsFlagsParams, <<>>)
decode_tools_read_process_memory ==
    with_params(UvmToolsReadProcessMemoryParams, <<>>)
decode_tools_write_process_memory ==
    with_params(UvmToolsWriteProcessMemoryParams, <<>>)
decode_tools_get_processor_uuid_table ==
    with_params(UvmToolsGetProcessorUuidTableParams, <<>>)
decode_map_dynamic_parallelism_region ==
    with_params(UvmBaseLengthGpuUuidParams, <<>>)
decode_unmap_external == with_params(UvmBaseLengthGpuUuidParams, <<>>)
decode_tools_flush_events == with_params(UvmStatusParams, <<>>)
decode_alloc_semaphore_pool ==
    with_params(UvmAllocSemaphorePoolParams, <<List(256)>>)
decode_clean_up_zombie_resources == with_params(UvmStatusParams, <<>>)
decode_pageable_mem_access_on_gpu ==
    with_params(UvmPageableMemAccessOnGpuParams, <<>>)
decode_populate_pageable == with_params(UvmPopulatePageableParams, <<>>)
decode_validate_va_range == with_params(UvmValidateVaRangeParams, <<>>)
decode_create_external_range == with_params(UvmCreateExternalRangeParams, <<>>)
decode_map_external_sparse == with_params(UvmBaseLengthGpuUuidParams, <<>>)
decode_mm_initialize == with_params(UvmMmInitializeParams, <<>>)
decode_alloc_device_p2p == with_params(UvmAllocDeviceP2pParams, <<>>)
decode_clear_all_access_counters == with_params(UvmStatusParams, <<>>)
decode_discard == with_params(UvmDiscardParams, <<>>)
decode_is8_supported == with_params(UvmIs8SupportedParams, <<>>)

decode_unknown_uvm ==
    <<read_bytes("arg", Least(AtLeast(16), 64), NoRoom,
                 <<Put("arg_unreadable")>>),
      Put("unknown_cmd")>>

decode_uvm_ioctl ==
    [deinitialize |-> <<Put("ok")>>, initialize |-> decode_initialize,
     reserve_va |-> decode_reserve_va, release_va |-> decode_release_va,
     region_commit |-> decode_region_commit,
     region_decommit |-> decode_region_decommit,
     region_set_stream |-> decode_region_set_stream,
     set_stream_running |-> decode_set_stream_running,
     set_stream_stopped |-> decode_set_stream_stopped,
     add_session |-> decode_add_session,
     enable_counters |-> decode_enable_counters,
     map_counter |-> decode_map_counter,
     create_event_queue |-> decode_create_event_queue,
     remove_event_queue |-> decode_remove_event_queue,
     map_event_queue |-> decode_map_event_queue,
     event_ctrl |-> decode_event_ctrl,
     get_gpu_uuid_table |-> decode_get_gpu_uuid_table,
     region_set_backing |-> decode_region_set_backing,
     region_unset_backing |-> decode_region_unset_backing,
     create_range_group |-> decode_create_range_group,
     destroy_range_group |-> decode_destroy_range_group,
     register_gpu_vaspace |-> decode_register_gpu_vaspace,
     unregister_gpu_vaspace |-> decode_unregister_gpu_vaspace,
     register_channel |-> decode_register_channel,
     unregister_channel |-> decode_unregister_channel,
     enable_peer_access |-> decode_enable_peer_access,
     disable_peer_access |-> decode_disable_peer_access,
     set_range_group |-> decode_set_range_group,
     map_external_allocation |-> decode_map_external_allocation,
     free |-> decode_free, mem_map |-> decode_mem_map,
     register_gpu |-> decode_register_gpu,
     unregister_gpu |-> decode_unregister_gpu,
     pageable_mem_access |-> decode_pageable_mem_access,
     prevent_migration_range_groups |-> decode_prevent_migration_range_groups,
     allow_migration_range_groups |-> decode_allow_migration_range_groups,
     set_preferred_location |-> decode_set_preferred_location,
     unset_preferred_location |-> decode_unset_preferred_location,
     enable_read_duplication |-> decode_enable_read_duplication,
     disable_read_duplication |-> decode_disable_read_duplication,
     set_accessed_by |-> decode_set_accessed_by,
     unset_accessed_by |-> decode_unset_accessed_by,
     migrate |-> decode_migrate,
     migrate_range_group |-> decode_migrate_range_group,
     enable_system_wide_atomics |-> decode_enable_system_wide_atomics,
     disable_system_wide_atomics |-> decode_disable_system_wide_atomics,
     tools_init_event_tracker |-> decode_tools_init_event_tracker,
     tools_init_event_tracker_v2 |-> decode_tools_init_event_tracker,
     tools_set_notification_threshold |-> decode_tools_set_notification_threshold,
     tools_event_queue_enable_events |-> decode_tools_event_queue_enable_events,
     tools_event_queue_disable_events |-> decode_tools_event_queue_disable_events,
     tools_enable_counters |-> decode_tools_enable_counters,
     tools_disable_counters |-> decode_tools_disable_counters,
     tools_read_process_memory |-> decode_tools_read_process_memory,
     tools_write_process_memory |-> decode_tools_write_process_memory,
     tools_get_processor_uuid_table |-> decode_tools_get_processor_uuid_table,
     tools_get_processor_uuid_table_v2 |-> decode_tools_get_processor_uuid_table,
     map_dynamic_parallelism_region |-> decode_map_dynamic_parallelism_region,
     unmap_external |-> decode_unmap_external,
     tools_flush_events |-> decode_tools_flush_events,
     alloc_semaphore_pool |-> decode_alloc_semaphore_pool,
     clean_up_zombie_resources |-> decode_clean_up_zombie_resources,
     pageable_mem_access_on_gpu |-> decode_pageable_mem_access_on_gpu,
     populate_pageable |-> decode_populate_pageable,
     validate_va_range |-> decode_validate_va_range,
     create_external_range |-> decode_create_external_range,
     map_external_sparse |-> decode_map_external_sparse,
     mm_initialize |-> decode_mm_initialize,
     alloc_device_p2p |-> decode_alloc_device_p2p,
     clear_all_access_counters |-> decode_clear_all_access_counters,
     discard |-> decode_discard, is_8_supported |-> decode_is8_supported,
     unknown |-> decode_unknown_uvm]
==============================================================================
